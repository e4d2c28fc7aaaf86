# Verification of agent-ready-fullstack-ts-python

The repository is a Copier template for an application: a Python backend
(`src/template/backend/app`, FastAPI and asyncpg on Postgres) and a TypeScript
frontend (`src/template/frontend/src`, React and TanStack Query). This directory
holds TLA+ models of the parts of it where order, time, failure and concurrency
decide what is right, the TLC configurations that check them on small instances,
and proofs, checked by TLAPS, of what matters most for every size.

Paths below are relative to `src/template/backend/app` unless they say otherwise.

## 1. Inventory

### Durable jobs (`store/pg_jobs.py`, `store/jobs.py`, `store/pg.py`, `worker.py`)

*State.* Two rows per job: `job_claims` (state, token, leased_until, attempts,
ready_at), which no tenant policy scopes, and `jobs` (state, outcome, failure),
which one does. In each worker process: slots, each with at most one claim, a
handler task, and a renewer task.

*Operations.* `ask` writes both rows and notifies. A slot claims a row (`_CLAIM`,
FOR UPDATE SKIP LOCKED) with a new token, a lease and one more attempt. Then
`asked` reads the job, the handler runs, and `done`, `dead`, `again` or `deferred`
ends the attempt. Every transaction of the attempt first takes the claim's row
with FOR KEY SHARE where the token still matches (`scoped`): the fence.

*Hard.* Leases lapse under attempts that still run; processes die with a COMMIT on
its way; connections are refused; two tables must agree; attempts are counted at
the claim and given back by a deferral.

*Right when* no attempt writes after another one took its job; both tables say the
same; a handler is started no more often than attempts allow; no job is dead
early; every job ends.

### The worker's wake loop (`worker.py`, `pacing.py`, `next_claim_within`)

*State.* One `asyncio.Event` per worker that its slots share, a LISTEN connection
that sets it, and the time a waiting slot has left.

*Operations.* Clear, claim, on none `next_claim_within`, wait at most that long or
`SWEEP_SECONDS`; on a claim set the Event again so that the others look.

*Hard.* Lost wakes, notifications that are lost with the connection, two queries
that read two moments, a wait whose length is out of date when it begins.

*Right when* no ready job is left to slots that all sleep, no slot sleeps further past
the end of a lease than its own answer was late and the claim took, and every job that
is due is claimed.

### Admission (`admission.py`, `admission_limits.py`)

*State.* In one process: an account per actor (tokens and when they were read,
requests in flight, streams), made on demand and dropped by a sweep; on each
request, the closures that give its places back.

*Operations.* `admit`, `stream`, the middleware that gives back at the start of the
response and at its end, the sweep, and a policy that reports instead of refusing.

*Hard.* A dropped account whose places are still out, a place given back twice or
to the wrong account, a `Retry-After` that is too short.

*Right when* accounts that come and go are not to be told from accounts that are
kept, and the promise of a `Retry-After` is kept.

### Release step and schema check (`store/migrate.py`, `migrate.py`, `store/ddl.py`, `store/roles.py`, `lifespan.py`, `routes/public.py`)

*State.* The ledger `applied_once`, the schema itself, an advisory lock of the
session; what the application role may do to each table, and the default privileges
of the owning role.

*Operations.* `apply` (look for unknown keys, lock, execute and record every entry
in order, withhold writes, unlock), `check` at the start of a process and at each
`/ready`, and `deploy/roles.sql`, which an operator applies at any time.

*Hard.* Every statement commits by itself and the migrator can die between any two;
two releases may run at once; entries may sort below ones already applied; a new
table is granted every write until the step that withholds them.

*Right when* the ledger never runs ahead of the schema, has no gap, entries of two
releases are not interleaved, a dead migrator does not keep the lock, and a release
step that ended leaves a role that can record every event and forge none.

### Waits and shared work (`waits.py`, the stop in `lifespan.py`)

*State.* The run of each key (`_runs`) of a `SharedWork`, and the tasks that the
process started (`_STARTED`).

*Operations.* `joined` joins the run of a key or starts one, and awaits it behind a
shield; `beside` starts work that no request awaits; done callbacks take a run that
ended from both tables; `cancel_beside` cancels what is left when the process stops.

*Hard.* A run that ended is in the table until its callbacks run; a caller is
cancelled while others await the same run; a run joins another; the stop comes at
any point of all that.

*Right when* there is one run for a key, whoever awaits one is told how it ended, a
caller that leaves takes nothing from the others, and work that goes on though the
database closed is named by `BesideOutlivedItsCancel`, or came after the stop.

### Requests (`main.py`, `deps.py`, `store/pg.py`, `store/acting.py`, `request_events.py`, `audit_events.py`)

*State.* Of a request: its principal, its place, whether it is served and recorded,
and where its response is. Of a pooled connection: who it is lent to, the tenant of
its transaction (`app.tenant_id`, set LOCAL) and the actor of its session
(`SET_ACTING`, set for the session). The rows, and `audit_events`.

*Operations.* Resolve, admit and serve a principal; take a connection, name who acts,
set the tenant, execute under a forced policy and an audit trigger, commit or roll
back, give the connection back; record the request event on a connection of its own
before the response starts; answer 503 when there is none; give the place back.

*Hard.* A session setting outlives the transaction it was set for. The event is
recorded after the route committed and may be refused. A task is cancelled at any
wait: with a COMMIT on its way, or while its connection comes back, when the request
ends and the release goes on without it. The middlewares nest in one order only.

*Right when* no request writes or sees a row of another tenant, each event names who
acted, no response that leaves is unrecorded, an actor's requests hold no more
connections than places where places are enforced, and every connection comes back.

### Deployment: settings, budget, pool, start and stop (`wiring.py`, `environment.py`, `deployment.py`, `store/budget.py`, `store/pg.py`, `lifespan.py`, `worker.py`)

*State.* The environment of the deployment, the limits of the server; in each process
its one pool, the lock that guards its opening, the probe that reads the limits, and
the LISTEN connection of a worker.

*Operations.* Refuse to start; read the limits; open the pool of the size that remains
of a process's share; grow and shrink it; fail; serve; stop; close, and, in a web
process, open once more for a task that outlived its request; exit.

*Hard.* Several tasks find no pool at once; a start is refused halfway; a rollout has
two revisions up; every holder counts against one number of the server.

*Right when* all connections fit the server, and no process loses a pool.

### Memory substrate (`store/memory.py`)

*State.* A list, events and jobs per tenant; the tasks of its jobs. *Operations.* `ask`
starts a task, which attempts, defers, tries again and ends the job; `close` cancels.
*Hard.* A deferral does not count as an attempt; a job is cancelled at any wait.
*Right when* it keeps the promise of `JobBoard`, dies only of failures, and ends.

### Loop watch (`loop_watch.py`)

*State.* `_due` and `_seen`, shared by the loop's thread and a thread beside it with no
lock. *Operations.* The tick, the look, the exit. *Hard.* A tick may run between any
two reads or writes of a look. *Right when* a hold is never given the frame of another.

### Paging (`store/pg.py`, `store/memory.py`)

*State.* Rows with the number the sequence gave them, before they commit; a reader's
cursor. *Hard.* Rows come and go between pages, and the cursor's row too. *Right when*
a reader that follows `next` meets each row that stays once, in order.

### A tab of the frontend (`frontend/src/query-client.ts`, `build.ts`, `missing-chunk.ts`, `api/client.ts`, `client-events.ts`)

*State.* The record of each key's last read and the flag `answeredSinceTheLast`; the
next build and the session storage; the hold; the fingerprints that were sent.

*Operations.* A cause forgets the records; a mutation or a server event grants a read;
`admit` lets a read start or throws; `build.json` is checked and the next navigation
reloads; a missing chunk reloads once; a `Retry-After` holds every request.

*Hard.* Answers come in any order and after a cause, a retry, a page or a poll is
none; a host names one build and serves another.

*Right when* nothing reads, reloads or sends over and over by itself, and yet no read
with a cause is refused and a deployed build is followed.

### Components without a module

`frontend/src/components`, `router.tsx` and `mocks` (views and test doubles: what they
ask for is any step of `Reads` and `Builds`), `copier.yml`, `devtools` and the gates
(scripts that run once, on files).

### How they interact

A web request passes the order log, admission and request events (middleware of
`main.py`), runs its route on a tenant-scoped transaction of the pool, and may
`ask` for a job in the same transaction. The COMMIT notifies each worker; a slot
claims the job and runs its handler through the same `scoped`, which the fence now
guards. The schema check gates both kinds of process; the release step runs
beside them. A refused connection (`DatabaseBusy`) becomes a 503 for a request and
a deferral for a job; the 503 becomes a hold in the tab, which its reads and
mutations run into.

## 2. Modules

| module | models | state and actions |
|---|---|---|
| `JobBoard` | what durable work promises, with no database | `status`, `attempt`, `author`; Ask, Hand, Write, End |
| `Jobs` | `pg_jobs.py`, `jobs.py`, the fence of `pg.py`, the attempts of `worker.py` | `claims` and `jobs` are the tables, `slot` what a worker's attempt knows and is in, `txn` its transaction (closed, open, fenced), `orphans` the sessions of crashed slots whose COMMIT may come; one action per transaction step: Begin, Hold or Lost, then the commit (CommitAsked, CommitHandler, CommitEnding) or Rollback; Claim, Ask, Renew and RenewLost, HandlerEnds, Crash, Busy, Tick |
| `JobsProofs` | | the inductive invariant and the refinement |
| `WorkerWake` | the slots of `worker.py` from await to await | `rows` what the two queries read, `slot`, `wake` the Event, `woken` the waiters it resumes, `notices` what LISTEN has to deliver; Look, ClaimFinds(None), Claimed, NextClaimWithin, Wait, Hear, Listen, WakesLost, Start, Stop, Tick |
| `WorkerWakeProofs` | | types, how far a slot sleeps past the end of a lease at most, and that no wake is lost |
| `ActorBounds` | what admission promises an actor | `level`, `serving`, `open` |
| `Admission` | `admission.py` | `accounts`, `sweptAt`, `request` with the places a request holds; Admit, Stream, Answer, End, Tick |
| `AdmissionProofs` | | the inductive invariant, and the refinement |
| `Migrate` | `store/migrate.py` and `check` | `applied` the ledger, `executed` the schema, `lock`, `migrator`, `process`; Apply, Lock, Execute, Record, Withhold, Unlock, Killed, Start, Probe, Stop |
| `Rights` | `store/roles.py`, with the release step of `Migrate`, which it extends | `ledger`, `events`, `columns`, `inserts` what the application role may do to the two tables, `provisioned` the roles, `member` and `owner` who a migrator connects as; the steps of `Migrate` with their grants, and Provision (`roles.sql`) |
| `MigrateProofs` | | the inductive invariants of `Migrate` and `Rights`, and that `Rights` implements `Migrate` |
| `SharedWork` | `waits.py`, `_stop` of `lifespan.py` | `runs` and `started` the two tables, `run` each task, `awaits` the shields, `answer` how calls ended, `stop`, `before` what cancel_beside could know of, `outlived` what its error names; Start, Join, StartBeside, Leave, End, Tell (the done callbacks), CancelBeside, and two ends that both close the database: Close, Outlive |
| `SharedWorkProofs` | | the inductive invariant and its consequences |
| `Requests` | the middlewares, the tenant routes, `scoped` and `connection` of `pg.py`, the policy and the trigger of `ddl.py` | `enforced` the policy, `req` each request, `conn` each connection, `tasks`, `audit`; Arrive, Open, Refuse, Resolve, Take, Busy, Commit, Rollback, Release, Cancel, and Return (a release that outlives its request) |
| `RequestsProofs` | | two inductive invariants: who a connection is lent to, and what is recorded of a request |
| `Deployment` | `wiring.py`, `environment.py`, `budget.py`, the pool of `pg.py`, `lifespan.py`, the life of `worker.py` | `said`, `server`, `proc`, `pool`, `opening` (the lock), `asks`, `probes`, `hears`, `outside`; Start, Exit, Ask, Enter, Budgeted, Create, Fail, Resize, Serve, FailCheck, Listen, Stop, Close, Others |
| `MemoryJobs` | the jobs of `memory.py` | `status`, `attempt`, `task`, `toEnd`, `closing`; Ask, Begin, Write, Succeed, Fail, Defer, TryAgain, Close, Cancelled, Closed |
| `LoopWatch` | `loop_watch.py` | `due`, `seen`, the two threads; Overdue, Ticked, Report, Exit, ReadDue, Look, Find, Keep |
| `Pages` | `list` of `pg.py` and `memory.py` | `seq`, `number`, `row`, the reader's `walk`, `after`, `shown`; Insert, Finish, Delete, Start, Find, Read |
| `Reads` | `query-client.ts`, and what it uses of TanStack Query | `reads`, `answeredSinceTheLast`, `query`, `stray`, `mutation`; Ask, Act, Regain, ServerEvent, Mutate, Settle, Tick, the five outcomes of `admit`, Retry, End, EndStray, EndElsewhere |
| `Builds` | `build.ts`, `missing-chunk.ts`, `main.tsx` | `names` and `serves` (the host), `running`, `next`, `notLoaded`, `checks`, `intoBuild` and `chunks` (the session); Deploy, Serve, Navigate, Focus, Answer, Fail, MissingChunk, Reload, Person |
| `Holds` | `api/client.ts`, `client-events.ts` | `hold`, `away`, `reporting`, `sent`; Send, Refuse, Answered, Fails, Refused, Reported, Tick |
| `ProcessProofs` | | what the four parts of `MCProcess` (`Deployment`, `MemoryJobs`, `LoopWatch`, `Pages`) keep |
| `TabProofs` | | what `Reads` and `Holds` keep |
| `MC...` | | the constants of the runs; `MCTab` and `MCProcess` hold parts that share no state |

`Jobs` and `WorkerWake` look at the same tables from two sides. `Jobs` has each
transaction of an attempt and lets any slot claim at any time; `WorkerWake` has
when a slot looks, and takes an attempt for one thing that renews, holds the row
and ends. `Jobs` is checked to implement `JobBoard`, and `Admission` to implement
`ActorBounds`, by refinement mappings (`IsJobBoard`, `IsActorBounds`); `MemoryJobs`
implements `JobBoard` too. `Requests` composes admission's places, the pool and the
events of one process; `Deployment` composes the processes.

`MCTab` and `MCProcess` explore several modules in one run. A variable `part`, set in
the initial state, says which one moves; the others stay at their initial state. The
parts have no variable in common, so a property of one is checked over exactly its
own behaviours, and the state space is the sum of theirs, not the product.

### Abstractions

* Times are ticks that count down. In `Jobs` `Lag` lets a statement's `now()` be
  older than the present by less than a lease: `now()` is the start of a
  transaction. In `Admission` a tick gives back one of the `Cost` units of a
  request; the rounding of floats is left out.
* `Late` of `WorkerWake` is how long a transaction may go on after its `now()`, which a
  claim, a renewal, `ask` and `again` count from, and how long a slot takes from the
  answer of `next_claim_within` to its wait: the release of the connection and the
  network lie in between. A row that is left ready may be due by up to as much
  less at the commit. A NOTIFY goes out with its commit.
* Tokens are UUIDs in the code; `Jobs` numbers them, which makes new ones
  different from all before, and gives the refinement its attempts.
* A handler is a series of fenced transactions that commit or roll back, and an
  end of four kinds. What it writes is recorded as who wrote last.
* The filter on kinds, the tenant check of the fence, and ORDER BY ready_at are
  left out; any claimable row may be claimed next. A handler has one transaction
  open at a time.
* A release's entries are keys. What an entry does is left out, but that it makes the
  ledger or `audit_events`, or adds a column to it: `Rights` keeps these two tables,
  since no write is withheld of any other. The first entry makes the
  schema, and the ledger is made with it; `roles.sql` is one transaction, and one step.
* `ReadyIsAttended` asks for one worker that looks after a ready job, not for each to:
  a worker that makes a job ready again may claim another whose lease ended unseen
  (see findings), and wakes no slot but its own.
* In `SharedWork` the end of a task and its done callbacks are two steps, as they are
  two turns of the loop, and the callbacks of one task are one step. A run that was told
  to cancel may start and join others, and so may a request or other work at any time,
  after the stop read the tasks and after the database closed too. Where a run catches
  its cancel is not told apart from one that ends late. The pairs of keys that runs may
  join (`Nested`) are a constant without cycles in the run: the code refuses only a run
  that joins its own key, so two runs that join each other would wait until the stop.
* Admission is one event loop and has no await inside `admit`: each call is one
  step. The policy that reports (`ADMISSION_MODE=evaluate`) is `enforced = FALSE`, chosen
  in the initial state from `Policies`; `Requests` has the same choice, and a request
  that is over its bound is then served with no place.
* In `Requests` a step is what a task does between two waits; a statement and its
  COMMIT are one step, and the connection comes back in the next. A COMMIT whose
  answer is lost is a commit that raises. Routes are five: one that creates, one
  that removes (an update differs in nothing the properties see), one that lists,
  and the two public ones. The body of a row is left out, and its event is the
  trigger's, one for a statement. A request is over when its response starts: what it
  streams after that holds no connection. asyncpg (external) shields a release, so a
  request cancelled there ends, and the release is done by itself (`Return`).
* In `Deployment` a setting is what it makes the code do: set, not set, or refused.
  The pool is a number of connections. The platform keeps no more processes up than
  `DATABASE_INSTANCES` says, which is what that setting means.
* In `MemoryJobs` an attempt's handler writes at any of its turns.
* `LoopWatch` names a tick by its number, since no two fall due at one time, and a
  place of the loop by the tick it precedes and whether that tick is overdue.
* `Pages` gives a row its number in its transaction and lets it commit later or never.
  Because numbers are given before COMMIT, an event that commits late is below a page
  already read: a reader of audit events does not meet it, and the property asks only
  for rows that were there when the walk began.
* In `Reads` the keys are those that matter to each other, which is only through
  `answeredSinceTheLast`, and `EndElsewhere` is any other key that answers. The
  fetches of TanStack Query are external: a fetch is shared, may be cancelled by a
  caller once there is data, and its read runs on. Two corners are modelled as they
  are and not asked more of: a read cancelled under a poll shares its record with
  the poll, and a server event that joins a refused retry of a key with no data
  leaves its grant unread.
* In `Builds` what a host names (`build.json`) and what it serves (`index.html`) change
  each by itself, and a preload of a chunk may fail whichever build the host serves.
* `Holds` has the longest wait that any answer asked for as a history variable.

## 3. Runs

| run | checks | instance |
|---|---|---|
| `jobs` | FenceHolds, TablesAgree, HandlerStartsAreBounded, IsJobBoard, EveryJobEnds | two slots, one job, two attempts, one deferral, three mishaps, fair |
| `jobs_busy` | DeadWasTried | **violated**: see findings |
| `wake` | NoSleepFarPastALease, ReadyIsAttended, EveryJobIsFound | two workers of one slot, one job, restarts, lost LISTEN, a lease as long as the sweep, delays of up to one tick |
| `wake_lease` | EndedLeaseIsSeen | **violated**: see findings |
| `admission` | PlacesMatch, RateHolds, RetryFits, IsActorBounds | two actors, two requests, every limit 1, a policy that enforces and one that reports |
| `migrate` | OneApplies, ServesOnItsSchema, NoGaps, FinishedCanRecord, WithheldForGood, EveryStepEnds | two migrators of two releases with five keys, two kills, one process, `roles.sql` at any time |
| `migrate_race` | OlderNeverOverNewer | **violated**: see findings |
| `rights_forge` | ServingCannotForge | **violated**: see findings |
| `shared_work` | OneRunPerKey, AwaitsWhatWillTell, OnlyTheStopCancels, ClosedNamesWhatRuns, EveryCallEnds | two callers, two keys, a run for one joins the other, work beside them, three runs in all, the stop |
| `requests` | TenantsAreApart, EventsNameWhoActed, RecordedBeforeItLeaves, ActorsShareThePool, EveryRequestEnds | two requests of two tenants and actors on two connections, one place for each actor, a policy that enforces and one that reports, the routes but `health` |
| `tab` | ReadsNeedCauses, CausedFetchesRead, RefusedWithItsOwnFailure | one key of an infinite query, polled or not, two mutations, two retries, two grants, one read that runs on |
| | ReloadsNeedDeploys, TheBuildIsFollowed | three builds, two checks on their way |
| | HeldSendsNothing | two calls, three client events of which two fit a page, waits of 0, 1 and 3, five ticks |
| `process` | ConnectionsFit, NoPoolIsLeaked | two web processes and a worker, two tasks, twenty environments, two servers |
| | AskedJobsEnd, IsJobBoard | two jobs in memory, two attempts, deferrals without bound |
| | FramesAreOfTheHold | four ticks |
| | WalksAreComplete | four rows, pages of two, both orders |

Type invariants and inductive invariants of the modules that are proved about are
theorems, and not run: a run spends its states on what the system promises.

Why the bounds are enough:

* *Jobs.* The properties are about one job; jobs share nothing but slots, and the
  proofs of the safety properties take any number. Two slots
  are enough for one that lost its lease and one that claimed after it, and the first
  of them claims the third time; safety and `IsJobBoard` are theorems for any number
  of slots, so that the run spends its states on liveness. Two attempts and a third
  claim reach `AttemptsSpent`; three mishaps let an attempt lapse, crash with a COMMIT
  on its way and meet a refused connection in one behaviour.
* *WorkerWake.* That no wake is lost and that no slot sleeps far past a lease are theorems
  for any workers, slots, jobs and delays; the run is for `EveryJobIsFound`, and two
  workers are needed for one to crash while the other one sleeps. Lease and sweep are
  equal, as in the code, and three ticks leave room for a claim and an answer that are
  one tick late each. Each worker has one slot: that several slots may share one
  Event is in the theorem `NoWakeIsLost` only. `wake_lease` needs no delay.
* *Admission.* Limits of one make every bound bite; five ticks are more than two
  refills of a burst, so that an account is dropped, made again and emptied.
* *Migrate.* The older release has keys 1, 2 and 4, the newer one 3 between
  them and 5 above, which adds a column. Two kills leave two migrators unfinished.
* *SharedWork.* Two callers share a run, or one comes when the other's run has ended;
  three runs are a run, the one it joins, and one that is started after, also after
  the stop.
* *Requests.* Two requests are one that had a connection and one that is lent it next, of
  the same principal (who must fit one place) or of two in two tenants; the proofs
  take any number of both. `health` takes no connection and no principal, and
  meets nothing of the others.
* *Reads.* What two keys have in common is `answeredSinceTheLast`, which `EndElsewhere`
  sets at any time. Two retries are one that is admitted and one that is refused.
* *Builds.* Three builds are the one that runs, one that did not load, and a third.
* *Holds.* A short wait that comes after a long one, and one that is longer.
* *Deployment.* Three processes under two instances are a rollout with one revision
  that drains. One server leaves a share, the other is over budget. Each environment
  differs from one that starts by one setting.
* *LoopWatch.* A look that began in one tick and ends two later; the proof takes any.
* *Pages.* Four rows are two pages, and three when one is removed and the walk goes on.

`MaxMishaps`, `MaxDefers`, `MaxRuns`, `MaxKills`, `MaxTime`, `MaxGranted`, `MaxStray`,
`MaxChecks`, `MaxPage`, `MaxTicks`, `Late` and the sets are the only bounds; each is a
conjunct of a guard, named in its module. The deadlock check is off in four runs, where
behaviours do end: `admission` and `tab` at the end of the clock, `requests` when
every request ended, `process` when the ticks, the rows or the jobs are used up.

### Findings

* **A lease that ends between two queries** (`wake_lease`). `worker.py:7` says a
  slot that finds no job waits until a lease ends. The claim looks at leases that
  ended before it, `next_claim_within` (`store/pg_jobs.py:49`) at those that end
  after it, and one that ends in between is seen by neither: the slot sleeps a
  sweep with the job claimable. `EveryJobIsFound` holds all the same, by the sweep.
* **Two releases can race** (`migrate_race`). `apply` looks for unknown keys before
  it waits for the lock (`store/migrate.py:148`), not after. An older release step
  can execute its entries over those of a newer one. The ledger stays right.
* **A serving role can write the ledger** (`rights_forge`). `store/roles.py:10-11` says
  that the role that verifies the schema cannot forge its own answer. The ledger is
  made with every write granted (lines 145-146), and the writes are withheld after the
  last key is recorded (`store/migrate.py:212-216`), by statements that commit by
  themselves. A migrator killed in between leaves a database that `check` accepts and
  a process serves on, with a role that may write the ledger until the next release
  step or `roles.sql`. That a step that ended leaves no such role is a theorem.
* **Attempts that got no connection count** (`jobs_busy`). When `asked()` is refused
  a connection, the attempt is not deferred (`worker.py:109`, caught at 91), so that
  `MAX_ATTEMPTS` refusals end a job dead that never ran. ADR 0027 says an attempt
  that gets no connection does not count; it describes the deferral of a handler.

More that no run checks:

* `waits.py:160` says that a call after the run ends starts another run. The table keeps
  the ended run until its done callback, one turn of the loop later, and a call in that
  turn joins it (`Join` has it so).
* `cancel_beside` (`waits.py:184`) says that it cancels each task that still runs and
  waits until every one has ended. It reads the tasks once: one that is started after
  that, by a run that was told to cancel too, is neither cancelled nor waited for nor
  named, and may run on when the database is closed. `ClosedNamesWhatRuns` says that
  there is no other such task.
* ADR 0025 says that a tab reloads into a build once, and does not reload into it again
  when it starts and runs another. The session remembers only the last build, so a
  host whose `build.json` goes back and forth between two builds it does not serve
  makes the tab reload each time. `ReloadsNeedDeploys` is what holds: no reload goes
  on without deploys.

## 4. Fairness

* *Jobs.* `HandlerEnds` and `Claim` are strongly fair: a handler is assumed
  to return unless its slot crashes, which is bounded; a row that is claimable again
  and again, between the transactions that hold it, is claimed, since slots look
  at least once a sweep (that they do is `EveryJobIsFound`). A slot whose step is
  enabled takes it: it is a task of a running event loop. Postgres rolls back the
  open transaction of a dead session (`idle_in_transaction_session_timeout` and
  keepalives, `Timeouts`), and time passes. `Ask`, `Renew`, `Busy`, `Lost` of the
  renewer and `Crash` are not fair.
* *WorkerWake.* Each slot that can move does; the platform restarts a worker that
  stopped; LISTEN is issued; a lock on a row is let go; time passes. Strong
  fairness of `Look` and `ClaimFinds` says that workers do not for ever stop just
  before a slot looks, and that a claim takes the job that is due longest, which is
  the code's ORDER BY ready_at.
* *Migrate.* Postgres gives the lock to a session that waits for it (strong: others
  may take it first), and the holder goes on unless it is killed. `Rights` runs under
  the same fairness; that an operator applies `roles.sql` is not fair.
* *SharedWork.* A run ends, since each wait in it is bounded (`waiting`), and the loop
  runs the callbacks of a task that ended. Calls, cancels and the stop are not fair.
* *Requests.* A request that can go on does: a task of a running loop whose every wait
  has a bound (`Timeouts`, `command_timeout`), with `Busy` the end of a wait for a
  connection. A release that goes on by itself is done (`Return`). Whether a request
  comes or is cancelled is not fair.
* *MemoryJobs.* The loop gives each task its turn. `Finishes` is strongly fair: a handler
  is not refused a connection each time it is tried. The code bounds no deferrals, so
  this is an assumption on the handler; in memory `DatabaseBusy` is raised by what the
  project adds, since the substrate itself holds no connection.
* *Builds.* The person goes on to navigate, the browser reloads, and a check does not
  fail for ever. `ReloadsNeedDeploys`, and `ReadsNeedCauses` of `Reads`, need none of it:
  they are about what goes on and on.

## 5. Proofs

All proofs are for every value of the constants that the named ASSUMEs allow.

* `JobsAssumption` asks for at least one attempt, a lease of at least one tick, and
  a statement clock that lags by less than a lease; `MishapsAssumption` only names
  the kinds of mishaps.
* `JobsProofs`. `Inductive` proves `Spec => []IInv`, with one lemma per action.
  `FenceHolds` alone is not inductive: that a fenced attempt is the current one
  follows from tokens that were issued to one attempt each (`TokensDiffer`), rows
  that carry a token exactly while running and always the last one issued
  (`RowsWhole`), and attempts whose number agrees with the row (`AttemptsAgree`),
  which also decides which of `again` and `dead` may be in a transaction.
  `StartsCounted` carries the bound on handler starts through the window in which
  an attempt was claimed but its `asked` has not committed. `TypeCorrect`,
  `FenceIsKept`, `TablesStayInStep`, `StartsAreBounded` and `NoEarlyDeath` follow
  from it. `Refinement` proves `Spec => IsJobBoard`: every commit of a fenced
  transaction is a Write or an End of the attempt handed the job last
  (`FencedWrites`), a claim is a Hand, everything else is a stutter.
* `WorkerWakeProofs`. `SleepsEndInTime` proves `NoSleepFarPastALease`, which is inductive
  with `TypeOK`: a claim or a renewal leaves a lease no shorter than `Lease - Late`,
  and so than any sleep less `Late`, because `Sweep <= Lease` (`WakeAssumption`). Times
  count down together but for those of a slot between its answer and its wait, and
  what passes there counts as `late`. Both delays are in the bound since both do occur.
  Nothing in the code ties the sweep to the lease; both are 30 seconds. `NoWakeIsLost` proves
  `ReadyIsAttended` by `AttendInv`: for each ready job there is a worker none of whose
  slots rests, or with a slot that will claim or whose wait ends in time, or with a
  notice on its way (`ReadyHasWorker`). It asks this of a slot about to wait too, which
  may be as late with its wait as it took to begin it (`InTime`). Which worker
  that is may change with each step, so the worker is chosen inside the invariant.
* `AdmissionProofs`. `AInv` adds to the properties that a request that is there has an
  actor and was told to wait only if it was refused (`Shape`), that a place it holds is
  one of the account its actor has now (`HeldHere`), that no account was read after now
  (`ReadBefore`), and that the wait a refused request was told covers what its actor
  lacks, unless another was admitted since (`WaitsFor`). A refused stream is told the
  same. Then a swept account is at its full level with no place out, so that it is not
  to be told from a new one: `PlacesAreCounted`, `RateIsHeld` and `RetryComesTrue`
  follow, and `AccountsImplementBounds`, the refinement of `ActorBounds`, step by step.
  `AdmissionAssumption` asks for limits of at least one; `NoAccountAssumption` that no
  account is the mark of none.
* `MigrateProofs`. `MInv` adds to the properties that a migrator at an entry has all
  entries of its release below it in the ledger, and has executed the one it is
  about to record (`InOrder`). Every step of a migrator is summed up in
  `MigratorStep`, and one lemma shows such a step preserves `MInv`.
  `RightsImplementMigrate` shows that each step of `Rights` is one of `Migrate` or a
  stutter, so that `MInv` holds of it. `RInv` adds that a migrator past its entries
  executed them (`ExecutedThem`), that `audit_events` has the columns of some release's
  CREATE and of each entry that was executed (`ColumnsGrow`), and what each statement of
  a migrator withheld (`WithheldSoFar`): `FinishedReleaseRecords` is what is left when
  it ended, and `RightsNeverReturn` that a table is granted its defaults once, when it
  is made.
  `RightsAssumption` says that each release has the entry that makes `audit_events`, not
  first, and reaches every column of every other release by an entry or the CREATE.
* `SharedWorkProofs`. `IInv` adds to the properties that the table names only runs in
  flight, each under its own key (`TableIsInFlight`), that `_STARTED` is exactly the
  runs in flight (`StartedIsInFlight`), and that the stop told every run that was
  started before it and still goes on, and waits for it (`StopTells`): whether
  `cancel_beside` returns or raises, a run that goes on when the database closes is one
  it named or one that was started after (`WhatRunsIsNamed`).
  `SharedWorkAssumption` asks nothing of `Nested` but its type: a cycle breaks only
  liveness.
* `RequestsProofs`. `IInv` adds to the types what a request holds by itself
  (`RequestsAreSound`: nobody before it is resolved, an event only of a principal), that
  a connection is lent to one request, with its tenant and its actor set, until that
  request gives it back or ended while it did (`LentToOne`), and that who wrote a row or
  is named by an event was resolved for good (`WritersAreKnown`). That the connection's
  settings are those of the request is what carries both theorems through a lend; that a
  connection keeps the actor of the one before it is harmless only because `Take` sets
  it each time. `RecordInv`, beside it, says of each request how its answer, its event
  and its place agree at every point of its way (`RequestsAreHonest`), and that
  admission counts no more than its places (`ServingFits`). Under a policy that is
  enforced a request on a connection that is not over has its place, and a connection
  has one request, so `PoolIsShared` compares two finite sets. The requests that are
  over are left out of it because the code gives their place back before their
  connection.
* `ProcessProofs`. *Deployment:* `NoPoolIsLeaked` needs that a task with the lock is
  alone and finds no pool (`OpenerIsAlone`), and `ShareIsKept` that a pool opened only
  under a budget (`PoolFits`). `ConnectionsAlwaysFit` adds that the platform keeps no
  more processes up than the deployment says (`UpFits`), and that a sum of shares over a
  finite set is at most their number times the largest. `DeploymentAssumption` asks for
  at least one connection beside the pool, which `TEMPLATE_IN_PROCESS` is, and for a
  finite set of processes. *LoopWatch:* what was seen for the tick that is expected was
  seen while it was overdue (`OfTheHold`); what was seen for an earlier one may not have
  been, and is not named. *MemoryJobs:* where a job's task is says what its row shows
  and how often it failed (`TasksAgree`), and the same mapping as that of `Jobs` shows
  that it implements `JobBoard`. That a job is dead only of as many failures as it has
  attempts (`DeadJobsFailedEachTime`) is a theorem and no run. *Pages:* each row that
  was there when the walk began is shown, or still to come after the cursor
  (`NoneIsPassed`); what was shown is in order (`ShownIsInOrder`) and ends at the cursor
  (`CursorIsLast`). `ProcessAssumption` asks for an attempt, a page of at least one row,
  and finitely many rows. Two facts need induction over data (a sum over the processes,
  and that a finite set of rows can be listed in order). They are proved by a smallest
  counterexample: `SmallestNumber`, from the order of the naturals, takes a set of
  numbers and no operator, which the provers can use.
* `TabProofs`. *Reads:* `ReadsInv` says that the record of a key tells how a read of its
  own cause ended, or lets one more start (`RecordIsOfTheCause`), which a read that its
  fetch left running must not break; and that a fetch with a cause is let through when
  it asks (`CauseIsKept`), through every retry. `RefusedWithItsOwnFailure` and
  `CausedFetchesRead` follow. *Holds:* the hold ends no sooner than the longest wait
  that was asked for, and one that was dropped was over (`HoldsInv`). `TabAssumption`:
  no wait is negative (`secondsUntil` of `api/client.ts`).

`TabProofs` and `ProcessProofs` extend the modules of their runs, so that the assumptions
they use are evaluated there. Each theorem is about the part it names, by that part's
own specification, for every value of its constants.

Every safety property of a passing run, invariant or action property, is a theorem.
Only model-checked are the liveness properties (`EveryJobEnds`, `EveryJobIsFound`,
`EveryStepEnds`, `EveryCallEnds`, `EveryRequestEnds`, `AskedJobsEnd`, `ReadsNeedCauses`,
`ReloadsNeedDeploys`, `TheBuildIsFollowed`): fairness and ENABLED are out of this
prover's reach. What holds of `Builds` is of that kind, and it has no proofs.

## 6. Not modelled

* A second `stream()` of one request (`admission.py`): no route of the template streams.
* What an entry of a release does, and the rights on tables other than the ledger and
  `audit_events`.
* The reset of a connection by asyncpg, beyond that it may or may not lose the settings.
* Filters of a list: the shipped resource has none.
* The period of `query-client.ts`, which decides whether a mounted query is stale: `Ask`
  comes for any reason.
* The reading of an HTTP date and of an error's body; formatting and logs; the
  instruments of telemetry, which keep nothing the program reads; the bundle that
  `serve.py` puts on the origin; views, mocks and generated components; the Copier
  machinery and the gate scripts, which keep no state between steps.

What could be proved next: the types of `Builds` and that a session reloads into one build
once in a row; that `Requests` keeps the promise of `ActorBounds` through its places; and
a theorem over `part` that carries the theorems of the parts to the specifications of
`MCTab` and `MCProcess`.

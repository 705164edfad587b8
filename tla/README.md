# A TLA+ model of Shellter

Shellter rents containers: a user asks for a distribution and a duration, the controller
places a container on one of several worker hosts, and the user gets an ssh address until the
rental expires, is extended or is stopped.  The controller is a Flask application
(`src/app`) with two background processes; the hosts run a small agent in front of Docker.
All of them meet in one PostgreSQL database, without locks of their own.  Most of what can go
wrong is in the gaps between a query, a call to an agent and a commit, and these gaps are what
the modules here are about.

## 1. Inventory

| Part | Code | State | Operations |
|---|---|---|---|
| database rows | `app/models.py` | `workers`, `instances`, `rentals`, `users`, `distributions` | status columns with CHECK constraints |
| resource manager | `app/resource_manager.py` | none; reads rows | `select_worker`, `pick_free_ssh_port`, `worker_is_full` |
| rental API | `app/api.py` | session of the request | `rent`, `stop_instance`, `extend_instance`, `list_instances` |
| agent and client | `docker/agent/agent_real.py`, `app/agent_client.py` | containers of a host | create, delete, list; heartbeat loop |
| heartbeats | `app/workers.py` | `workers` | register or refresh a worker |
| expiration worker | `app/expiration_manager.py`, `scripts/expiration_worker.py` | list of the pass | `expire_due_rentals` for ever |
| recovery worker | `app/recovery.py`, `scripts/recovery_worker.py` | lists of the pass | `mark_stale_workers_offline`, `recover_instances` |
| start | `docker/start.py`, `scripts/seed.py` | session of the seed | schema, default distributions, accounts, workers of `REAL_WORKERS`, then gunicorn with two processes |
| catalogue | `app/admin.py` | `distributions`; session of the request | create, toggle |
| accounts | `app/auth.py` | `users`; session of the request, cookie | register, login, logout |
| dashboard | `app/dashboard.py` | none | which instances a user sees, with their ssh commands |
| monitoring | `app/monitoring.py` | none | counts for the administrator |
| schema | `migrations/*` | `alembic_version`, tables | one migration |
| configuration | `app/config.py`, `app/permissions.py`, `app/ssh_credentials.py`, `app/__init__.py` | none | |
| deployment | `ansible`, `nginx`, `docker-compose*.yml`, `.github` | none | restarts the processes |

`provisioner/*.py` and `app/routes.py` are empty files.

How they interact.  Browsers and agents call gunicorn (two synchronous processes, so two
requests at a time, heartbeats among them).  `rent` and `stop` call an agent over HTTP in the middle of their
transaction, with a timeout of `AGENT_TIMEOUT`; the expiration worker and the recovery worker
do the same from their own processes.  An agent posts a heartbeat every ten seconds.  All
other communication is by rows.

What is hard:

- *check, call, commit*: quota (`api.py:62`), capacity (`api.py:73`), port (`api.py:78`) are
  read from committed rows and used after a remote call;
- *loaded, then written*: SQLAlchemy keeps loaded values until the commit and writes the
  columns that differ from them: end of a rental (`api.py:193`), status of a worker
  (`api.py:163`, `expiration_manager.py:44`), status of an instance (`recovery.py:62-67`);
- *lists made once*: due rentals (`expiration_manager.py:14`), silent workers and their
  instances (`recovery.py:37`, `60`, `61`);
- *lost and late answers*: an agent may have done what it is said to have failed to do, or do it
  later, since it builds an image first and the caller gives up after `AGENT_TIMEOUT`;
- *shared processes*: heartbeats wait behind requests that wait for an agent, for longer
  (`AGENT_TIMEOUT`, 180 s) than a worker may be silent (`HEARTBEAT_TIMEOUT_SECONDS`, 60 s);
- *crashes*: gunicorn kills a slow request; Docker restarts the background processes, and the
  web container with everything that it was serving, while the rest goes on;
- *start*: `start.py` may fail anywhere and begins again, beside a `seed.py` run by hand and the
  requests of its own gunicorn; names are checked by a query and decided by a constraint, where
  there is one;
- *liveness*: a due rental must end, a silent worker be drained, a live worker come back, the
  web server serve again.

What makes the parts correct: a user's rentals and a worker's instances are bounded; active
instances have distinct ports; instance and rental end together and once; an extension is not
taken back; a rental ends when it is due and not before; "deleted" means that the container is
gone; an instance shows the address of its own container; a worker is BUSY or OFFLINE only
while there is a reason; the first request finds a complete seed;
accounts are unique, and the names of the seeds are nobody else's.

## 2. Modules

```
Database ── ResourceManager ─┐
    │       Gunicorn ────────┼── RentalApi ──┬── Leasing ── Expiration ──────────┐
    ├────── Agent ───────────┤               ├── Redeploy ─┐                     ├── Shellter
    │                        └── Recovery ───│─────────────┼── Failover ─────────┘
    └────── Heartbeat ───────────────────────┘─────────────┘

Gunicorn ──┬── Accounts ──┐                     Leasing ⇒ LeaseContract
           └── Catalog ───┴── Startup           Startup ⇒ Registry
```

- **Database** — the rows.  READ COMMITTED: the variables hold committed rows, and what a
  process has loaded or flushed is in the record of that process.  `inst[i]` and `rental[i]`
  are the rows of instance `i` (only `rent` inserts them, one of each), `seq` the id sequence,
  which a rollback does not turn back, `locked` the instances whose rows an uncommitted UPDATE
  holds, `now` the clock in half hours.
- **ResourceManager** — the three functions as operators over the rows a query sees.  What
  `_active_counts` counts is the set `ActiveOn`.  `select_worker` has no ORDER BY, so a tie is
  a choice; `pick_free_ssh_port` is a set of at most one port.
- **Agent** — `container[c]` is what Docker knows of the container with id `c`.  Creation
  removes the container of the same name (instance and port) first (`Cleared`), and fails on a
  port that another container holds.  `CreateError` and `DeleteError` are the `AgentError` of the
  client: the work may have been done or not, the old container may be gone and the new one
  not started, or the agent goes on (`CreateLate`) and comes to its end when nobody waits any
  more (`LateCreation`, a step of the agent's own).
- **RentalApi** — `req[r]` is the request that gunicorn process `r` serves.  One action per
  stretch between two points where another process can slip in (table below).
- **Expiration**, **Recovery** — the two background processes, `exp` and `rec`, a pass at a
  time.
- **Heartbeat** — `hb[w]` is the status that the handler of `w`'s heartbeat has loaded;
  `GoStale` is the time-out that makes a heartbeat old.
- **Redeploy** — gunicorn's processes (`WebProcesses`) serve requests and heartbeats alike
  (`ServeRequest`, `ServeHeartbeat`), and while all of them wait for an agent (`Occupied`) every
  worker may fall silent (`Unheard`).  The web container stops and starts beside the running background workers:
  requests and heartbeats are cut off, none is answered until it serves again, and `start.py`
  makes the workers of `REAL_WORKERS` AVAILABLE by what it has loaded of them.
- **Gunicorn** — the requests that are served at a time, `Requests`, shared by all the modules
  with handlers.
- **Leasing** = RentalApi + Expiration + clock.  **Failover** = RentalApi + Recovery +
  Heartbeat + Redeploy.  **Shellter** = all.
- **Accounts** — the users table, its two unique constraints (`Clash`) and `register`.
- **Catalog** — the distributions, by name and order of insertion, since a name is not unique
  for the database; `create_distribution` and `toggle_distribution`.
- **Startup** — Accounts and Catalog under `start.py` and `seed.py`, from an empty database to a
  serving gunicorn and back.  It shares no table with the rentals but `users` and
  `distributions`, of which a rental needs one row each that is never removed, so it is a
  specification of its own.
- **Registry** — the abstract specification of the accounts: distinct names and addresses, never
  removed.  `Startup!ImplementsRegistry` is the refinement.
- **LeaseContract** — the abstract specification: leases are granted within a limit, refused
  or ended, and never come back.  `Leasing!ImplementsContract` is the refinement: a lease is
  `active` while its rental is ACTIVE and `over` when it is EXPIRED or CANCELLED.
- **MC\*** — instances for TLC.  **\*Proofs** — the theorems (section 5), one module on top of the
  other: Counting, RentalApiProofs (with AgentProofs), LeasingProofs, ContainerProofs,
  ShellterProofs; StartupProofs on its own.

| Code | Actions |
|---|---|
| `rent` 42-70, 72-76, 78-105 | `RentAdmit`, `RentChoose`, `RentFlush` |
| `rent` 107-127 | `RentCreate`, `RentCount`, `RentCommit`; `RentFail` |
| `stop_instance` | `StopLoad`, `StopCall`, `StopFlush`, `StopCommit` |
| `extend_instance` | `ExtendLoad`, `ExtendCommit` |
| `dashboard` (the instances of a user) | `Dashboard`, in `ActiveRentalHasInstance` |
| gunicorn kill, aborted transaction | `RequestDies` |
| `create_container` of the agent after `AGENT_TIMEOUT` | `CreateLate`, `LateCreation` |
| `expire_due_rentals` | `ExpScan`, `ExpLoad`, `ExpCall`, `ExpCommit`, `ExpDone`; `ExpCallError`, `ExpRollback`, `ExpCrash` |
| `mark_stale_workers_offline` | `MarkScan`, `MarkCommit` |
| `recover_instances` | `RecList`, `RecOpen`, `RecCheck`, `RecMark`, `RecPlace`, `RecCreate`, `RecCommit`, `RecDone`; `RecFail`, `RecCrash` |
| `heartbeat` | `HbLoad`, `HbCommit`; `GoStale`, `Unheard` when none comes |
| `start.py`, the workers; stop of the container | `BootLoad`, `BootCommit`, `BootFail`; `WebStops` (Redeploy) |
| `start.py`, `seed.py`: schema, catalogue, accounts | `StartSchema`, `StartDistros`, `StartAccounts`, `StartCommit`; `StartRefused`, `StartFail`, `WebStops` (Startup) |
| `register` | `RegCheck`, `RegCommit`; `RegFail` |
| `create_distribution`, `toggle_distribution` | `CreateCheck`, `CreateCommit`, `ToggleLoad`, `ToggleCommit`; `AdminDies` |

Choices worth knowing:

- *Atomicity.*  A commit is one step.  Two queries with no call between them are two steps
  when another commit in between matters (quota and worker), one when it does not
  (`pick_free_ssh_port` and the flush: the flush writes nothing others can see).  Loading an
  instance, its rental and its worker is one step.
- *Columns.*  An update writes the columns that differ from what was loaded, and only those:
  `Stopped`, `Cancelled`, `ExtendCommit`, `RecMark` say so.  `OwnInstance` and `Moved` write
  the columns the code assigns; a move writes worker, port, container and status.
- *Locks.*  Only `stop` flushes updates before its commit (the query of `worker_is_full`), so
  only `StopFlush` takes `locked`, one lock for the rows of an instance.  A stop that has
  nothing to write takes it too, which delays others and changes no row.
- *Lists.*  `recover_instances` reads the statuses of a worker's instances in one query and
  again after each commit.  `RecCheck` reads one status at a time; a status that was read
  earlier is a `RecCheck` that was taken earlier, and what happens before `RecMark` is seen
  by neither.
- *Heartbeats.*  An agent waits for one answer before the next heartbeat.  Of an agent that
  never falls silent by itself (`Workers \ Flaky`) only the heartbeats that change its row are
  steps.
- *Redeployment.*  `BootLoad` and `BootCommit` are the query and the commit; the status is
  written for the workers whose loaded status differed, `last_heartbeat` for all.  `Seeded` is
  the list of `REAL_WORKERS` (`start.py:75`); `docker-compose.vm.yml` no longer sets it, and all
  workers then come by heartbeats.  The instances with recovery have one worker of each kind,
  but for `fail_ended`.
- *Late creations.*  A creation that the caller has given up (`AgentError`), or that was under way
  when the caller was killed, may end at any later time, or never.  A stop of the web server in
  the middle of one is a `RequestDies` just before it.
- *Restarts of the background workers* are `ExpCrash` and `RecCrash`; their containers do not
  stop with the web container.
- *Schema.*  What counts of it is whether tables are there and whether they carry a revision:
  `upgrade()` fails on tables that `create_all()` has made.
- *Left out.*  Passwords, images, messages and the listing of instances; NULL
  `max_instances`, which no code path writes for a worker that comes from `start.py` or an
  agent; that `rent` refuses a disabled distribution, which filters its input.

Properties and their mutants: each checked property has a mutated operator beside the one it
stands for (marked "Mutant" in the modules), which is not used by the specification and which
makes the property fail.

## 3. Runs

| Run | Instance | States | Shows |
|---|---|---|---|
| `lease_due` | 2 processes, 1 worker, 2 ids, clock 0..1, fair | 337 k | `DueRentalsEnd` |
| `lease_two` | 2 processes, 2 users, 2 ids, quota 1, clock 0..1 | 2.4 M | `QuotaClaims`, `CapacityClaims`: the races exceed the limits by one per further process, not more, what is under way included; `LeaseTypeOK`, `LeaseConsistent`, `DeletedMeansGone`, `ImplementsContract` |
| `fail_live` | 2 workers, one flaky, one web process, the web server stops once, fair, no crash of recovery | 225 k | `FailedWorkerDrained`, `WorkerRevives` |
| `shellter_safety` | everything; 2 workers, 1 id, the web server stops once | 4.0 M | `TypeOK`, `RecoveryTargetOnline`, `EndpointGenuine`, `ActiveRentalHasInstance` |
| `startup` | 2 processes, both starters, 3 names, 3 addresses, 2 distributions, fair | 94 k | `ReadyWhenServing`, `NamesBounded`, `ImplementsRegistry`, `WebComesBack` |
| `api_quota`, `lease_ports`, `lease_early`, `lease_extend`, `lease_stranded`, `fail_ended`, `fail_resume` | smallest that shows it | | the findings of section 6 |

*Bounds.*  Two processes are what `start.py` starts.  Two ids are enough for two rows to
disagree; `MaxContainers` is the number of creations that succeed or are late, so a rent and a
recovery need two.  Ports are as many as instances, or one more, so that a port is given again
after a stop.
Durations of one and two with a clock to two let a rental become due before and after an
extension.  One instance is enough in `shellter_safety`, since its properties speak of one
instance at a time and the processes meet on the same row.
Three names are the two reserved ones
and a visitor's; the third address is the one of `seed.py`'s demo.  `MaxCopies` leaves room for
one row of a name more than `NamesBounded` allows.  `MaxId`, `MaxContainers`, `MaxNow`,
`MaxEnd`, `MaxStops` and `MaxCopies` are the only bounds that the code does not have; each is a
guard.

*Stops and silence.*  One stop of the web server is enough to cut every handler off once and to
let all workers fall silent; more stops begin again from rows that one stop can leave.  In
`shellter_safety` `Flaky` is empty, since during the stop every worker may fall silent anyway:
the workers then come back by heartbeat or by `start.py`.  `fail_resume` has no stop and one
flaky worker, so that the silence is the worker's own.

*`fail_live`* has one process where the deployment has two, so that one rent or stop that waits
for an agent occupies all of them, as two do in the deployment; a second request would be the same
silence in more states.  It has one container, the rent's: a recovery of the run chooses, asks the
agent and fails.  What follows a move that succeeds is not in this run but in `shellter_safety`
and `fail_ended`; for the two properties an instance that was moved is an instance on a worker,
as one that was rented there.  `FailedWorkerDrained` says that the instance is looked at, by then
marked recovering, moved or in error, not that the move succeeds.

*What the small instances leave to say.*  `DeletedMeansGone` and `LeaseConsistent` are checked
without recovery, and fail with it (section 6).

*Deadlock* is checked in every run: some process can always take a step.

*Symmetry* is used where the properties name no process and no user, and are invariants, action
properties or a refinement, never with liveness (`lease_two`: users and processes;
`lease_ports`, `lease_extend`, `lease_stranded`: processes).

## 4. Fairness

- The background processes loop with a fixed sleep and are restarted by Docker
  (`restart: unless-stopped`): weak fairness of the steps that are theirs alone.
- An agent that is called again and again answers at last, a commit that is tried again and
  again is not refused for ever, and a pass begun again and again gets to its first rental:
  strong fairness of `ExpLoad`, `ExpCall`, `ExpCommit`, since an error, a rollback or a crash
  may come between any number of times.
- PostgreSQL queues those who wait for a row: strong fairness of the recovery worker's steps,
  and of the commit of a stop, against a stream of requests for the same row.
- gunicorn's timeout ends a request: weak fairness of `StopCommit \/ RequestDies`.
- `start.py` is restarted until it does not fail (`restart: unless-stopped`): strong fairness of
  its steps in Startup, and of `BootCommit` in Redeploy, since each may fail any number of times.
- Agents that are not flaky keep sending heartbeats, which wait for a process like every request;
  gunicorn gives each a process at last, and a web server that stops again and again does not cut
  each of them off: strong fairness of `HbLoad`.  A handler that has begun ends: strong fairness
  of `HbCommit` of every worker.
- No fairness for the agents' late creations: they may never come.
- No user has to rent, stop, extend or register, nobody to run `seed.py`, no worker to fall
  silent, no server to stop: no fairness for these.
- `FailedWorkerDrained` assumes that the recovery worker does not crash; otherwise it fails
  (section 6).

## 5. Proofs

tlapm proves, for all values of the constants (with the assumptions named in `Database`,
`Gunicorn`, `Heartbeat`, `Redeploy`, `Catalog` and `Startup`: finite sets of workers and
processes, natural numbers, at least one process, ports that begin at one or more, seeds among
the accounts and distributions that there are):

**The rental API alone** (RentalApiProofs).

- `ApiBounds`: `QuotaClaims`, `QuotaBound`, `CapacityClaims`, `CapacityBound`.  `QuotaBound`, the
  rows alone, is not inductive: a rent that has passed its check adds a row later.
  `QuotaClaims`, which `lease_two` checks, is: it counts these rents with the rows,

      RentalClaims(u) = |ActiveRentals(u)| + |Renting(u)| <= Quota - 1 + |Requests|

  `RentAdmit` finds at most `Quota - 1` rentals and at most `|Requests|` claims can exist,
  itself included; `RentCommit` turns a claim into a rental (`SumMoves`); every other step only
  removes (`SumShrinks`).  `ApiStepRentals` and `ApiStepPlaces` sort the steps into these three
  kinds.

**Requests and expiration** (LeasingProofs, ContainerProofs).

- `LeaseTypes`, `LeaseBounds`: the types, and both claims, which the expiration worker only
  lowers (`ExpEndsRentals`).
- `LeaseRows`: `LeaseConsistent`.  The pairing of the rows (`PairsInv`) is inductive only with
  what the processes rely on (`IdsInv`): ids beyond the sequence are not committed (`Fresh`); a
  rent that has drawn its id is the only one with it and its rows are not there yet (`Apart`,
  `RentGenuine`), so that its commit makes both halves; what a stop has loaded is wrong in one
  way only, rental (`StopGenuine`) and instance (`StopSawEnd`) may have ended since, so that the
  columns it leaves out need no writing; the expiration worker's rows are committed
  (`ExpGenuine`).
- `LeaseImplementsContract`: `LeaseSafety => ImplementsContract`.  Each step does one of three
  things to a row (`RowStep`): nothing that counts, the end of a lease, or its birth.  The birth
  is `Grant` or `Refuse`, the end `End` or a stutter (`ContractStep`); that there is room for the
  grant is `QuotaClaims`, in which the rent that commits is itself counted (`RoomForRent`).
- `DeletedStaysGone`: `DeletedMeansGone`.  A row is called deleted when the one container that
  it names is gone; the invariant (`LifeInv`) says that there is no other and that none is to
  come.  Every container that runs or is late (`Coming`) belongs to an id that was drawn (`Drawn`),
  so that a new id has none; before the commit there is none but the one its rent knows
  (`OwnOnly`), after it none but the one that the row names (`NamedOnly`), which has been answered
  for and is not late (`Arrived`); a row that is due names one (`RunningNamed`, `ExpHosts`).  A
  creation whose answer is lost or late is not in the way, since the row is then committed in
  error with no container and is never due.
- `HostsInv`, on which this and `ShellterAddresses` rest: a rent knows the container it was
  answered (`RentHosts`), and what a committed row names was started for it.

**Everything** (ShellterProofs).

- `ShellterTypes`: `Spec => []TypeOK`, one lemma per process (`ApiStepTypes`, `ExpStepTypes`,
  `RecStepTypes`, `HbStepTypes`, `RedeploymentTypes`), each with one step per action.
- `ShellterQuota`: `QuotaClaims` and `QuotaBound`; recovery and heartbeats write no rental
  (`FailoverKeepsRentals`), a stop of the web server only forgets claims (`ForgottenClaims`).
- `ShellterCapacity`: `CapacityBoundFailover`, capacity and `|Requests|`.  Recovery has two
  claims more, never both at once: the worker it has chosen (`Moving`), and the place of an
  instance that it has seen recoverable and that a stop takes off before it is marked
  (`Marking`).
- `ShellterTarget`: `RecoveryTargetOnline`.  Only the recovery worker writes OFFLINE
  (`OthersKeepOnline`), and not while it moves an instance.
- `ShellterAddresses`: `EndpointGenuine`.  Recovery writes worker, port and container at once, of
  the container it was answered (`RecHosts`), on a row that is committed (`RecGenuine`); a stop
  beside it writes none of them, and a creation that comes late is named by nobody (`LateEffect`).
- `ShellterInstances`: `ActiveRentalHasInstance`.  Pairing fails here (section 6), but one
  direction stays: the instance of an ACTIVE rental is running, recovering or in error
  (`ActiveHosted`), since whoever ends an instance ends its rental in the same commit, and recovery
  writes these three statuses only.
- `ShellterImplementsContract`: `Spec => ImplementsContract`.  The other processes insert no row
  and write no rental (`Elsewhere`), so `IdsInv` and `ContractStep` serve unchanged.

**The start** (StartupProofs).

- `StartTypes`, `SeededBeforeServing`, `NamesReserved`, `AccountsImplementRegistry`,
  `CatalogBounded`: the properties of `startup`, but for its liveness.  What has been found at
  one step of `start.py` stays (`NothingLost`), so that what the commit adds completes it.
  `NamesBounded` is again a sum of rows and claims, over the requests and starters that have
  looked and not committed.  `NamesReserved` is not a property of a run of its own: the names
  are taken before the first visitor, which is where the guard of `StartAccounts` rests.

The inductive invariants (`LeaseInv`, `ContainersInv`, `InstancesInv`) were run as invariants in
TLC on the instances of section 3 before they were proved.

`CapacityBoundFailover` needs three instances beside recovery to be exceeded by a wrong model,
more than TLC can enumerate here, so it is proved and not checked.

*Model-checked only:* the liveness properties, `DueRentalsEnd`, `FailedWorkerDrained`,
`WorkerRevives` and `WebComesBack`: liveness under fairness is outside the prover's reach.  Every
safety property of the passing runs is a theorem.  Not proved under `Spec` because they are
false there: `LeaseConsistent` and `DeletedMeansGone`, by recovery.

## 6. Where code and documents disagree

- **Quota** (`api_quota`).  Two rents of one user both count before either commits:
  `Quota + 1` rentals.  At most one more per process (`QuotaBound`).
- **Ports** (`lease_ports`).  Two rents in parallel get one port; on two workers both run.
- **Early expiration** (`lease_early`).  A rental extended while a pass of the expiration
  worker is on its way is expired before its new end.
- **Lost extensions** (`lease_extend`).  Two extensions of one rental read the same end; the
  later commit takes back what the other gave (`docs/api.md:166`).
- **Stranded workers** (`lease_stranded`).  Two rents fill the last place of a worker together;
  when both instances are stopped at once, each stop still counts the other's and neither frees
  the worker (`api.py:162-164`, `docs/seances/S6-location.md:56`).  An empty worker stays BUSY
  until it falls silent or `start.py` writes it.  A stop and a rent that overlap leave the same.
- **Stopped instances come back** (`fail_ended`).  Recovery writes `running` over a stop.
- **Recovering for ever** (`fail_resume`).  Recovery looks at instances only in passes that
  take a worker OFFLINE.

The same checks show, with the configurations named, disagreements that have no run of their own:

- *Another's machine behind an address.*  "An address on a dashboard leads to no other instance's
  container" fails in `Leasing`, with two processes: two rents draw one port for one worker, the
  first commits, its container is removed (by an expiration, or a stop, that has called the agent
  and not committed), and the second starts its own at the address that the first row still
  shows, as running.  It fails with one process too, by a creation that ends after
  `AGENT_TIMEOUT` on a port that was given again.  `pick_free_ssh_port` looks at the rows,
  Docker at the containers, and neither at the other.
- *Orphans.*  A container whose creation was answered too late, or whose process was killed before
  the commit, is named by no row and nothing removes it; `docs/tests.md:118` asks for "aucun
  conteneur orphelin" of two rents at once.  A stop that the agent does not answer leaves one as
  well, by the intention of `api.py:156`.
- `FailedWorkerDrained` under `FailSpec`: a crash of the recovery worker after the commit of
  OFFLINE leaves the instances running on a dead worker until another one falls silent.
- `DeletedMeansGone` under `Shellter!Spec`: an instance that is recovered leaves its old
  container on the silent worker, and is called deleted when the new one is
  (`README.md:72` of the repository).
- Two rows of one distribution: `NamesBounded` with the bound 1.  Two administrators
  (`admin.py:35`, "existe déjà"), or `start.py` and `seed.py` beside each other (`seed.py:4`,
  "Idempotent : relançable sans créer de doublons"), both find none.
- `schema = "migrated"` is not reached from `"created"`: after a first `upgrade()` that failed
  (`start.py:36-37`) or a `seed.py` on an empty database, `create_all()` leaves tables without a
  revision, and every later start comes up by the fallback, without further migrations.
- A web server that is down for longer than `HEARTBEAT_TIMEOUT_SECONDS` makes all workers look
  silent: `shellter_safety` reaches states with every worker OFFLINE and the instance left
  recovering, although no host has failed.
- A rent that chose a worker before a recovery pass commits on it after the pass has taken it
  OFFLINE, and no pass looks at that instance until the worker has come back and falls silent
  anew: `FailedWorkerDrained` with `~worker[w].fresh` in the place of `Stale(w)`, and capacity 2
  (with capacity 1 the same commit writes BUSY over OFFLINE, and the next pass sees the worker).

## 7. Not modelled

- Login and logout: they change the signed cookie of one browser and no row.
- `app/monitoring.py`: counts for a page; no property speaks of them.
- `permissions.py`, `config.py`, `ssh_credentials.py`, `app/__init__.py`: guards and set-up
  without state.  The models take the guards (owner, administrator) as given by the inputs.
- Alembic's environment and the columns of the migration; the migration itself is one step of
  the schema.
- `provisioner/*.py` and `app/routes.py`: empty files.
- Ansible, nginx, CI: read for which process restarts which.  The agent mock is a test double.
- Deletions that take effect after the caller has given up: a deletion that was not answered is
  done or not done by the time the error is raised.
- More than one heartbeat of one agent at a time: an agent gives up after five seconds
  (`agent_real.py:44`) and sends the next while the first may still wait for a process.
- The fictitious workers: `mock` (`start.py:64`), inserted once and never refreshed, and
  `worker-fake` (`seed.py:45`), without a heartbeat, so that it is never chosen and the first pass
  of recovery takes it OFFLINE.

## 8. Plan

1. The hazards without a property: what bounds the instances that no pass of recovery looks at
   (`api.py:122`), in the terms of `ShellterCapacity`; what a recovery without a port should give.
2. Late deletions and overlapping heartbeats of one agent (section 7).
3. `fail_live` with a second container, so that a move of the run succeeds, if its states allow.
4. Larger instances of `Shellter` for the properties about pairs of instances, if symmetry
   allows.

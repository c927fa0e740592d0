# A verification development of the vSphere Compliance Manager

vSphere Compliance Manager (VCM) is a FastAPI backend with a PostgreSQL
database and a React front end. It reads the inventory of VMware vCenters,
proposes DRS anti-affinity rules and storage moves, and creates the rules an
operator accepts. This directory holds TLA+ modules that model its core logic,
TLC configurations that check them on small instances, and TLAPS proofs of what
matters most for instances of every size. Paths below are relative to the
repository root unless they say `tla/`.

Contents: [The system](#the-system), [Modules](#modules),
[Runs](#runs-and-bounds), [Divergences](#where-code-and-documents-disagree),
[Fairness](#fairness), [Proofs](#proofs), [Limits](#what-is-not-covered),
[Plan](#plan).

## The system

| Component | State | Operations | Interacts with |
|---|---|---|---|
| vCenter connections, `api/vcenter.py` | table `vcenter_connections` | add, update, delete, test, inventory | referenced by runs (foreign key) |
| Triggered runs, `api/analysis.py` | tables `analysis_runs`, `analysis_findings`; a background task per run in the process's thread pool | trigger, list, poll; the task `_do_analysis` | reads connections, calls the engine, read by reports and remediation |
| Scheduled sweep, `core/scheduler.py`, `worker.py` | APScheduler job per process | `run_scheduled_analysis` at each cron tick | writes runs and findings as a triggered run does |
| Analysis engine, `services/analysis_engine.py` | none; a pure function of inventory, patterns, settings | `analyze_drs_compliance`, `analyze_storage_compliance`, `generate_findings` | called by tasks and sweeps |
| Remediation, `api/analysis.py` | `action_taken` of findings, `drs_rule_history`, `storage_move_history` | `apply_drs`, `approve_storage_move` | changes the vCenter through `services/vcenter_service.py` |
| vCenter access, `services/vcenter_service.py` | a pyVmomi session | connect, inventory, create and delete rules | the vCenter, external |
| Reports, `api/reports.py` | none | list, get, export | reads runs and findings in two statements |
| Startup, `main.py`, `core/database.py` | enum types, tables, default rows | create if absent, seed, start the scheduler | runs in every process at once |
| Settings, patterns, `api/settings.py` | tables `app_settings`, patterns | CRUD | engine; scheduler, at startup only |
| Accounts, audit, `api/auth.py`, `users.py`, `core/deps.py`, `ldap_service.py` | `users`, `audit_logs`, `ldap_configs` | login, CRUD, role checks | every handler |
| Browser session, `frontend/src/store`, `utils/api.ts`, `LoginPage.tsx`, `Layout.tsx` | localStorage, shared by the tabs, and a copy in the store of each tab | login, logout, the interceptors of requests and of 401 answers | API |
| Dashboard, pages, logging, schemas, manifests | none of their own | reads, rendering | |

Several processes run this code at once: uvicorn workers or pods, each with a
thread pool for requests and background tasks and each with its own scheduler,
and optionally `worker.py` with another scheduler. They share nothing but the
database. The hard behaviours are therefore:

* interleavings of transactions: trigger against delete, sweep against delete,
  two applies of one run, a reader between two commits;
* loss: a process that dies between the commit that inserts a run and the one
  that settles it, and commits that fail outside any handler;
* two systems without a common transaction: rules are created on the vCenter
  one by one and recorded in the database in one commit at the end, and an
  answer that is lost leaves a rule the code takes for refused;
* stale data: the connection is read again after the response, findings name
  clusters and VMs as they were, ORM objects expire at each commit;
* boundaries in batching: clusters of 0, 1, 2 hosts, groups of one, short tails;
* one localStorage and several tabs, each with a copy and calls in flight whose
  answers come in any order.

`PROJECT.json` lists each with its line under `hazards`.

What makes each component correct: a *run* is settled at most once, publishes
all its findings with its status or none, keeps its connection as long as that
exists; a *sweep* is alone in its process, survives a failing connection and
ends; a *report* with status completed is whole; the *DRS engine* accounts for
every VM once and never asks the impossible of a cluster; *remediation* records
nothing it did not do, and omits and duplicates no more than overlap and loss
explain; *startup* makes schema and defaults in order and whole, whoever else
starts; *accounts* stop at a revocation and keep an administrator; a *setting*
that is sensitive is never in plain text and an update changes what it was sent;
the *browser session* keeps a profile with the token it belongs to and ends when
the token does.

## Modules

    RunLifecycle  what a run promises       Provisioning  what startup promises
        ^ refined by                            ^ refined by
    AnalysisRuns  connections, runs,        Startup  processes that start, seed,
                  tasks, sweeps, crashes             schedule and stop

    DrsEngine  the batching of a group
        ^ extended by             ^ extended by
    DrsRules   the DRS analysis   StorageScan  the collection of the inventory,
                                      |        then both analyses
                                      v extends
                                  StorageEngine  the storage analysis

    Remediation   Accounts   Pool   Records   Session

Nine of them have an `MC` module with their instances for TLC and, where a
document is contradicted, the document's sentence as a property; seven have a
`Proofs` module with theorems, and `EngineProofs` has those of `DrsRules` and of
`StorageScan`, whose lemmas about batches, sequences and sets are the same.
`Remediation` begins where `AnalysisRuns` ends (its `Publish` is the completion
of a run), `DrsRules` and `StorageScan` are what `AnalysisRuns` has as the one
step `Scan`, `Pool` is what it has as the fairness of its steps. `Session` is
what the browser makes of the tokens that `Accounts` issues and expires. The
state spaces are kept apart because the components meet in these steps only.

### RunLifecycle

The abstract specification. `run[r]` has a status, a kind and a report.
`Begin`, `Complete`, `Fail` are all that ever happens: a run begins once,
completes publishing the findings of every section of its kind in the same
step, or fails publishing none, and does not change afterwards.

### AnalysisRuns

| Variable | Code |
|---|---|
| `conns` | a row of `vcenter_connections`: unused id, active, inactive, deleted |
| `runs` | a row of `analysis_runs` with its findings: status, connection, kind, sections with findings (`report`), sections with totals in `summary` (`totals`) |
| `task` | the execution of a run: `queued` (background task added, or loop before its re-read), `scan` (connect, inventory, engine), `commit` (results in the session), `done`, `lost` |
| `req` | what a request thread has read between two statements |
| `sweep` | of each process: connections still to analyse, and the run being executed |

Each action is one handler, or the part of one between two statements whose
separation another process can observe:

* `AddVcenter`, `UpdateVcenter`: one transaction each. `DeleteLoad` and
  `DeleteCommit`: the ORM loads the runs of the connection, then sets their
  reference to NULL and deletes the row; the foreign key refuses when a run was
  inserted in between.
* `TriggerCheck`, `TriggerCommit`, `TriggerFails`: the check for an active
  connection, then the insert with status `running` and the background task.
  The insert does not look at `is_active` again. `pc = "lost"` is a refresh
  that fails after the commit: a row, a 500, and no task.
* `Start`, `StartOrphaned`, `Scan`, `Commit`, `Lose`: `_do_analysis` and
  the body of the sweep's loop. A deleted connection makes a triggered run
  fail, but `SweepOrphaned` loses a scheduled one, whose handler formats
  `conn.name` and raises again. The first
  reads and the commit are outside the `try`: when one fails the run is lost
  (`Lose`).
* `Tick`, `SweepOpen`, `SweepOpenFails`: the job. `max_instances=1` of
  APScheduler is the guard `sweep[p] = NoSweep`.
* `ReportRun`, `ReportFindings`, `ReportSent`: the two reads of `get_report`.
* `Crash`: a process dies at any point. Tasks, requests and sweep are gone;
  nothing at startup looks at runs left `running`.

Abstracted: columns other than `is_active`; findings to the sections they belong
to; a list of polls to the two reads of a report; the order of the loop of the
sweep to any order (the query has no ORDER BY).

### DrsEngine and DrsRules

`DrsEngine` has the arithmetic of the batches: `RuleSizeOf`, `Batch`,
`RuleBatches`. `DrsRules` is `analyze_drs_compliance` on one cluster. VMs are
positions in the inventory list, a pattern is what it returns on a name (`hits`:
a group key, or `NoKey` for no match and for an invalid expression). `GroupVM`
is one turn of the grouping loop, `FindStale` the detection of existing VCM
rules, and `SkipSingle`, `SkipHosts`, `SplitGroup` the three branches of the
second loop. A group key is `[stem, tail]`, so that the name of batch 1 of group
`WEB` and that of group `WEB-1` can be equal, as their strings are. Clusters are
analysed independently; one is modelled. Names of VMs are identified with the
inventory entries, which is what the engine's lists of names do as long as the
vCenter lists each VM once; `StorageScan` is about when it does not.

### Remediation

`Publish` makes the findings of a run available; `LoadApply`, `CommitApply` and
`LoseApply` are the reads of `apply_drs`, its one commit, and everything that can
prevent that commit. A turn of its loop has three outcomes:

* `CreateRule`: `ReconfigureEx` took the request (`Submit`) and answered;
* `LoseAnswer`: it took the request and raised, because the answer was lost. Its
  handler (`vcenter_service.py:199-201`) returns False for every exception, so the
  finding stays open for the next apply and the rule may be there;
* `SkipRule`: nothing was submitted. The cluster or the VMs are not there, or the
  call raised before the vCenter had it.

`Approve` is `approve_storage_move`. The vCenter is an environment: `ClusterGone`,
`VMMoves`, and an `accepted` that may be FALSE for a rule submitted, since
`ReconfigureEx` returns a task nobody waits for. `submitted`, `losses` and
`unanswered` are history variables: they count what happened, and no guard of the
code reads them (`losses` and `unanswered` are in the guards of their bounds).

### StorageEngine and StorageScan

`StorageEngine` is `analyze_storage_compliance`: `RealDisks` to `PodAt` are what
it collects of a VM, `Pairs` the loop over a group, `Violations`, `Scattered`,
`Suggest` and `Proposals` its three results. `vm_storage` is a dictionary by
name, so that of two entries of one name the last is kept (`Entry`).

`StorageScan` is `get_full_inventory`, one read at a time:

* `ListHost`: the VMs of a host. Those of a cluster are listed before any of them
  is read (`listed`).
* `ReadDevices`, `LookUpDisk`, `AddEntry`: one VM. Its devices are read at once;
  then the pod above the datastore is looked up for one virtual disk after the
  other, so that two disks on one datastore may carry different pods; its name is
  read last. `reading` is the VM between these reads. `Gone` is the read of a VM
  that was deleted, which ends the collection.
* `ListPod`: the datastores of a pod, one pod after the other, into `dsToPod`.
  A datastore that changes pods in between is in none of them, or in the last.
* `Analyze`: both analyses, the DRS rules of each group of each cluster (`RulesOf`,
  `Rules`) included; `RuleMembers` has the VMs of a group in the order they were
  read.

The proposals are a function of the violations, the datastores with room and the
pods, so `AdviceSeparates` applies `Proposals` to every choice of the roomy
datastores and of the pods that have no datastore instead of storing them.
Between any two reads the vCenter may migrate a VM, relocate its disks, delete it,
or move a datastore to another pod. `was`, `podWas` and `moves` remember what was
the case during the collection, and the properties compare the report with that.

Datastores and pods are identified by their names, as the engine does. The model
takes the names to be unique in the vCenter. They are unique in a datacenter only:
of two datacenters (`src/docs/vcsim/README.md:35` sets the simulator up with two),
each with a `datastore1`, VMs would be reported as sharing one they do not share.

Abstracted: names and patterns to `GroupOf` and `RuleGroupOf`, which give the
group keys of a name in the two analyses; the disks of a VM on one datastore with
one pod to one; free space to the set of datastores with room enough; VMs that
have no `config` and the text of the consolidation advice are left out.

### Startup

| Variable | Code |
|---|---|
| `types`, `tables` | enum types and tables of the database |
| `admin`, `patterns`, `keys`, `cron` | the seeded rows: administrator, copies of each pattern, settings, the value of `analysis_cron` |
| `pc`, `todo`, `missing` | of each process: its step, what it has still to look up, what it has not found |

`CreateTypes`, `FindTables`, `CreateTables` are `create_enums`, `init_db` and
`create_all`; `FindAdmin`, `CreateAdmin`, `LookUp`, `CommitSeed`, `SeedFails` are
`seed_initial_data` and `scripts/seed.py`, which differ in what follows an
exception (`SeedEnds`); `Schedule` is `start_scheduler`. A worker goes straight to
`Schedule`: its `create_all` runs with no model imported and creates nothing.
Every step of check and creation is separate, so other processes commit in
between; an item created by both raises in the second. `Stop` is possible
anywhere. `SetCron` and `DeletePattern` are the operator's.

`Provisioning` is what all this is for, with one variable for the schema
(`empty`, `types`, `tables`) and one for the defaults: each is made once and in
order, whatever is missing of the patterns or of the settings is seeded at once,
and `Serve` needs the tables. The refinement mapping reads `schema` and
`defaults` off the tables (`Schema`, `Defaults`); the process that serves is the
one that is `ready`. The defaults have two parts, patterns and settings, and
`Provisioning` asks each to be seeded as a whole and nothing of the two
together. The code commits both at once (`main.py:79`), the docstring
(`main.py:69-70`) says separately: either implements it. What neither may do is
leave a part half seeded, whoever else starts, seeds or stops.

### Accounts

`users` is the table, `tokens` what has been issued and not expired. A session
(`req`) reads and writes in steps of its own: `LoginLocal`, `LoginLdap`,
`LdapLoad`, `LdapUpsert`, `Issue` are `login` and `_do_ldap_login`;
`Authenticate`, `LoadUser`, `UpdateUser`, `CheckName`, `CreateUser` are
`get_current_user` with `require_admin` and the handlers of `api/users.py`;
`ResetLoad`, `ResetCommit` are `scripts/reset_admin.py`. SQLAlchemy writes the
columns whose value differs from what the session read, and that is what
`Changed` does: a stale session neither overwrites nor restores the others.
`late` and `explained` are history variables. Left out: names and addresses,
`change_password` (a password stays one), the audit row, which is committed
with what it is about.

### Records

The rows that administrators edit. A setting is `[enc, cipher, plain]` or
`NoRow`; a connection or pattern is a function of its columns, `NoRow`, or
`Gone`. `Update` and `CommitSettings` are the reads and the one commit of
`update_settings`, with `Encrypted` for the choice that `SENSITIVE_KEYS` makes
and `Shown` for what `get_settings` answers. `Open` reads a row for
`update_vcenter`, `update_pattern`, `test_vcenter` or a deletion; `CommitRow`,
`CommitTest`, `Delete` commit. As in `Accounts`, a commit writes the columns
whose value differs from what was read (`Set`), except that a ciphertext is
never twice the same. `mixed` is a history variable: the settings whose last
update overlapped one of the other encryption. Left out: the descriptions, the
logo, which is a file, and `test_ldap`, which stores nothing.

### Session

| Variable | Code |
|---|---|
| `issued`, `live` | the tokens of the API, by number, and those a call is accepted with |
| `storage` | `vcm_token` and `vcm_user` in localStorage, shared by all tabs |
| `tab` | of each tab: the page shown and the copy `useAuthStore` took |
| `calls` | calls in flight: their tab, kind, token, and whether they may be accepted |

`Load` is a page opened or reloaded (`ProtectedRoute` asks for a token only),
`Navigate` a change of page without one, `Logout` is `handleLogout`. `Submit`,
`LoginAccepted`, `Profile` are the two calls of `handleSubmit` and the `setAuth`
after them; `Header` is the request interceptor, which prefers the stored token
to the header the caller set; `Refused` is the response interceptor, which
clears localStorage and loads the login page on any 401 (`Expel`). `Expire` is
the end of a token or of its account. `mixed` and `foreign` are history
variables. Simplified: the two `setItem` of `setAuth` are one step, and so is
`window.location.href`, whose page is there at once; a tab that is closed is one
that does nothing more; the query cache, which outlives a logout, is left out.

### Pool

One process: who has one of the `Threads` (FIFO queue of AnyIO, external) and one
of the `Conns` connections (SQLAlchemy's pool, external). A session takes a
connection at its first statement and gives it back at a commit or its end:

* `Authenticate` keeps it while the request asks for a second thread; `Refuse` is
  its 401 or 403. `Handle`, or `Commit` and `Reply`, which refreshes what was
  written and takes a connection again, end a handler. `CallVcenter` is one that
  waits for the vCenter.
* A login has no user to read first. `LoginLocal` reads the account and commits.
  `CallDirectory` reads it and waits for the directory in the same transaction,
  with thread and connection: `ldap_service.py:25-58` bounds the time to connect,
  not the time to answer. `DirectoryAnswers` commits or refuses, and `IssueToken`
  refreshes the account for the token.
* `trigger_analysis` is `Commit` and `Respond`; `Begin` is its task, or a sweep,
  which keeps the connection while it waits for the vCenter. `Loop` is the next
  connection of a sweep.

FastAPI 0.110 closes the session of a dependency before the response and so before
the background task. `TimeOut` is the pool's 30 seconds. No answer of a vCenter or
of the directory is promised (`Remote` has the two waits).

## Runs and bounds

| Run | Instance | Shows |
|---|---|---|
| `runs_safety` | 1 connection, 2 runs, 2 processes, 2 threads, kinds drs and full | the safety of runs and readers, `TerminalStable`, and the refinement of `RunLifecycle` |
| `runs_liveness` | 2 connections, 2 runs, 1 process, 1 thread | sweeps: exclusive, isolated from failures, ending; runs settle or their task is lost |
| `drs_rules` | all clusters of 0-5 hosts, 2 keys, 0-6 VMs with one pattern and 0-3 with two | sizes, accounting, coverage, names, the first matching pattern |
| `storage_scan` | 2 VMs and 2 changes during the collection, or 3 VMs, two of one name, and 1 change; clusters of 2, 0 and 1 hosts, 2 datastores, 3 pods | what both analyses say of a vCenter that changes |
| `remediation` | 1 run, 2 DRS and 1 storage finding, 2 threads, 1 lost session, 1 lost answer for each finding | what the records say and omit, and how many duplicates |
| `startup` | 2 API processes, a worker, the seed script, 2 types, 1 pattern, 2 settings | the refinement of `Provisioning`; bounded copies and lost starts |
| `startup_init` | 2 API processes, a worker | violation, see below |
| `accounts` | 2 names, 2 sessions, directory enabled | revocation, the last administrator, passwords |
| `pool` | 4 requests and a sweep on 3 threads and 2 connections | no leak, a thread left, every request gets on |
| `session` | 2 tabs, 2 users, 2 tokens, 2 calls in flight | whose session the tabs show, keep and lose |
| `session_profile` | 1 tab, 2 users, 2 tokens, 1 call | violation, see below |
| `records` | 2 settings, 1 of them sensitive, 1 row with 2 columns, 2 values, 2 requests | what overlapping updates leave |

The properties:

* `Ownership`: a run says running exactly while a task executes it or has been
  lost. `AtomicPublication`: findings and completed appear together.
  `Attribution`: a run references its connection exactly as long as the
  connection exists, whatever inserts and deletes are in flight.
  `AnsweredReportIsWhole`: a report answered with completed has all findings.
  The converse does not hold and is not claimed: a report answered with running
  may contain findings, when the commit falls between its two reads.
* `TerminalStable`: the row of a settled run, and of a lost one, changes in
  nothing but its connection. A lost run is running for ever: the model shows
  it as the code has it.
* `SweepExclusive`, `FailureIsolated`, `RunsSettleOrLost`, `SweepsEnd`.
* `RuleSizes` (two VMs at least, at most `max(2, hosts - 1)`, never more than
  hosts), `Accounted` (each matched VM once in a rule or a skip, in the group of
  the first pattern that matches), `Covered` (at most one VM of a group left
  over), `NamesDistinct` (equal names only from a key that is another's with a
  batch number).
* `ListedOnce`: a VM that does not move is listed once, and stands once in one
  rule of the cluster where it runs. `SharedWasShared`: what is reported was so
  at some time of the collection. `SteadyReported`: two VMs that shared a
  datastore or pod throughout are reported; of several VMs of one name this
  holds of the one in the last cluster, the only one that is compared.
  `PairsOnce`: no VM violates with itself, though a migration lists it twice
  with different disks. `ScatteredTrue`: a VM reported as scattered had disks on
  several datastores, or one on a datastore that changed pods during the
  collection, and one that was scattered throughout is reported.
  `AdviceSeparates`: a feasible proposal to move to a pod, or to a datastore
  when no pod is shared, offers a place the two do not share, if they share
  fewer than are offered (one, or two of more than two, `Few`). When they share
  as many, all that is offered may be shared, since the code does not take out
  what they share: that is the limit of the advice, and is not claimed.
* `TakenRecorded`; `RecordedSubmitted` (each row stands for a rule submitted, and
  what is submitted without a row is as much as was lost: a session or an answer);
  `DuplicatesBounded` (a rule is submitted at most once per overlapping request,
  and once more per lost session and per lost answer).
* `RefinesProvisioning`: schema in its order, patterns all or none, settings all
  or none, nothing undone, nobody serves before the tables. `CopiesBounded`:
  races multiply a default pattern by the number of seeding processes at most.
  `RacesBounded`: a process loses two starts to others at most.
* `LateBounded`: only requests in flight at the revocation of an administrator
  take effect after it, whatever tokens he holds. `AdminLeft`: the last
  administrator is not lost unless one revokes himself, two requests overlap or
  the directory demotes him: three ways the code leaves open and `explained`
  names, so that the property says there is no fourth. `LocalHavePassword`.
* `OwnProfile`: the profile kept with a token is its owner's in localStorage and
  every tab, unless somebody logged in over a stored session. `ActsAsShown`: a
  page acts as the user it shows, unless another tab has changed the session
  since: a tab that another changed keeps showing the old user until it is
  reloaded. `SessionKept`: a live session ends by a logout, a failed login or the
  refusal of an earlier token's call only; the last is how a late 401 ends the
  session of whoever has logged in since. `DeadSessionLeaves`: a page that asks
  with a dead token ends at the login page.
* `Sealed`: a sensitive setting has nothing in plain text, whatever is asked for
  and however updates overlap. `Whole`: a setting has a value in exactly the
  column its encryption says, but for crossing updates of different encryption,
  which do tear it.
  `OnlySentChanges`: a column of a row changes only by the commit of a request
  that sent it, and what is deleted stays so.
* `NoLeak`, `ThreadLeft` (hanging vCenters and directories never take every
  thread, because connections run out first), `Answered` (so no request, task or
  sweep that does not itself wait for one of these waits for ever on the pools, in
  either order of the two).

Some of these name exceptions. Each exception is something the code does, and the
property shows that it is the only way: `OwnProfile`, `ActsAsShown`, `SessionKept`,
`Whole`, `AdminLeft`, `ScatteredTrue`, `DuplicatesBounded`. The exceptions
themselves are in the hazards of `PROJECT.json`, whose notes say which are open.
`SweepExclusive` is of one process (processes sweep the same connections at the
same time, below), and `FailureIsolated` of failures that are recorded: a commit of
the sweep that fails ends the sweep.

Why the bounds are enough. For runs: every interference is between one run and
one other actor (a second trigger, a delete, a sweep, a reader), so two threads,
two processes and two runs contain each pair; a second connection matters only
to what a sweep still has to do, hence its own instance. The safety properties
and the refinement are also proved for every instance. For rules: five hosts
make batches of four, and six VMs make one full batch and a tail of two; three
hosts make two full batches and tails of one, and with them the collision of
batch names; `VMBounds` allows fewer VMs when two patterns multiply the matches.
For the storage scan: a VM that moves twice is listed three times, and an
inconsistency needs a change between two reads; `MaxLoad` is 4, which is two VMs
and two changes or three VMs and one, and the clusters have two hosts, none and
one, so that moves inside and between clusters exist, and a cluster that is
passed over. `Starts` has the second VM on the first host and the third, if there,
in the last cluster: where the first is, and the moves, give every other order.
Three pods are what makes two shared ones fewer than are offered. For remediation:
two overlapping sessions, one lost session, one lost answer and one approval are
the terms of the bound. `MaxLosses`, `MaxUnanswered`, `MaxApprovals` are the bounds
of counters. For startup: two processes race for each item, the script is a
third that seeds, two types tell apart one missing from all, and one of the two
settings can be inserted by the operator first. For accounts: two names are one
administrator who revokes another, and two sessions are the overlap. For the
session: a second tab is what localStorage is shared with, a second user and
token are what a profile can be mixed up with, and of two calls in flight one
can be answered after a new login; `MaxLogins` and `MaxCalls` bound counters.
For the records: one sensitive key and one that is not, which start as the seed
leaves them, in plain text or not there yet, two overlapping requests, and one
column that is sent and one that is tested. For the pool: `Conns` < `Threads` is
what the deployed sizes, 30 and 40, have in common with 2 and 3, and four
requests and a sweep exceed both. The sets `Runs` bound the ids ever used.

`CHECK_DEADLOCK FALSE` only in `DrsRules.cfg` and `StorageScan.cfg`: the analysis
of a cluster, and a collection, end. Symmetry is used where only safety is
checked: for connections and runs, for API processes, for sessions and threads,
for values; no definition picks an element of those sets. It is used for pods
too, of which there are three, and `FirstThree` takes them all.

Every property has a mutant of the code that violates it, listed in
`PROJECT.json` and defined beside the definition it replaces.

## Where code and documents disagree

* `startup_init`: `init_db` calls itself fully idempotent and safe; of two
  processes that start on an empty database one fails to start, since types and
  tables are looked for and then created without a guard. Started again it comes
  up (`RacesBounded`).
* `session_profile`: the login page asks `/auth/me` with the new token in an
  explicit header, and the request interceptor puts the stored token over it.
  Whoever logs in while a session is stored (back to the login page, or in a
  second tab) works with the new token and is shown the old user's name, role
  and menus. `OwnProfile` says that this is the only way.

Noted while modelling, without a run:

* The sweep stores `drs.get("summary", {})`, a key the engine never sets:
  scheduled runs have no DRS totals (`core/scheduler.py:46`), which
  `ReportsPage.tsx:208` shows. `TotalsOf` has it as the code does.
* `src/backend/tests/unit/test_vcsim.py:134-147` says that a VM whose disks are
  all on one datastore is not scattered. The pod is looked up for each disk
  (`vcenter_service.py:97-108`), so one with two disks on a datastore that
  changes pods between the two lookups, and is in no pod when the pods are
  listed, is reported. `ScatteredTrue` names this case.
* `create_anti_affinity_rule` answers False for every exception of
  `ReconfigureEx`, a lost answer included: `apply_drs` counts the rule as failed,
  records nothing and creates it again the next time (`DuplicatesBounded`).
* Documents say existing `VCM-AAR-*` rules are deleted before new ones are
  created (`docs/architecture/README.md:127`, the comment at
  `api/analysis.py:142`); `apply_drs` deletes none, and `delete_drs_rule` has no
  caller.
* `scripts/reset_admin.py` leaves the role of an account that exists, and prints
  "Admin user updated" of one that was demoted.
* `README.md:40` has every action logged with its user; only the login writes an
  audit row (`api/auth.py:101`).
* A wrong password is answered by 401, which the interceptor takes for a dead
  session: the page reloads before it can say so, and all tabs lose the session.
* After a logout in one tab the others stay on their pages and are answered 403,
  which no interceptor acts on. The query cache outlives a logout, so that the
  next user of a tab may see the last one's data until it is fetched again.
* An `ENCRYPTION_KEY` that is no key, such as the `REPLACE_ME` of the configmap,
  is replaced by a random one in each process (`core/security.py:25`).
* `config.py` declares `ANALYSIS_TIMEOUT_SECONDS` and `ANALYSIS_MAX_WORKERS`,
  which nothing reads: a vCenter that never answers holds a run, its thread and
  its connection for ever.
* Documents say a rule holds `N - 1` VMs; the code puts two in a cluster of two
  hosts (`max(2, N - 1)`), which `RuleSizes` states as the code has it.
* approve-storage accepts a finding of any type.
* `_ensure_patterns` duplicates patterns when two processes seed at once
  (`CopiesBounded` is how often), and the docstring of `seed_initial_data`
  (`main.py:69-70`) promises separate commits for patterns and settings, which are
  one (`main.py:79`): a setting that cannot be inserted takes the patterns along.
* `docs/architecture/README.md:55` draws a new run with status pending; the code
  inserts running. `docs/api` lists a logout endpoint that does not exist.
* Every API process and the worker sweep the same connections at each tick.
* A deactivated local account whose name the directory knows takes the role of
  the directory at a login.

## Fairness

In `AnalysisRuns`, `FairSpec` has weak fairness of `Begin(r)` and `Settle(r)` for
each run and of `SweepStep(p)` for each process: a background task given to the
thread pool is run, a transaction ends by a commit or an error, the loop of a
sweep goes on. `LiveSpec` adds weak fairness of `Answer(r)`, an environment in
which every vCenter answers or refuses. That is an assumption about vCenters, not
about the code, and only `runs_liveness` has it. The pools are finite, and
`Pool` is about that: its `FairSpec` has weak fairness of the grant of a thread
and of the steps that requests, tasks and sweeps take themselves, the 30 second
wait included, and none of `Answer` and `DirectoryAnswers`, so that any number of
vCenters, and the directory, may hang for ever: no call to either has a timeout
for its answer. In
`Session`, `FairSpec` has, for each tab, weak fairness of the answers to those of
its calls that cannot be accepted any more: an HTTP call gets its answer; the
ones a reload abandons are gone. No fairness is assumed of users, ticks, crashes,
stops, reloads or expiry. The other runs check safety only and need none.

## Proofs

Each theorem is for every value of the constants, from the named assumptions of
the module it is about and nothing else. All follow one argument: an invariant
`IInv` implies the property, `InitIInv` shows it of the initial states,
`StepIInv` that every action preserves it, with one step per action, and
`Invariance` combines them to `Spec => []IInv`. The action properties and the
refinements reason about one step from `IInv`. `TypeCorrect` states the types in
each module but `EngineProofs`, whose `Types` and `ScanTypes` are parts of the
invariants. That module has two of everything: for `StorageScan` the invariant
is `ScanIInv`, its lemmas `InitScan`, `ChangeStep`, `ListStep`, `AsideStep`
(what leaves the entries alone), `GoneStep`, `DevicesStep`, `LookUpStep`,
`EntryStep`, `ListPodStep`, `AnalyzeStep`, and `ScanInvariance` combines them.
TLC found each invariant to hold on the instance of its run before it was
proved.

The assumptions are those of any inventory: in `StorageScan`, that the datastores,
pods and VMs are finitely many, and a host has one place in one cluster; there may
be clusters without hosts, or no cluster at all.

| Module | Theorem | States |
|---|---|---|
| `AnalysisRunsProofs` | `RunsOwned`, `PublishedWhole`, `RunsAttributed`, `SweepsExclude`, `ReportsWhole` | `Ownership`, `AtomicPublication`, `Attribution`, `SweepExclusive`, `AnsweredReportIsWhole` |
| | `Stability`, `Isolation` | `TerminalStable`, `FailureIsolated` |
| | `Refinement` | `RefinesLifecycle` |
| `StartupProofs` | `FewRaces`, `FewCopies` | `RacesBounded`, `CopiesBounded` |
| | `Refinement` | `RefinesProvisioning` |
| `SessionProofs` | `ProfilesOwn`, `TabsInStep`, `KeptWhileLive` | `OwnProfile`, `ActsAsShown`, `SessionKept` |
| `RecordsProofs` | `SensitiveSealed`, `SettingsWhole`, `SentOnly` | `Sealed`, `Whole`, `OnlySentChanges` |
| `RemediationProofs` | `MarksRecorded`, `HistorySubmitted`, `FewDuplicates` | `TakenRecorded`, `RecordedSubmitted`, `DuplicatesBounded` |
| `AccountsProofs` | `RevokedStop`, `AdministratorsStay`, `PasswordsSet` | `LateBounded`, `AdminLeft`, `LocalHavePassword` |
| `PoolProofs` | `ConnectionsReturn`, `ThreadsLeft` | `NoLeak`, `ThreadLeft` |
| `EngineProofs` | `SizesHold`, `AllAccounted`, `AllCovered`, `NamesApart` | `RuleSizes`, `Accounted`, `Covered`, `NamesDistinct` |
| | `RulesMade` | `RulesAsExpected`: the loops of `DrsRules` make what `RulesOf` says |
| | `ScanListedOnce`, `ScanSharedWasShared`, `ScanSteadyReported` | `ListedOnce`, `SharedWasShared`, `SteadyReported` |
| | `ScanPairsOnce`, `ScanScatteredTrue`, `ScanAdviceSeparates` | `PairsOnce`, `ScatteredTrue`, `AdviceSeparates` |

What each `IInv` adds to the properties, and why:

* *AnalysisRuns*: `TasksKnow` (a run without a task has no row; a run about to
  commit has an outcome: else `Commit` could write the status none),
  `DeletesHold` (a delete in flight holds runs of its own connection only: else
  its commit would detach others) and `ReadersTrail` (a reader who saw completed
  reads a run that is: completed is stable, which is why two statements suffice
  for a whole report). The refinement mapping is `LifecycleView`: status, kind
  and report of each row; a detached connection and all tasks are stuttering.
* *Startup*: `Ordered` (the types are there together and before the tables),
  `Past` and `Looked` (what a process that has reached a step has found or made,
  and what it may still look up or miss), `Lost` (one start is lost by the
  time the types are there and a second by the time the tables are, and none after).
  `CopiesStep` counts the copies of a pattern with the processes about to insert
  it, by cardinalities. `RefinementStep` maps every action to one of
  `Provisioning` or a stutter.
* *Session*: `CallsKnown` (the call for a profile has the token just answered,
  unless another was stored) is what makes `Profile` store an owner's profile;
  `InStep` is what `ActsAsShown` says of a page that is shown, said of every open
  tab, since `Navigate` turns one into the other.
* *Records*: `Reads` says what a request in flight knows of a row that has
  changed since it was read: it is sealed if sensitive, and differs in its
  encryption only if that is noted in `mixed`. `Found` says that a row that was
  read is never unused again. `WrittenSealed`, `WrittenWhole`, `WrittenSince`
  say what `Written` does with such a row.
* *Remediation*: `Sessions` (an apply looks at each finding once) and `Balance`,
  which counts for each finding what is submitted, recorded, made, lost and still
  to be looked at against the number of sessions; `DuplicatesBounded` alone says
  nothing of an apply that has not come to the finding.
* *Accounts*: `Fitting` (what a session that is at a step has read, and that
  accounts are never deleted) and `ActForAdmin` (a session acts for one who is an
  administrator or is marked as crossed by a revocation). Every commit goes
  through `Store`, so `StoreIInv` proves the three properties once for all
  handlers.
* *Pool*: `Filled` (the sets of threads and connections are finite and within
  their bounds). `ThreadLeft` follows by comparing cardinalities: who waits for a
  vCenter or the directory holds a connection.
* *DrsRules*: the lemmas `BatchSlice` and `BatchHolds` say what slices of a
  sequence are and that they hold every position once, from arithmetic on rows
  (`Quotient`, `RowsApart`). `Keyed`, `KeysOnce`, `Somewhere`, `Once` follow a VM
  from the inventory into one group and from there into one place of one rule or
  skip; `LoneSkip` keeps what a batch of one leaves over to one per group;
  `Named` ties names to keys and batches. `RulesMade` has an invariant of its own
  on top, `Making`: groups are in the order of the inventory, and a key whose group
  is gone has the rules expected of it. `OneOrder` (a set of positions has one
  rising list) makes the list that the loop appended to the list that `RulesOf`
  chooses, so that the two models of the DRS rules are shown to be one.
* *StorageScan*: the properties compare a report with a past that is gone, so the
  invariant keeps the past with each entry. `Entries` says that an entry was read
  from some VM of its name (`ReadFrom`: its stores are a placement the VM has had,
  its pods are pods those stores have been in, and a VM that has not moved is in
  the entry's cluster), and that entries are in the order of the clusters;
  `History` that the present is part of the past. `Looked` says the same of what
  is only half read: the VM in `reading` has the datastores of some placement, its
  disks and `dsToPod` have pods those datastores have been in; `DisksRead` makes an
  entry of it. Two pods of one datastore are two it was in, so it is not steady,
  which is the exception of `ScatteredTrue`. `Pending` ties a VM that waits
  to be read to a host already listed, and `NoneMissed` and `NoneTwice` say that
  one that has not moved and whose host is listed stands in the list or among the
  entries, and in one place only if its name is its own: at the end this is
  `ListedOnce`. `SteadyReported` needs the order of the entries as well: the last
  entry of a name is that of the last cluster. `Results` makes the report a
  function of the entries. The step that lists a host is where the assumption that
  hosts have one place is needed: who has not moved was on no host listed before.
  The other lemmas are about operators: `InOrderLists` (the sorted sequence of a
  set of positions exists and lists it, since a least size without one would have
  a predecessor, `RisingExists`), `FirstThreeDiffer` and `FirstThreeAreThree`, with
  `FewLeaveOne` for `AdviceSeparates`, `ViolationIs` and
  `ViolationFound` (what the loop over a group reports, in both directions).

Checked by TLC only: `DeadSessionLeaves`, `RunsSettleOrLost`, `SweepsEnd`,
`Answered`, since the prover has no rules for fairness and ENABLED. Every other
property of a run that passes is proved too. No module uses induction over data
or RECURSIVE operators, which are out of its reach: where a proof needs
induction on a number, it takes a least counterexample (`Least`).

## What is not covered

* VMs of one name in `Remediation`, where a name is a VM, and in one cluster of
  `StorageScan`, where the vCenter's order decides which of them is compared.
* The audit log, `change_password`, the logo and the LDAP test: one write each
  that nothing else reads, or none.
* `get_inventory` stores nothing. `export_report` repeats the reads of
  `get_report` and formats. `list_reports`, the dashboard and the pages:
  independent reads and rendering. The query cache of the pages.
* Logging, schemas, manifests: no state.
* Isolation levels: PostgreSQL's default, read committed, is modelled; every
  statement reads what is committed when it runs.

## Plan

Written: all modules above, with proofs of every safety property and of both
refinements.

Next, in this order:

1. VMs of one name in `Remediation`, where a rule names them.
2. The audit row with the login in `Accounts`, `change_password`, and the
   upload of the logo against a process that stops.

---------------------------- MODULE AnalysisRuns ----------------------------
(* The life of analysis runs: operators manage vCenter connections and     *)
(* trigger analyses, every process's scheduler sweeps the active           *)
(* connections, background tasks execute the runs, readers fetch reports,  *)
(* and processes crash.  The database is shared; each action is what one   *)
(* process does between two commits, or between two statements whose       *)
(* separation another process can observe.                                 *)
EXTENDS Naturals, FiniteSets

CONSTANTS VCenters,     \* rows vcenter_connections may ever hold
          Runs,         \* rows analysis_runs may ever hold (ids are not reused)
          Procs,        \* operating-system processes: uvicorn workers, worker.py
          Threads,      \* request-serving threads of the API processes
          Host,         \* Threads -> Procs
          Kinds,        \* analysis types requested, of "drs", "storage", "full"
          None

ASSUME HostAssumption == Host \in [Threads -> Procs]
ASSUME KindsAssumption == Kinds \subseteq {"drs", "storage", "full"} /\ "full" \in Kinds
ASSUME NoneAssumption == None \notin VCenters \cup Runs \cup Kinds

VARIABLES conns,        \* table vcenter_connections: existence and is_active
          runs,         \* table analysis_runs with its analysis_findings
          task,         \* the execution of each run, in a process's memory
          req,          \* the request each thread is serving
          sweep         \* the scheduled sweep each process is making

vars == <<conns, runs, task, req, sweep>>

Sections == {"drs", "storage"}
Statuses == {"none", "running", "completed", "failed"}

\* The engine's analyses selected by analysis_type: the sections of findings.
SectionsOf(k) == IF k = "full" THEN Sections ELSE {k}

\* The sections whose totals AnalysisRun.summary carries.  A triggered run
\* always writes the DRS totals; a scheduled one asks the DRS result for a
\* "summary" key the engine never sets, and stores {}.
TotalsOf(by, k) == IF by = "sweep" THEN {"storage"}
                                   ELSE {"drs"} \cup (SectionsOf(k) \cap {"storage"})

Idle == [op |-> "idle"]

ConnStates == {"unused", "active", "inactive", "deleted"}
RunRows == [status : Statuses, vcenter : VCenters \cup {None},
            kind : Kinds \cup {None}, report : SUBSET Sections,
            totals : SUBSET Sections]
Tasks == [pc : {"none", "queued", "scan", "commit", "done", "lost"},
          proc : Procs \cup {None}, by : {"api", "sweep"},
          vcenter : VCenters \cup {None}, outcome : {"none", "completed", "failed"}]
Requests == {Idle}
   \cup [op : {"trigger"}, vcenter : VCenters, kind : Kinds]
   \cup [op : {"delete"}, vcenter : VCenters, seen : SUBSET Runs]
   \cup [op : {"report"}, run : Runs, status : Statuses]
   \cup [op : {"answered"}, run : Runs, status : Statuses, report : SUBSET Sections]
Sweeps == [todo : SUBSET VCenters, run : Runs \cup {None}]

TypeOK ==
  /\ conns \in [VCenters -> ConnStates]
  /\ runs \in [Runs -> RunRows]
  /\ task \in [Runs -> Tasks]
  /\ req \in [Threads -> Requests]
  /\ sweep \in [Procs -> Sweeps]

NoRow   == [status |-> "none", vcenter |-> None, kind |-> None,
            report |-> {}, totals |-> {}]
NoTask  == [pc |-> "none", proc |-> None, by |-> "api", vcenter |-> None,
            outcome |-> "none"]
NoSweep == [todo |-> {}, run |-> None]

Init ==
  /\ conns = [v \in VCenters |-> "unused"]
  /\ runs = [r \in Runs |-> NoRow]
  /\ task = [r \in Runs |-> NoTask]
  /\ req = [t \in Threads |-> Idle]
  /\ sweep = [p \in Procs |-> NoSweep]

Exists(v) == conns[v] \in {"active", "inactive"}
Live(r)   == task[r].pc \in {"queued", "scan", "commit"}
-----------------------------------------------------------------------------
(* Connections *)

AddVcenter(v) ==
  /\ conns[v] = "unused"
  /\ conns' = [conns EXCEPT ![v] = "active"]
  /\ UNCHANGED <<runs, task, req, sweep>>

\* Only is_active matters here; the other columns are opaque to the run.
UpdateVcenter(v, a) ==
  /\ Exists(v)
  /\ conns' = [conns EXCEPT ![v] = a]
  /\ UNCHANGED <<runs, task, req, sweep>>

\* delete_vcenter, first half: the ORM loads the connection and the runs that
\* reference it, to detach them.
DeleteLoad(t, v) ==
  /\ req[t] = Idle
  /\ Exists(v)
  /\ req' = [req EXCEPT ![t] = [op |-> "delete", vcenter |-> v,
                                seen |-> {r \in Runs : runs[r].vcenter = v}]]
  /\ UNCHANGED <<conns, runs, task, sweep>>

DeleteCommitUnchecked(t) ==     \* mutant: runs inserted since are not seen
  /\ req[t].op = "delete"
  /\ req' = [req EXCEPT ![t] = Idle]
  /\ conns' = [conns EXCEPT ![req[t].vcenter] = "deleted"]
  /\ runs' = [r \in Runs |-> IF r \in req[t].seen
                             THEN [runs[r] EXCEPT !.vcenter = None] ELSE runs[r]]
  /\ UNCHANGED <<task, sweep>>

DeleteCommitCascade(t) ==       \* mutant: cascade="all, delete-orphan"
  /\ req[t].op = "delete"
  /\ req' = [req EXCEPT ![t] = Idle]
  /\ conns' = [conns EXCEPT ![req[t].vcenter] = "deleted"]
  /\ runs' = [r \in Runs |-> IF runs[r].vcenter = req[t].vcenter THEN NoRow ELSE runs[r]]
  /\ UNCHANGED <<task, sweep>>

\* Second half, the flush: the loaded runs lose their reference and the row is
\* deleted.  A run inserted since the load still references it, so the foreign
\* key refuses the transaction; deleting a row already gone changes nothing.
DeleteCommit(t) ==
  /\ req[t].op = "delete"
  /\ req' = [req EXCEPT ![t] = Idle]
  /\ LET v == req[t].vcenter
         left == {r \in Runs : runs[r].vcenter = v} \ req[t].seen
     IN IF Exists(v) /\ left = {}
        THEN /\ conns' = [conns EXCEPT ![v] = "deleted"]
             /\ runs' = [r \in Runs |-> IF r \in req[t].seen
                                        THEN [runs[r] EXCEPT !.vcenter = None]
                                        ELSE runs[r]]
        ELSE UNCHANGED <<conns, runs>>
  /\ UNCHANGED <<task, sweep>>
-----------------------------------------------------------------------------
(* Triggering a run *)

InsertPending(r, v, k, p, by, pc) ==    \* mutant: the column's default status
  /\ runs[r].status = "none"
  /\ runs' = [runs EXCEPT ![r] = [NoRow EXCEPT !.status = "pending",
                                  !.vcenter = v, !.kind = k]]
  /\ task' = [task EXCEPT ![r] = [pc |-> pc, proc |-> p, by |-> by,
                                  vcenter |-> v, outcome |-> "none"]]

\* The row of run r as trigger_analysis and the sweep insert it.
Insert(r, v, k, p, by, pc) ==
  /\ runs[r].status = "none"
  /\ runs' = [runs EXCEPT ![r] = [NoRow EXCEPT !.status = "running",
                                  !.vcenter = v, !.kind = k]]
  /\ task' = [task EXCEPT ![r] = [pc |-> pc, proc |-> p, by |-> by,
                                  vcenter |-> v, outcome |-> "none"]]

\* trigger_analysis finds the connection present and active (404 otherwise).
TriggerCheck(t, v, k) ==
  /\ req[t] = Idle
  /\ conns[v] = "active"
  /\ req' = [req EXCEPT ![t] = [op |-> "trigger", vcenter |-> v, kind |-> k]]
  /\ UNCHANGED <<conns, runs, task, sweep>>

\* It inserts the run, whatever became of is_active since the check, and hands
\* it to a background task of this process.  If the refresh after the commit
\* fails the request ends in a 500 with no task behind the committed row.
TriggerCommit(t, r, pc) ==
  /\ req[t].op = "trigger"
  /\ Exists(req[t].vcenter)
  /\ Insert(r, req[t].vcenter, req[t].kind, Host[t], "api", pc)
  /\ req' = [req EXCEPT ![t] = Idle]
  /\ UNCHANGED <<conns, sweep>>

\* The insert fails: the connection is gone (foreign key), or the database is.
TriggerFails(t) ==
  /\ req[t].op = "trigger"
  /\ req' = [req EXCEPT ![t] = Idle]
  /\ UNCHANGED <<conns, runs, task, sweep>>
-----------------------------------------------------------------------------
(* Reading a report: the run's row, then its findings, in two statements *)

ReportRun(t, r) ==
  /\ req[t] = Idle
  /\ runs[r].status # "none"
  /\ req' = [req EXCEPT ![t] = [op |-> "report", run |-> r,
                                status |-> runs[r].status]]
  /\ UNCHANGED <<conns, runs, task, sweep>>

ReportFindings(t) ==
  /\ req[t].op = "report"
  /\ req' = [req EXCEPT ![t] = [op |-> "answered", run |-> req[t].run,
                                status |-> req[t].status,
                                report |-> runs[req[t].run].report]]
  /\ UNCHANGED <<conns, runs, task, sweep>>

ReportSent(t) ==
  /\ req[t].op = "answered"
  /\ req' = [req EXCEPT ![t] = Idle]
  /\ UNCHANGED <<conns, runs, task, sweep>>
-----------------------------------------------------------------------------
(* The scheduled sweep of a process *)

TickOverlapping(p) ==           \* mutant: no max_instances
  /\ sweep' = [sweep EXCEPT ![p].todo = {v \in VCenters : conns[v] = "active"}]
  /\ UNCHANGED <<conns, runs, task, req>>

\* The cron trigger fires; APScheduler runs one instance of the job per
\* process.  The active connections are read once, in no given order.
Tick(p) ==
  /\ sweep[p] = NoSweep
  /\ sweep' = [sweep EXCEPT ![p].todo = {v \in VCenters : conns[v] = "active"}]
  /\ UNCHANGED <<conns, runs, task, req>>

\* The loop inserts the run of its next connection, even a deactivated one.
\* If the refresh after the commit fails the job ends with the row inserted.
SweepOpen(p, v, r, pc) ==
  /\ sweep[p].run = None
  /\ v \in sweep[p].todo
  /\ Exists(v)
  /\ Insert(r, v, "full", p, "sweep", pc)
  /\ sweep' = [sweep EXCEPT ![p] = IF pc = "lost" THEN NoSweep
                                   ELSE [todo |-> @.todo \ {v}, run |-> r]]
  /\ UNCHANGED <<conns, req>>

\* The connection is gone, or the insert fails: the exception leaves the loop
\* and with it the connections not yet analysed.
SweepOpenFails(p) ==
  /\ sweep[p].run = None
  /\ sweep[p].todo # {}
  /\ sweep' = [sweep EXCEPT ![p] = NoSweep]
  /\ UNCHANGED <<conns, runs, task, req>>
-----------------------------------------------------------------------------
(* Executing a run *)

\* The sweep of the run's process goes on to its next connection ...
SweepGoesOn(r) == sweep' = [p \in Procs |-> IF sweep[p].run = r
                              THEN [sweep[p] EXCEPT !.run = None] ELSE sweep[p]]
\* ... or ends, because an exception left the loop.
SweepStops(r) == sweep' = [p \in Procs |-> IF sweep[p].run = r
                             THEN NoSweep ELSE sweep[p]]

\* _do_analysis reads the connection its request named, or the loop re-reads
\* its own after the commit expired it.
Start(r) ==
  /\ task[r].pc = "queued"
  /\ Exists(task[r].vcenter)
  /\ task' = [task EXCEPT ![r].pc = "scan"]
  /\ UNCHANGED <<conns, runs, req, sweep>>

StartOrphanedReturns(r) ==      \* mutant: `if not conn: return`
  /\ task[r].pc = "queued"
  /\ task[r].by = "api"
  /\ ~Exists(task[r].vcenter)
  /\ task' = [task EXCEPT ![r].pc = "done"]
  /\ UNCHANGED <<conns, runs, req, sweep>>

\* With the connection deleted, a triggered run fails (conn is None inside the
\* try) ...
StartOrphaned(r) ==
  /\ task[r].pc = "queued"
  /\ task[r].by = "api"
  /\ ~Exists(task[r].vcenter)
  /\ task' = [task EXCEPT ![r].pc = "commit", ![r].outcome = "failed"]
  /\ UNCHANGED <<conns, runs, req, sweep>>

\* ... but a scheduled run is lost: the handler reads conn.name for its log
\* line, which raises again, out of the loop and before the commit.
SweepOrphaned(r) ==
  /\ task[r].pc = "queued"
  /\ task[r].by = "sweep"
  /\ ~Exists(task[r].vcenter)
  /\ task' = [task EXCEPT ![r].pc = "lost"]
  /\ SweepStops(r)
  /\ UNCHANGED <<conns, runs, req>>

ScanPublishes(r, o) ==          \* mutant: the DRS findings are committed first
  /\ task[r].pc = "scan"
  /\ task' = [task EXCEPT ![r].pc = "commit", ![r].outcome = o]
  /\ runs' = [runs EXCEPT ![r].report = SectionsOf(runs[r].kind) \cap {"drs"}]
  /\ UNCHANGED <<conns, req, sweep>>

ScanCompletes(r, o) ==          \* mutant: the status is committed first
  /\ task[r].pc = "scan"
  /\ task' = [task EXCEPT ![r].pc = "commit", ![r].outcome = o]
  /\ runs' = [runs EXCEPT ![r].status = o]
  /\ UNCHANGED <<conns, req, sweep>>

\* The vCenter answers and the engine analyses the inventory, or anything in
\* between raises.  Findings and status wait in the session.
Scan(r, o) ==
  /\ task[r].pc = "scan"
  /\ task' = [task EXCEPT ![r].pc = "commit", ![r].outcome = o]
  /\ UNCHANGED <<conns, runs, req, sweep>>

CommitStopsSweep(r) ==          \* mutant: a failed run ends the sweep
  /\ task[r].pc = "commit"
  /\ runs' = [runs EXCEPT ![r].status = task[r].outcome]
  /\ task' = [task EXCEPT ![r].pc = "done"]
  /\ IF task[r].outcome = "failed" THEN SweepStops(r) ELSE SweepGoesOn(r)
  /\ UNCHANGED <<conns, req>>

CommitKeepsSweep(r) ==          \* mutant: the loop waits for a completed run
  /\ task[r].pc = "commit"
  /\ runs' = [runs EXCEPT ![r].status = task[r].outcome]
  /\ task' = [task EXCEPT ![r].pc = "done"]
  /\ IF task[r].outcome = "failed" THEN UNCHANGED sweep ELSE SweepGoesOn(r)
  /\ UNCHANGED <<conns, req>>

\* One commit writes the findings, the status and the summary.
Commit(r) ==
  /\ task[r].pc = "commit"
  /\ runs' = [runs EXCEPT ![r].status = task[r].outcome,
                ![r].report = IF task[r].outcome = "completed"
                              THEN SectionsOf(runs[r].kind) ELSE {},
                ![r].totals = IF task[r].outcome = "completed"
                              THEN TotalsOf(task[r].by, runs[r].kind) ELSE {}]
  /\ task' = [task EXCEPT ![r].pc = "done"]
  /\ SweepGoesOn(r)
  /\ UNCHANGED <<conns, req>>

\* The first reads and the commit are outside the try: when one fails, for want
\* of a database connection say, the transaction is rolled back and nobody
\* writes the run again.  A sweep ends with it, its handler raising in turn.
Lose(r) ==
  /\ task[r].pc \in {"queued", "commit"}
  /\ task' = [task EXCEPT ![r].pc = "lost"]
  /\ SweepStops(r)
  /\ UNCHANGED <<conns, runs, req>>
-----------------------------------------------------------------------------
\* A process dies and restarts.  Its tasks, requests and sweep are gone; no
\* startup step looks at the runs they leave behind.
Crash(p) ==
  /\ task' = [r \in Runs |-> IF task[r].proc = p /\ Live(r)
                             THEN [task[r] EXCEPT !.pc = "lost"] ELSE task[r]]
  /\ req' = [t \in Threads |-> IF Host[t] = p THEN Idle ELSE req[t]]
  /\ sweep' = [sweep EXCEPT ![p] = NoSweep]
  /\ UNCHANGED <<conns, runs>>

Request(t) ==
  \/ \E v \in VCenters : \/ DeleteLoad(t, v)
                         \/ \E k \in Kinds : TriggerCheck(t, v, k)
  \/ DeleteCommit(t)
  \/ \E r \in Runs : \/ \E pc \in {"queued", "lost"} : TriggerCommit(t, r, pc)
                     \/ ReportRun(t, r)
  \/ TriggerFails(t)
  \/ ReportFindings(t)
  \/ ReportSent(t)

SweepStep(p) ==
  \/ \E v \in VCenters, r \in Runs, pc \in {"queued", "lost"} : SweepOpen(p, v, r, pc)
  \/ SweepOpenFails(p)

Begin(r)  == Start(r) \/ StartOrphaned(r) \/ SweepOrphaned(r)
Answer(r) == \E o \in {"completed", "failed"} : Scan(r, o)
Settle(r) == Commit(r) \/ Lose(r)

Next ==
  \/ \E v \in VCenters : \/ AddVcenter(v)
                         \/ \E a \in {"active", "inactive"} : UpdateVcenter(v, a)
  \/ \E t \in Threads : Request(t)
  \/ \E p \in Procs : Tick(p) \/ SweepStep(p) \/ Crash(p)
  \/ \E r \in Runs : Begin(r) \/ Answer(r) \/ Settle(r)

Spec == Init /\ [][Next]_vars

\* The thread pool and the scheduler run what they were given; nothing in the
\* code makes a vCenter answer.
Fairness == /\ \A r \in Runs : WF_vars(Begin(r)) /\ WF_vars(Settle(r))
            /\ \A p \in Procs : WF_vars(SweepStep(p))
FairSpec == Spec /\ Fairness

\* As FairSpec, in an environment where every vCenter answers or refuses.
LiveSpec == FairSpec /\ \A r \in Runs : WF_vars(Answer(r))
-----------------------------------------------------------------------------
(* Safety *)

\* A run is "running" exactly while a task is executing it or has been lost:
\* no path through the handlers, the sweep or a crash leaves a settled run
\* with a task, or an unsettled one that was executed to its end.
Ownership == \A r \in Runs :
  /\ runs[r].status = "none" <=> task[r].pc = "none"
  /\ runs[r].status = "running" <=> task[r].pc \in {"queued", "scan", "commit", "lost"}
  /\ task[r].pc = "done" => runs[r].status = task[r].outcome

\* Findings become visible with the status "completed" and only then: all
\* sections the kind asks for, and none for any other status.
AtomicPublication == \A r \in Runs :
  runs[r].report = IF runs[r].status = "completed" THEN SectionsOf(runs[r].kind) ELSE {}

\* A run keeps pointing to the connection it was made for as long as that
\* connection exists, and to none once it is deleted, whatever inserts and
\* deletes are in flight.
Attribution == \A r \in Runs : runs[r].status # "none" =>
  /\ conns[task[r].vcenter] # "unused"
  /\ runs[r].vcenter = IF Exists(task[r].vcenter) THEN task[r].vcenter ELSE None

\* A process's sweep executes at most one run, on a connection it no longer
\* has before it: no connection is analysed twice by one sweep.
SweepExclusive == \A r \in Runs : Live(r) /\ task[r].by = "sweep" =>
  /\ sweep[task[r].proc].run = r
  /\ task[r].vcenter \notin sweep[task[r].proc].todo

\* A report answered with status "completed" holds every finding of the run,
\* though row and findings are read by two statements.  (One answered with
\* "running" may hold findings: the commit can fall between the two.)
AnsweredReportIsWhole == \A t \in Threads :
  req[t].op = "answered" /\ req[t].status = "completed" =>
    req[t].report = SectionsOf(runs[req[t].run].kind)

\* Nothing but the detachment of its connection ever changes the row of a
\* settled run, nor that of a lost one: it says "running" for ever.
TerminalStable == [][\A r \in Runs : task[r].pc \in {"done", "lost"} =>
                       runs'[r] = [runs[r] EXCEPT !.vcenter = runs'[r].vcenter]]_vars

\* A run that fails costs a sweep nothing: recording the failure leaves every
\* process the connections it has yet to analyse.
FailureIsolated == [][(\E r \in Runs : runs[r].status # "failed" /\ runs'[r].status = "failed")
                        => \A p \in Procs : sweep'[p].todo = sweep[p].todo]_vars

\* The strengthening that makes the invariants above inductive: what a started
\* task knows, which runs a delete in flight may hold, and that a reader who
\* saw "completed" reads a run that is.
TasksKnow == \A r \in Runs :
  /\ task[r].pc = "none" => runs[r] = NoRow
  /\ task[r].pc # "none" => /\ task[r].vcenter \in VCenters
                            /\ task[r].proc \in Procs
                            /\ runs[r].kind \in Kinds
  /\ task[r].pc = "commit" => task[r].outcome # "none"

DeletesHold == \A t \in Threads : req[t].op = "delete" =>
  /\ conns[req[t].vcenter] # "unused"
  /\ \A r \in req[t].seen : task[r].pc # "none" /\ task[r].vcenter = req[t].vcenter

ReadersTrail == \A t \in Threads :
  req[t].op \in {"report", "answered"} /\ req[t].status = "completed" =>
    runs[req[t].run].status = "completed"

IInv == /\ TypeOK
        /\ Ownership
        /\ AtomicPublication
        /\ Attribution
        /\ SweepExclusive
        /\ AnsweredReportIsWhole
        /\ TasksKnow
        /\ DeletesHold
        /\ ReadersTrail

\* What the abstract lifecycle sees of the table.
LifecycleView == [r \in Runs |-> [status |-> runs[r].status, kind |-> runs[r].kind,
                                  report |-> runs[r].report]]
Lifecycle == INSTANCE RunLifecycle WITH run <- LifecycleView

\* Every execution is one of the abstract lifecycle.
RefinesLifecycle == Lifecycle!Spec
-----------------------------------------------------------------------------
(* Liveness, under LiveSpec *)

\* Every run is settled in the database, or its task has been lost to a crash,
\* a failed commit or a deleted connection.
RunsSettleOrLost == \A r \in Runs : runs[r].status = "running" ~>
  \/ runs[r].status \in {"completed", "failed"}
  \/ task[r].pc = "lost"

\* A sweep ends, so that the next tick of its process is not skipped.
SweepsEnd == \A p \in Procs : sweep[p] # NoSweep ~> sweep[p] = NoSweep
=============================================================================

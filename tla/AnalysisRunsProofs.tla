------------------------- MODULE AnalysisRunsProofs -------------------------
(* Theorems of AnalysisRuns, for any number of connections, runs, processes *)
(* and request threads.                                                     *)
EXTENDS AnalysisRuns, TLAPS

\* What the operation of a request says of its other fields.
LEMMA RequestTypes ==
  ASSUME TypeOK, NEW t \in Threads
  PROVE  /\ req[t].op \in {"idle", "trigger", "delete", "report", "answered"}
         /\ req[t].op = "trigger" => req[t].vcenter \in VCenters /\ req[t].kind \in Kinds
         /\ req[t].op = "delete" => req[t].vcenter \in VCenters /\ req[t].seen \subseteq Runs
         /\ req[t].op \in {"report", "answered"} =>
              req[t].run \in Runs /\ req[t].status \in Statuses
  BY DEF TypeOK, Requests, Idle

\* Every action of AnalysisRuns keeps the types of the variables it writes.
LEMMA TypeStep == TypeOK /\ TasksKnow /\ [Next]_vars => TypeOK'
<1> SUFFICES ASSUME TypeOK, TasksKnow, [Next]_vars PROVE TypeOK'
  OBVIOUS
<1>1. ASSUME NEW v \in VCenters, AddVcenter(v)
      PROVE  TypeOK'
  <2>1. conns' \in [VCenters -> ConnStates]
    BY <1>1 DEF TypeOK, AddVcenter, ConnStates
  <2> QED
    BY <1>1, <2>1 DEF TypeOK, AddVcenter
<1>2. ASSUME NEW v \in VCenters, NEW a \in {"active", "inactive"}, UpdateVcenter(v, a)
      PROVE  TypeOK'
  <2>1. conns' \in [VCenters -> ConnStates]
    BY <1>2 DEF TypeOK, UpdateVcenter, ConnStates
  <2> QED
    BY <1>2, <2>1 DEF TypeOK, UpdateVcenter
<1>3. ASSUME NEW t \in Threads, NEW v \in VCenters, DeleteLoad(t, v)
      PROVE  TypeOK'
  <2>1. req' \in [Threads -> Requests]
    BY <1>3 DEF TypeOK, DeleteLoad, Requests
  <2> QED
    BY <1>3, <2>1 DEF TypeOK, DeleteLoad
<1>4. ASSUME NEW t \in Threads, DeleteCommit(t)
      PROVE  TypeOK'
  <2>1. conns' \in [VCenters -> ConnStates]
    BY <1>4 DEF TypeOK, DeleteCommit, ConnStates, Requests, Idle
  <2>2. runs' \in [Runs -> RunRows]
    <3>1. \A x \in RunRows : [x EXCEPT !.vcenter = None] \in RunRows
      BY DEF RunRows
    <3> QED
      BY <1>4, <3>1 DEF TypeOK, DeleteCommit
  <2>3. req' \in [Threads -> Requests]
    BY <1>4 DEF TypeOK, DeleteCommit, Requests
  <2> QED
    BY <1>4, <2>1, <2>2, <2>3 DEF TypeOK, DeleteCommit
<1>5. ASSUME NEW t \in Threads, NEW v \in VCenters, NEW k \in Kinds, TriggerCheck(t, v, k)
      PROVE  TypeOK'
  <2>1. req' \in [Threads -> Requests]
    BY <1>5 DEF TypeOK, TriggerCheck, Requests
  <2> QED
    BY <1>5, <2>1 DEF TypeOK, TriggerCheck
<1>6. ASSUME NEW t \in Threads, NEW r \in Runs,
            NEW pc \in {"queued", "lost"}, TriggerCommit(t, r, pc)
      PROVE  TypeOK'
  <2>0. req[t].vcenter \in VCenters /\ req[t].kind \in Kinds
    BY <1>6, RequestTypes DEF TriggerCommit
  <2>1. runs' \in [Runs -> RunRows]
    BY <1>6, <2>0 DEF TypeOK, TriggerCommit, Insert, NoRow, RunRows, Statuses
  <2>2. task' \in [Runs -> Tasks]
    BY <1>6, <2>0, HostAssumption DEF TypeOK, TriggerCommit, Insert, Tasks
  <2>3. req' \in [Threads -> Requests]
    BY <1>6 DEF TypeOK, TriggerCommit, Requests
  <2> QED
    BY <1>6, <2>1, <2>2, <2>3 DEF TypeOK, TriggerCommit, Insert
<1>7. ASSUME NEW t \in Threads, TriggerFails(t)
      PROVE  TypeOK'
  <2>1. req' \in [Threads -> Requests]
    BY <1>7 DEF TypeOK, TriggerFails, Requests
  <2> QED
    BY <1>7, <2>1 DEF TypeOK, TriggerFails
<1>8. ASSUME NEW t \in Threads, NEW r \in Runs, ReportRun(t, r)
      PROVE  TypeOK'
  <2>1. req' \in [Threads -> Requests]
    BY <1>8 DEF TypeOK, ReportRun, Requests, RunRows
  <2> QED
    BY <1>8, <2>1 DEF TypeOK, ReportRun
<1>9. ASSUME NEW t \in Threads, ReportFindings(t)
      PROVE  TypeOK'
  <2>1. req' \in [Threads -> Requests]
    BY <1>9 DEF TypeOK, ReportFindings, Requests, RunRows, Idle
  <2> QED
    BY <1>9, <2>1 DEF TypeOK, ReportFindings
<1>10. ASSUME NEW t \in Threads, ReportSent(t)
      PROVE  TypeOK'
  <2>1. req' \in [Threads -> Requests]
    BY <1>10 DEF TypeOK, ReportSent, Requests
  <2> QED
    BY <1>10, <2>1 DEF TypeOK, ReportSent
<1>11. ASSUME NEW p \in Procs, Tick(p)
      PROVE  TypeOK'
  <2>1. sweep' \in [Procs -> Sweeps]
    BY <1>11 DEF TypeOK, Tick, Sweeps
  <2> QED
    BY <1>11, <2>1 DEF TypeOK, Tick
<1>12. ASSUME NEW p \in Procs, NEW v \in VCenters, NEW r \in Runs,
            NEW pc \in {"queued", "lost"}, SweepOpen(p, v, r, pc)
      PROVE  TypeOK'
  <2>1. runs' \in [Runs -> RunRows]
    BY <1>12, KindsAssumption DEF TypeOK, SweepOpen, Insert, NoRow, RunRows, Statuses
  <2>2. task' \in [Runs -> Tasks]
    BY <1>12, KindsAssumption DEF TypeOK, SweepOpen, Insert, Tasks
  <2>3. sweep' \in [Procs -> Sweeps]
    BY <1>12, KindsAssumption DEF TypeOK, SweepOpen, Sweeps, NoSweep
  <2> QED
    BY <1>12, <2>1, <2>2, <2>3 DEF TypeOK, SweepOpen, Insert
<1>13. ASSUME NEW p \in Procs, SweepOpenFails(p)
      PROVE  TypeOK'
  <2>1. sweep' \in [Procs -> Sweeps]
    BY <1>13 DEF TypeOK, SweepOpenFails, Sweeps, NoSweep
  <2> QED
    BY <1>13, <2>1 DEF TypeOK, SweepOpenFails
<1>14. ASSUME NEW r \in Runs, Start(r)
      PROVE  TypeOK'
  <2>1. task' \in [Runs -> Tasks]
    BY <1>14 DEF TypeOK, Start, Tasks
  <2> QED
    BY <1>14, <2>1 DEF TypeOK, Start
<1>15. ASSUME NEW r \in Runs, StartOrphaned(r)
      PROVE  TypeOK'
  <2>1. task' \in [Runs -> Tasks]
    <3>1. [task[r] EXCEPT !.pc = "commit", !.outcome = "failed"] \in Tasks
      BY DEF TypeOK, Tasks
    <3>2. task' = [task EXCEPT ![r] = [task[r] EXCEPT !.pc = "commit",
                                                      !.outcome = "failed"]]
      BY <1>15 DEF TypeOK, StartOrphaned, Tasks
    <3> QED
      BY <3>1, <3>2 DEF TypeOK
  <2> QED
    BY <1>15, <2>1 DEF TypeOK, StartOrphaned
<1>16. ASSUME NEW r \in Runs, SweepOrphaned(r)
      PROVE  TypeOK'
  <2>1. task' \in [Runs -> Tasks]
    BY <1>16 DEF TypeOK, SweepOrphaned, Tasks
  <2>2. sweep' \in [Procs -> Sweeps]
    BY <1>16 DEF TypeOK, SweepOrphaned, SweepStops, Sweeps, NoSweep
  <2> QED
    BY <1>16, <2>1, <2>2 DEF TypeOK, SweepOrphaned
<1>17. ASSUME NEW r \in Runs, NEW o \in {"completed", "failed"}, Scan(r, o)
      PROVE  TypeOK'
  <2>1. task' \in [Runs -> Tasks]
    BY <1>17 DEF TypeOK, Scan, Tasks
  <2> QED
    BY <1>17, <2>1 DEF TypeOK, Scan
<1>18. ASSUME NEW r \in Runs, Commit(r)
      PROVE  TypeOK'
  <2>1. runs' \in [Runs -> RunRows]
    <3> DEFINE row == [runs[r] EXCEPT !.status = task[r].outcome,
                         !.report = IF task[r].outcome = "completed"
                                    THEN SectionsOf(runs[r].kind) ELSE {},
                         !.totals = IF task[r].outcome = "completed"
                                    THEN TotalsOf(task[r].by, runs[r].kind) ELSE {}]
    <3>1. task[r].outcome \in Statuses
      BY DEF TypeOK, Tasks, Statuses
    <3>2. SectionsOf(runs[r].kind) \subseteq Sections
      BY <1>18, KindsAssumption DEF TasksKnow, Commit, SectionsOf, Sections
    <3>3. TotalsOf(task[r].by, runs[r].kind) \subseteq Sections
      BY DEF TotalsOf, Sections
    <3>4. row \in RunRows
      BY <3>1, <3>2, <3>3 DEF TypeOK, RunRows
    <3>5. runs' = [runs EXCEPT ![r] = row]
      BY <1>18 DEF Commit, TypeOK, RunRows
    <3> QED
      BY <3>4, <3>5 DEF TypeOK
  <2>2. task' \in [Runs -> Tasks]
    BY <1>18 DEF TypeOK, Commit, Tasks
  <2>3. sweep' \in [Procs -> Sweeps]
    BY <1>18 DEF TypeOK, Commit, SweepGoesOn, Sweeps
  <2> QED
    BY <1>18, <2>1, <2>2, <2>3 DEF TypeOK, Commit
<1>19. ASSUME NEW r \in Runs, Lose(r)
      PROVE  TypeOK'
  <2>1. task' \in [Runs -> Tasks]
    BY <1>19 DEF TypeOK, Lose, Tasks
  <2>2. sweep' \in [Procs -> Sweeps]
    BY <1>19 DEF TypeOK, Lose, SweepStops, Sweeps, NoSweep
  <2> QED
    BY <1>19, <2>1, <2>2 DEF TypeOK, Lose
<1>20. ASSUME NEW p \in Procs, Crash(p)
      PROVE  TypeOK'
  <2>1. task' \in [Runs -> Tasks]
    BY <1>20 DEF TypeOK, Crash, Tasks
  <2>2. req' \in [Threads -> Requests]
    BY <1>20 DEF TypeOK, Crash, Requests
  <2>3. sweep' \in [Procs -> Sweeps]
    BY <1>20 DEF TypeOK, Crash, Sweeps, NoSweep
  <2> QED
    BY <1>20, <2>1, <2>2, <2>3 DEF TypeOK, Crash
<1>21. CASE UNCHANGED vars
  BY <1>21 DEF vars, TypeOK
<1> QED
  BY <1>1, <1>2, <1>3, <1>4, <1>5, <1>6, <1>7, <1>8, <1>9, <1>10, <1>11,
     <1>12, <1>13, <1>14, <1>15, <1>16, <1>17, <1>18, <1>19, <1>20, <1>21
  DEF Next, Request, SweepStep, Begin, Answer, Settle


\* Every action preserves the inductive invariant.
LEMMA Inductive == IInv /\ [Next]_vars => IInv'
<1> SUFFICES ASSUME IInv, [Next]_vars PROVE IInv'
  OBVIOUS
<1>0. TypeOK'
  BY TypeStep DEF IInv
<1>1. ASSUME NEW v \in VCenters, AddVcenter(v)
      PROVE  IInv'
  <2>1. Attribution'
    BY <1>1 DEF IInv, TypeOK, RunRows, Tasks, Sweeps, Statuses, AddVcenter,
       Attribution, Ownership, TasksKnow, Exists
  <2>2. DeletesHold'
    BY <1>1, RequestTypes DEF IInv, TypeOK, RunRows, Tasks, Sweeps, Statuses,
       AddVcenter, DeletesHold, Attribution, Ownership
  <2> QED
    BY <1>1, <1>0, <2>1, <2>2 DEF IInv, AddVcenter, Ownership,
       AtomicPublication, SweepExclusive, AnsweredReportIsWhole, TasksKnow,
       ReadersTrail, Live
<1>2. ASSUME NEW v \in VCenters, NEW a \in {"active", "inactive"}, UpdateVcenter(v, a)
      PROVE  IInv'
  <2>1. Attribution'
    BY <1>2 DEF IInv, TypeOK, RunRows, Tasks, Sweeps, Statuses, UpdateVcenter,
       Attribution, Ownership, TasksKnow, Exists
  <2>2. DeletesHold'
    BY <1>2, RequestTypes DEF IInv, TypeOK, RunRows, Tasks, Sweeps, Statuses,
       UpdateVcenter, DeletesHold, Attribution, Ownership, Exists
  <2> QED
    BY <1>2, <1>0, <2>1, <2>2 DEF IInv, UpdateVcenter, Ownership,
       AtomicPublication, SweepExclusive, AnsweredReportIsWhole, TasksKnow,
       ReadersTrail, Live
<1>3. ASSUME NEW t \in Threads, NEW v \in VCenters, DeleteLoad(t, v)
      PROVE  IInv'
  <2>1. AnsweredReportIsWhole'
    BY <1>3, RequestTypes DEF IInv, TypeOK, RunRows, Tasks, Sweeps, Statuses,
       DeleteLoad, AnsweredReportIsWhole, ReadersTrail, AtomicPublication,
       Exists
  <2>2. DeletesHold'
    <3>1. \A r \in Runs : runs[r].vcenter = v =>
            task[r].pc # "none" /\ task[r].vcenter = v
      BY NoneAssumption DEF IInv, TasksKnow, NoRow, Ownership, Attribution
    <3> QED
      BY <1>3, <3>1 DEF IInv, TypeOK, DeleteLoad, DeletesHold, Exists
  <2>3. ReadersTrail'
    BY <1>3, RequestTypes DEF IInv, TypeOK, RunRows, Tasks, Sweeps, Statuses,
       DeleteLoad, ReadersTrail, Ownership, Exists
  <2> QED
    BY <1>3, <1>0, <2>1, <2>2, <2>3 DEF IInv, DeleteLoad, Ownership,
       AtomicPublication, Attribution, SweepExclusive, TasksKnow, Live, Exists
<1>4. ASSUME NEW t \in Threads, DeleteCommit(t)
      PROVE  IInv'
  <2>0. \A r \in Runs : /\ runs'[r].status = runs[r].status
                        /\ runs'[r].kind = runs[r].kind
                        /\ runs'[r].report = runs[r].report
    BY <1>4 DEF IInv, TypeOK, RunRows, DeleteCommit
  <2>1. Ownership'
    BY <1>4 DEF IInv, TypeOK, RunRows, Tasks, Sweeps, Statuses, DeleteCommit,
       Idle, Ownership, Exists
  <2>2. AtomicPublication'
    BY <2>0 DEF IInv, AtomicPublication
  <2>3. Attribution'
    <3> DEFINE v == req[t].vcenter
               left == {r \in Runs : runs[r].vcenter = v} \ req[t].seen
    <3>1. v \in VCenters /\ req[t].seen \subseteq Runs
      BY <1>4, RequestTypes DEF IInv, DeleteCommit
    <3>2. CASE Exists(v) /\ left = {}
      <4> SUFFICES ASSUME NEW r \in Runs, runs'[r].status # "none"
                   PROVE  /\ conns'[task[r].vcenter] # "unused"
                          /\ runs'[r].vcenter = IF Exists(task[r].vcenter)'
                                                THEN task[r].vcenter ELSE None
        BY <1>4 DEF DeleteCommit, Attribution
      <4>1. task[r].vcenter \in VCenters /\ runs[r].status # "none"
        BY <2>0 DEF IInv, Ownership, TasksKnow
      <4>2. conns' = [conns EXCEPT ![v] = "deleted"] /\ task' = task
        BY <1>4, <3>2 DEF DeleteCommit
      <4>3. CASE r \in req[t].seen
        <5>1. task[r].vcenter = v /\ runs'[r].vcenter = None
          BY <1>4, <3>2, <4>3 DEF IInv, TypeOK, RunRows, DeleteCommit, DeletesHold
        <5> QED
          BY <3>1, <4>2, <5>1 DEF IInv, TypeOK, Exists
      <4>4. CASE r \notin req[t].seen
        <5>1. runs'[r] = runs[r] /\ runs[r].vcenter # v
          BY <1>4, <3>2, <4>4 DEF DeleteCommit
        <5>2. /\ conns[task[r].vcenter] # "unused"
              /\ runs[r].vcenter = IF Exists(task[r].vcenter)
                                   THEN task[r].vcenter ELSE None
          BY <4>1 DEF IInv, Attribution
        <5>3. task[r].vcenter # v
          BY <3>2, <5>1, <5>2
        <5> QED
          BY <3>1, <4>1, <4>2, <5>1, <5>2, <5>3 DEF IInv, TypeOK, Exists
      <4> QED
        BY <4>3, <4>4
    <3>3. CASE ~(Exists(v) /\ left = {})
      BY <1>4, <3>3 DEF IInv, DeleteCommit, Attribution, Exists
    <3> QED
      BY <3>2, <3>3
  <2>4. AnsweredReportIsWhole'
    BY <1>4, <2>0, RequestTypes DEF IInv, TypeOK, DeleteCommit, Idle, AnsweredReportIsWhole
  <2>5. TasksKnow'
    <3>1. \A r \in Runs : task[r].pc = "none" => runs'[r] = runs[r]
      BY <1>4 DEF IInv, DeleteCommit, DeletesHold
    <3> QED
      BY <1>4, <2>0, <3>1 DEF IInv, DeleteCommit, TasksKnow
  <2>6. DeletesHold'
    BY <1>4, RequestTypes DEF IInv, TypeOK, RunRows, Tasks, Sweeps, Statuses,
       DeleteCommit, Idle, DeletesHold, Attribution, Ownership, Exists
  <2>7. ReadersTrail'
    BY <1>4, RequestTypes DEF IInv, TypeOK, RunRows, Tasks, Sweeps, Statuses,
       DeleteCommit, Idle, ReadersTrail, Ownership, Exists
  <2> QED
    BY <1>4, <1>0, <2>1, <2>2, <2>3, <2>4, <2>5, <2>6, <2>7 DEF IInv,
       DeleteCommit, SweepExclusive, Live
<1>5. ASSUME NEW t \in Threads, NEW v \in VCenters, NEW k \in Kinds, TriggerCheck(t, v, k)
      PROVE  IInv'
  <2>1. AnsweredReportIsWhole'
    BY <1>5, RequestTypes DEF IInv, TypeOK, RunRows, Tasks, Sweeps, Statuses,
       TriggerCheck, AnsweredReportIsWhole, ReadersTrail, AtomicPublication
  <2>2. DeletesHold'
    BY <1>5, RequestTypes DEF IInv, TypeOK, RunRows, Tasks, Sweeps, Statuses,
       TriggerCheck, DeletesHold, Attribution, Ownership
  <2>3. ReadersTrail'
    BY <1>5, RequestTypes DEF IInv, TypeOK, RunRows, Tasks, Sweeps, Statuses,
       TriggerCheck, ReadersTrail, Ownership
  <2> QED
    BY <1>5, <1>0, <2>1, <2>2, <2>3 DEF IInv, TriggerCheck, Ownership,
       AtomicPublication, Attribution, SweepExclusive, TasksKnow, Live, Exists
<1>6. ASSUME NEW t \in Threads, NEW r \in Runs,
            NEW pc \in {"queued", "lost"}, TriggerCommit(t, r, pc)
      PROVE  IInv'
  <2>1. Ownership'
    BY <1>6 DEF IInv, TypeOK, RunRows, Tasks, Sweeps, Statuses, TriggerCommit,
       Insert, NoRow, Idle, Ownership, Exists
  <2>2. AtomicPublication'
    BY <1>6 DEF IInv, TypeOK, RunRows, Tasks, Sweeps, Statuses, TriggerCommit,
       Insert, NoRow, Idle, AtomicPublication, Exists
  <2>3. Attribution'
    BY <1>6 DEF IInv, TypeOK, RunRows, Tasks, Sweeps, Statuses, TriggerCommit,
       Insert, NoRow, Idle, Attribution, Ownership, TasksKnow, Exists
  <2>4. SweepExclusive'
    BY <1>6 DEF IInv, TypeOK, RunRows, Tasks, Sweeps, Statuses, TriggerCommit,
       Insert, NoRow, Idle, SweepExclusive, TasksKnow, Exists, Live
  <2>5. AnsweredReportIsWhole'
    BY <1>6, RequestTypes DEF IInv, TypeOK, RunRows, Tasks, Sweeps, Statuses,
       TriggerCommit, Insert, NoRow, Idle, AnsweredReportIsWhole, ReadersTrail,
       AtomicPublication, Exists
  <2>6. TasksKnow'
    <3>1. Host[t] \in Procs /\ req[t].vcenter \in VCenters /\ req[t].kind \in Kinds
      BY <1>6, HostAssumption, RequestTypes DEF IInv, TriggerCommit
    <3> QED
      BY <1>6, <3>1 DEF IInv, TypeOK, RunRows, Tasks, TriggerCommit, Insert, NoRow, TasksKnow
  <2>7. DeletesHold'
    BY <1>6, RequestTypes DEF IInv, TypeOK, RunRows, Tasks, Sweeps, Statuses,
       TriggerCommit, Insert, NoRow, Idle, DeletesHold, Attribution, Ownership,
       Exists
  <2>8. ReadersTrail'
    BY <1>6, RequestTypes DEF IInv, TypeOK, RunRows, Tasks, Sweeps, Statuses,
       TriggerCommit, Insert, NoRow, Idle, ReadersTrail, Ownership, Exists
  <2> QED
    BY <1>6, <1>0, <2>1, <2>2, <2>3, <2>4, <2>5, <2>6, <2>7, <2>8 DEF IInv,
       TriggerCommit, Insert
<1>7. ASSUME NEW t \in Threads, TriggerFails(t)
      PROVE  IInv'
  <2>1. AnsweredReportIsWhole'
    BY <1>7, RequestTypes DEF IInv, TypeOK, RunRows, Tasks, Sweeps, Statuses,
       TriggerFails, Idle, AnsweredReportIsWhole, ReadersTrail,
       AtomicPublication
  <2>2. DeletesHold'
    BY <1>7, RequestTypes DEF IInv, TypeOK, RunRows, Tasks, Sweeps, Statuses,
       TriggerFails, Idle, DeletesHold, Attribution, Ownership
  <2>3. ReadersTrail'
    BY <1>7, RequestTypes DEF IInv, TypeOK, RunRows, Tasks, Sweeps, Statuses,
       TriggerFails, Idle, ReadersTrail, Ownership
  <2> QED
    BY <1>7, <1>0, <2>1, <2>2, <2>3 DEF IInv, TriggerFails, Ownership,
       AtomicPublication, Attribution, SweepExclusive, TasksKnow, Live, Exists
<1>8. ASSUME NEW t \in Threads, NEW r \in Runs, ReportRun(t, r)
      PROVE  IInv'
  <2>1. AnsweredReportIsWhole'
    BY <1>8, RequestTypes DEF IInv, TypeOK, RunRows, Tasks, Sweeps, Statuses,
       ReportRun, AnsweredReportIsWhole, ReadersTrail, AtomicPublication
  <2>2. DeletesHold'
    BY <1>8, RequestTypes DEF IInv, TypeOK, RunRows, Tasks, Sweeps, Statuses,
       ReportRun, DeletesHold, Attribution, Ownership
  <2>3. ReadersTrail'
    BY <1>8, RequestTypes DEF IInv, TypeOK, RunRows, Tasks, Sweeps, Statuses,
       ReportRun, ReadersTrail, Ownership
  <2> QED
    BY <1>8, <1>0, <2>1, <2>2, <2>3 DEF IInv, ReportRun, Ownership,
       AtomicPublication, Attribution, SweepExclusive, TasksKnow, Live, Exists
<1>9. ASSUME NEW t \in Threads, ReportFindings(t)
      PROVE  IInv'
  <2>1. AnsweredReportIsWhole'
    BY <1>9, RequestTypes DEF IInv, TypeOK, RunRows, Tasks, Sweeps, Statuses,
       ReportFindings, AnsweredReportIsWhole, ReadersTrail, AtomicPublication
  <2>2. DeletesHold'
    BY <1>9, RequestTypes DEF IInv, TypeOK, RunRows, Tasks, Sweeps, Statuses,
       ReportFindings, DeletesHold, Attribution, Ownership
  <2>3. ReadersTrail'
    BY <1>9, RequestTypes DEF IInv, TypeOK, RunRows, Tasks, Sweeps, Statuses,
       ReportFindings, ReadersTrail, Ownership
  <2> QED
    BY <1>9, <1>0, <2>1, <2>2, <2>3 DEF IInv, ReportFindings, Ownership,
       AtomicPublication, Attribution, SweepExclusive, TasksKnow, Live, Exists
<1>10. ASSUME NEW t \in Threads, ReportSent(t)
      PROVE  IInv'
  <2>1. AnsweredReportIsWhole'
    BY <1>10, RequestTypes DEF IInv, TypeOK, RunRows, Tasks, Sweeps, Statuses,
       ReportSent, Idle, AnsweredReportIsWhole, ReadersTrail, AtomicPublication
  <2>2. DeletesHold'
    BY <1>10, RequestTypes DEF IInv, TypeOK, RunRows, Tasks, Sweeps, Statuses,
       ReportSent, Idle, DeletesHold, Attribution, Ownership
  <2>3. ReadersTrail'
    BY <1>10, RequestTypes DEF IInv, TypeOK, RunRows, Tasks, Sweeps, Statuses,
       ReportSent, Idle, ReadersTrail, Ownership
  <2> QED
    BY <1>10, <1>0, <2>1, <2>2, <2>3 DEF IInv, ReportSent, Ownership,
       AtomicPublication, Attribution, SweepExclusive, TasksKnow, Live, Exists
<1>11. ASSUME NEW p \in Procs, Tick(p)
      PROVE  IInv'
  <2>1. SweepExclusive'
    <3>1. \A r \in Runs : Live(r) /\ task[r].by = "sweep" => task[r].proc # p
      BY <1>11, NoneAssumption DEF IInv, Tick, NoSweep, SweepExclusive
    <3>2. \A r \in Runs : Live(r) => task[r].proc \in Procs
      BY DEF IInv, TasksKnow, Live
    <3> QED
      BY <1>11, <3>1, <3>2 DEF IInv, TypeOK, Tick, SweepExclusive, Live
  <2> QED
    BY <1>11, <1>0, <2>1 DEF IInv, Tick, Ownership, AtomicPublication,
       Attribution, AnsweredReportIsWhole, TasksKnow, DeletesHold,
       ReadersTrail, Exists
<1>12. ASSUME NEW p \in Procs, NEW v \in VCenters, NEW r \in Runs,
            NEW pc \in {"queued", "lost"}, SweepOpen(p, v, r, pc)
      PROVE  IInv'
  <2>1. Ownership'
    BY <1>12 DEF IInv, TypeOK, RunRows, Tasks, Sweeps, Statuses, SweepOpen,
       Insert, NoRow, NoSweep, Ownership, Exists
  <2>2. AtomicPublication'
    BY <1>12 DEF IInv, TypeOK, RunRows, Tasks, Sweeps, Statuses, SweepOpen,
       Insert, NoRow, NoSweep, AtomicPublication, Exists
  <2>3. Attribution'
    BY <1>12 DEF IInv, TypeOK, RunRows, Tasks, Sweeps, Statuses, SweepOpen,
       Insert, NoRow, NoSweep, Attribution, Ownership, TasksKnow, Exists
  <2>4. SweepExclusive'
    <3>1. \A q \in Runs : Live(q) /\ task[q].by = "sweep" =>
            task[q].proc # p /\ task[q].proc \in Procs
      BY <1>12, NoneAssumption DEF IInv, SweepOpen, SweepExclusive, TasksKnow, Live
    <3>2. \A q \in Runs \ {r} : task'[q] = task[q]
      BY <1>12 DEF IInv, TypeOK, SweepOpen, Insert
    <3>3. task'[r] = [pc |-> pc, proc |-> p, by |-> "sweep", vcenter |-> v, outcome |-> "none"]
      BY <1>12 DEF IInv, TypeOK, SweepOpen, Insert
    <3>4. pc # "lost" => sweep'[p] = [todo |-> sweep[p].todo \ {v}, run |-> r]
      BY <1>12 DEF IInv, TypeOK, SweepOpen
    <3>5. \A q \in Procs \ {p} : sweep'[q] = sweep[q]
      BY <1>12 DEF IInv, TypeOK, SweepOpen
    <3> QED
      BY <3>1, <3>2, <3>3, <3>4, <3>5 DEF IInv, SweepExclusive, Live
  <2>5. AnsweredReportIsWhole'
    BY <1>12, RequestTypes DEF IInv, TypeOK, RunRows, Tasks, Sweeps, Statuses,
       SweepOpen, Insert, NoRow, NoSweep, AnsweredReportIsWhole, ReadersTrail,
       AtomicPublication, Exists
  <2>6. TasksKnow'
    BY <1>12, KindsAssumption DEF IInv, TypeOK, RunRows, Tasks, SweepOpen, Insert, NoRow,
       TasksKnow
  <2>7. DeletesHold'
    BY <1>12, RequestTypes DEF IInv, TypeOK, RunRows, Tasks, Sweeps, Statuses,
       SweepOpen, Insert, NoRow, NoSweep, DeletesHold, Attribution, Ownership,
       Exists
  <2>8. ReadersTrail'
    BY <1>12, RequestTypes DEF IInv, TypeOK, RunRows, Tasks, Sweeps, Statuses,
       SweepOpen, Insert, NoRow, NoSweep, ReadersTrail, Ownership, Exists
  <2> QED
    BY <1>12, <1>0, <2>1, <2>2, <2>3, <2>4, <2>5, <2>6, <2>7, <2>8 DEF IInv,
       SweepOpen, Insert
<1>13. ASSUME NEW p \in Procs, SweepOpenFails(p)
      PROVE  IInv'
  <2>1. SweepExclusive'
    BY <1>13 DEF IInv, TypeOK, RunRows, Tasks, Sweeps, Statuses,
       SweepOpenFails, NoSweep, SweepExclusive, TasksKnow, Live
  <2> QED
    BY <1>13, <1>0, <2>1 DEF IInv, SweepOpenFails, Ownership,
       AtomicPublication, Attribution, AnsweredReportIsWhole, TasksKnow,
       DeletesHold, ReadersTrail, Exists
<1>14. ASSUME NEW r \in Runs, Start(r)
      PROVE  IInv'
  <2>1. Ownership'
    BY <1>14 DEF IInv, TypeOK, RunRows, Tasks, Sweeps, Statuses, Start,
       Ownership
  <2>2. Attribution'
    BY <1>14 DEF IInv, TypeOK, RunRows, Tasks, Sweeps, Statuses, Start,
       Attribution, Ownership, TasksKnow, Exists
  <2>3. SweepExclusive'
    BY <1>14 DEF IInv, TypeOK, RunRows, Tasks, Sweeps, Statuses, Start,
       SweepExclusive, TasksKnow, Live
  <2>4. TasksKnow'
    BY <1>14 DEF IInv, TypeOK, RunRows, Tasks, Sweeps, Statuses, Start,
       TasksKnow, Ownership, NoRow
  <2>5. DeletesHold'
    BY <1>14, RequestTypes DEF IInv, TypeOK, RunRows, Tasks, Sweeps, Statuses,
       Start, DeletesHold, Attribution, Ownership
  <2> QED
    BY <1>14, <1>0, <2>1, <2>2, <2>3, <2>4, <2>5 DEF IInv, Start,
       AtomicPublication, AnsweredReportIsWhole, ReadersTrail
<1>15. ASSUME NEW r \in Runs, StartOrphaned(r)
      PROVE  IInv'
  <2>1. Ownership'
    BY <1>15 DEF IInv, TypeOK, RunRows, Tasks, Sweeps, Statuses, StartOrphaned,
       Ownership
  <2>2. Attribution'
    BY <1>15 DEF IInv, TypeOK, RunRows, Tasks, Sweeps, Statuses, StartOrphaned,
       Attribution, Ownership, TasksKnow, Exists
  <2>3. SweepExclusive'
    BY <1>15 DEF IInv, TypeOK, RunRows, Tasks, Sweeps, Statuses, StartOrphaned,
       SweepExclusive, TasksKnow, Live
  <2>4. TasksKnow'
    BY <1>15 DEF IInv, TypeOK, RunRows, Tasks, Sweeps, Statuses, StartOrphaned,
       TasksKnow, Ownership, NoRow
  <2>5. DeletesHold'
    BY <1>15, RequestTypes DEF IInv, TypeOK, RunRows, Tasks, Sweeps, Statuses,
       StartOrphaned, DeletesHold, Attribution, Ownership
  <2> QED
    BY <1>15, <1>0, <2>1, <2>2, <2>3, <2>4, <2>5 DEF IInv, StartOrphaned,
       AtomicPublication, AnsweredReportIsWhole, ReadersTrail
<1>16. ASSUME NEW r \in Runs, SweepOrphaned(r)
      PROVE  IInv'
  <2>1. Ownership'
    BY <1>16 DEF IInv, TypeOK, RunRows, Tasks, Sweeps, Statuses, SweepOrphaned,
       SweepStops, NoSweep, Ownership
  <2>2. Attribution'
    BY <1>16 DEF IInv, TypeOK, RunRows, Tasks, Sweeps, Statuses, SweepOrphaned,
       SweepStops, NoSweep, Attribution, Ownership, TasksKnow, Exists
  <2>3. SweepExclusive'
    BY <1>16 DEF IInv, TypeOK, RunRows, Tasks, Sweeps, Statuses, SweepOrphaned,
       SweepStops, NoSweep, SweepExclusive, TasksKnow, Live
  <2>4. TasksKnow'
    BY <1>16 DEF IInv, TypeOK, RunRows, Tasks, Sweeps, Statuses, SweepOrphaned,
       SweepStops, NoSweep, TasksKnow, Ownership, NoRow
  <2>5. DeletesHold'
    BY <1>16, RequestTypes DEF IInv, TypeOK, RunRows, Tasks, Sweeps, Statuses,
       SweepOrphaned, SweepStops, NoSweep, DeletesHold, Attribution, Ownership
  <2> QED
    BY <1>16, <1>0, <2>1, <2>2, <2>3, <2>4, <2>5 DEF IInv, SweepOrphaned,
       AtomicPublication, AnsweredReportIsWhole, ReadersTrail
<1>17. ASSUME NEW r \in Runs, NEW o \in {"completed", "failed"}, Scan(r, o)
      PROVE  IInv'
  <2>1. Ownership'
    BY <1>17 DEF IInv, TypeOK, RunRows, Tasks, Sweeps, Statuses, Scan,
       Ownership
  <2>2. Attribution'
    BY <1>17 DEF IInv, TypeOK, RunRows, Tasks, Sweeps, Statuses, Scan,
       Attribution, Ownership, TasksKnow, Exists
  <2>3. SweepExclusive'
    BY <1>17 DEF IInv, TypeOK, RunRows, Tasks, Sweeps, Statuses, Scan,
       SweepExclusive, TasksKnow, Live
  <2>4. TasksKnow'
    BY <1>17 DEF IInv, TypeOK, RunRows, Tasks, Sweeps, Statuses, Scan,
       TasksKnow, Ownership, NoRow
  <2>5. DeletesHold'
    BY <1>17, RequestTypes DEF IInv, TypeOK, RunRows, Tasks, Sweeps, Statuses,
       Scan, DeletesHold, Attribution, Ownership
  <2> QED
    BY <1>17, <1>0, <2>1, <2>2, <2>3, <2>4, <2>5 DEF IInv, Scan,
       AtomicPublication, AnsweredReportIsWhole, ReadersTrail
<1>18. ASSUME NEW r \in Runs, Commit(r)
      PROVE  IInv'
  <2>0. /\ runs'[r].status = task[r].outcome
        /\ \A q \in Runs \ {r} : runs'[q] = runs[q] /\ task'[q] = task[q]
        /\ task'[r].pc = "done" /\ task'[r].outcome = task[r].outcome
    BY <1>18 DEF IInv, TypeOK, RunRows, Tasks, Commit
  <2>1. Ownership'
    <3>1. task[r].outcome \in {"completed", "failed"}
      BY <1>18 DEF IInv, TypeOK, Tasks, Commit, TasksKnow
    <3> QED
      BY <2>0, <3>1 DEF IInv, Ownership
  <2>2. AtomicPublication'
    BY <1>18 DEF IInv, TypeOK, RunRows, Tasks, Sweeps, Statuses, Commit,
       SweepGoesOn, AtomicPublication
  <2>3. Attribution'
    BY <1>18 DEF IInv, TypeOK, RunRows, Tasks, Sweeps, Statuses, Commit,
       SweepGoesOn, Attribution, Ownership, TasksKnow, Exists
  <2>4. SweepExclusive'
    BY <1>18 DEF IInv, TypeOK, RunRows, Tasks, Sweeps, Statuses, Commit,
       SweepGoesOn, SweepExclusive, TasksKnow, Live
  <2>5. AnsweredReportIsWhole'
    BY <1>18, RequestTypes DEF IInv, TypeOK, RunRows, Tasks, Sweeps, Statuses,
       Commit, SweepGoesOn, AnsweredReportIsWhole, ReadersTrail,
       AtomicPublication
  <2>6. TasksKnow'
    <3>1. runs'[r].kind = runs[r].kind /\ task'[r].vcenter = task[r].vcenter
                                       /\ task'[r].proc = task[r].proc
      BY <1>18 DEF IInv, TypeOK, RunRows, Tasks, Commit
    <3> QED
      BY <1>18, <2>0, <3>1 DEF IInv, Commit, TasksKnow
  <2>7. DeletesHold'
    BY <1>18, RequestTypes DEF IInv, TypeOK, RunRows, Tasks, Sweeps, Statuses,
       Commit, SweepGoesOn, DeletesHold, Attribution, Ownership
  <2>8. ReadersTrail'
    BY <1>18, RequestTypes DEF IInv, TypeOK, RunRows, Tasks, Sweeps, Statuses,
       Commit, SweepGoesOn, ReadersTrail, Ownership
  <2> QED
    BY <1>18, <1>0, <2>1, <2>2, <2>3, <2>4, <2>5, <2>6, <2>7, <2>8 DEF IInv,
       Commit
<1>19. ASSUME NEW r \in Runs, Lose(r)
      PROVE  IInv'
  <2>1. Ownership'
    BY <1>19 DEF IInv, TypeOK, RunRows, Tasks, Sweeps, Statuses, Lose,
       SweepStops, NoSweep, Ownership
  <2>2. Attribution'
    BY <1>19 DEF IInv, TypeOK, RunRows, Tasks, Sweeps, Statuses, Lose,
       SweepStops, NoSweep, Attribution, Ownership, TasksKnow, Exists
  <2>3. SweepExclusive'
    BY <1>19 DEF IInv, TypeOK, RunRows, Tasks, Sweeps, Statuses, Lose,
       SweepStops, NoSweep, SweepExclusive, TasksKnow, Live
  <2>4. TasksKnow'
    BY <1>19 DEF IInv, TypeOK, RunRows, Tasks, Sweeps, Statuses, Lose,
       SweepStops, NoSweep, TasksKnow, Ownership, NoRow
  <2>5. DeletesHold'
    BY <1>19, RequestTypes DEF IInv, TypeOK, RunRows, Tasks, Sweeps, Statuses,
       Lose, SweepStops, NoSweep, DeletesHold, Attribution, Ownership
  <2> QED
    BY <1>19, <1>0, <2>1, <2>2, <2>3, <2>4, <2>5 DEF IInv, Lose,
       AtomicPublication, AnsweredReportIsWhole, ReadersTrail
<1>20. ASSUME NEW p \in Procs, Crash(p)
      PROVE  IInv'
  <2>0. \A r \in Runs :
          /\ task'[r].pc = IF task[r].proc = p /\ Live(r) THEN "lost" ELSE task[r].pc
          /\ task'[r].proc = task[r].proc /\ task'[r].by = task[r].by
          /\ task'[r].vcenter = task[r].vcenter /\ task'[r].outcome = task[r].outcome
    BY <1>20 DEF IInv, TypeOK, Tasks, Crash
  <2>1. Ownership'
    BY <1>20, <2>0 DEF IInv, Crash, Ownership, Live
  <2>2. Attribution'
    BY <1>20 DEF IInv, TypeOK, RunRows, Tasks, Sweeps, Statuses, Crash,
       NoSweep, Idle, Attribution, Ownership, TasksKnow, Exists
  <2>3. SweepExclusive'
    BY <1>20 DEF IInv, TypeOK, RunRows, Tasks, Sweeps, Statuses, Crash,
       NoSweep, Idle, SweepExclusive, TasksKnow, Live
  <2>4. AnsweredReportIsWhole'
    BY <1>20, RequestTypes DEF IInv, TypeOK, RunRows, Tasks, Sweeps, Statuses,
       Crash, NoSweep, Idle, AnsweredReportIsWhole, ReadersTrail,
       AtomicPublication
  <2>5. TasksKnow'
    BY <1>20, <2>0 DEF IInv, Crash, TasksKnow, Live
  <2>6. DeletesHold'
    BY <1>20, RequestTypes DEF IInv, TypeOK, RunRows, Tasks, Sweeps, Statuses,
       Crash, NoSweep, Idle, DeletesHold, Attribution, Ownership
  <2>7. ReadersTrail'
    BY <1>20, RequestTypes DEF IInv, TypeOK, RunRows, Tasks, Sweeps, Statuses,
       Crash, NoSweep, Idle, ReadersTrail, Ownership
  <2> QED
    BY <1>20, <1>0, <2>1, <2>2, <2>3, <2>4, <2>5, <2>6, <2>7 DEF IInv, Crash,
       AtomicPublication
<1>21. CASE UNCHANGED vars
  BY <1>21, <1>0 DEF vars, IInv, Ownership, AtomicPublication, Attribution,
     SweepExclusive, AnsweredReportIsWhole, TasksKnow, DeletesHold,
     ReadersTrail, Live, Exists
<1> QED
  BY <1>1, <1>2, <1>3, <1>4, <1>5, <1>6, <1>7, <1>8, <1>9, <1>10, <1>11, <1>12,
     <1>13, <1>14, <1>15, <1>16, <1>17, <1>18, <1>19, <1>20, <1>21 DEF Next,
     Request, SweepStep, Begin, Answer, Settle

\* The inductive invariant holds initially.
LEMMA Initially == Init => IInv
<1> SUFFICES ASSUME Init PROVE IInv
  OBVIOUS
<1>1. TypeOK
  BY DEF Init, TypeOK, ConnStates, RunRows, Tasks, Requests, Sweeps, Statuses,
         NoRow, NoTask, NoSweep
<1>2. Ownership /\ AtomicPublication /\ Attribution /\ TasksKnow
  BY DEF Init, NoRow, NoTask, Ownership, AtomicPublication, Attribution, TasksKnow
<1>3. SweepExclusive
  BY DEF Init, NoTask, SweepExclusive, Live
<1>4. AnsweredReportIsWhole /\ DeletesHold /\ ReadersTrail
  BY DEF Init, Idle, AnsweredReportIsWhole, DeletesHold, ReadersTrail
<1> QED
  BY <1>1, <1>2, <1>3, <1>4 DEF IInv

\* The inductive invariant, and with it each of its parts, always holds.
THEOREM Invariance == Spec => []IInv
  BY Initially, Inductive, PTL DEF Spec

\* The variables keep their types in every reachable state.
THEOREM TypeCorrect == Spec => []TypeOK
<1>1. IInv => TypeOK
  BY DEF IInv
<1> QED
  BY <1>1, Invariance, PTL

\* A run is "running" exactly while a task executes it or has been lost.
THEOREM RunsOwned == Spec => []Ownership
<1>1. IInv => Ownership
  BY DEF IInv
<1> QED
  BY <1>1, Invariance, PTL

\* Findings become visible with the status "completed", and no earlier.
THEOREM PublishedWhole == Spec => []AtomicPublication
<1>1. IInv => AtomicPublication
  BY DEF IInv
<1> QED
  BY <1>1, Invariance, PTL

\* A run points to its connection while that exists, and to none afterwards.
THEOREM RunsAttributed == Spec => []Attribution
<1>1. IInv => Attribution
  BY DEF IInv
<1> QED
  BY <1>1, Invariance, PTL

\* A process's sweep executes one run at most, of a connection it has not before it.
THEOREM SweepsExclude == Spec => []SweepExclusive
<1>1. IInv => SweepExclusive
  BY DEF IInv
<1> QED
  BY <1>1, Invariance, PTL

\* A report answered with status "completed" holds every finding of the run.
THEOREM ReportsWhole == Spec => []AnsweredReportIsWhole
<1>1. IInv => AnsweredReportIsWhole
  BY DEF IInv
<1> QED
  BY <1>1, Invariance, PTL

\* Only three actions write a row of analysis_runs; the others leave the table.
LEMMA RunsUntouched ==
  ASSUME [Next]_vars,
         \A t \in Threads : ~DeleteCommit(t),
         \A t \in Threads, r \in Runs, pc \in {"queued", "lost"} : ~TriggerCommit(t, r, pc),
         \A p \in Procs, v \in VCenters, r \in Runs, pc \in {"queued", "lost"} :
            ~SweepOpen(p, v, r, pc),
         \A r \in Runs : ~Commit(r)
  PROVE  runs' = runs
  BY DEF Next, Request, SweepStep, Begin, Answer, Settle, AddVcenter, UpdateVcenter,
         DeleteLoad, TriggerCheck, TriggerFails, ReportRun, ReportFindings, ReportSent,
         Tick, SweepOpenFails, Start, StartOrphaned, SweepOrphaned, Scan, Lose,
         Crash, vars

\* Deleting a connection changes nothing of a run but its reference.
LEMMA DeleteDetaches ==
  ASSUME TypeOK, NEW t \in Threads, DeleteCommit(t), NEW r \in Runs
  PROVE  /\ runs'[r].status = runs[r].status
         /\ runs'[r].kind = runs[r].kind
         /\ runs'[r].report = runs[r].report
         /\ runs'[r] = [runs[r] EXCEPT !.vcenter = runs'[r].vcenter]
  BY DEF TypeOK, RunRows, DeleteCommit

\* A settled or lost run's row never changes but for its connection reference.
THEOREM Stability == Spec => TerminalStable
<1>1. IInv /\ [Next]_vars =>
        [\A r \in Runs : task[r].pc \in {"done", "lost"} =>
           runs'[r] = [runs[r] EXCEPT !.vcenter = runs'[r].vcenter]]_vars
  <2> SUFFICES ASSUME IInv, [Next]_vars, NEW r \in Runs, task[r].pc \in {"done", "lost"}
               PROVE  runs'[r] = [runs[r] EXCEPT !.vcenter = runs'[r].vcenter]
    OBVIOUS
  <2>0. runs[r] = [runs[r] EXCEPT !.vcenter = runs[r].vcenter]
    BY DEF IInv, TypeOK, RunRows
  <2>1. CASE \E t \in Threads : DeleteCommit(t)
    BY <2>1, DeleteDetaches DEF IInv
  <2>2. ASSUME NEW q \in Runs, runs[q].status = "none" \/ task[q].pc = "commit",
               runs' = [runs EXCEPT ![q] = runs'[q]]
        PROVE  runs'[r] = runs[r]
    BY <2>2 DEF IInv, TypeOK, Ownership
  <2>3. CASE \E t \in Threads, q \in Runs, pc \in {"queued", "lost"} : TriggerCommit(t, q, pc)
    BY <2>0, <2>2, <2>3 DEF IInv, TypeOK, TriggerCommit, Insert
  <2>4. CASE \E p \in Procs, v \in VCenters, q \in Runs, pc \in {"queued", "lost"} :
               SweepOpen(p, v, q, pc)
    BY <2>0, <2>2, <2>4 DEF IInv, TypeOK, SweepOpen, Insert
  <2>5. CASE \E q \in Runs : Commit(q)
    BY <2>0, <2>2, <2>5 DEF IInv, TypeOK, Commit
  <2> QED
    BY <2>0, <2>1, <2>3, <2>4, <2>5, RunsUntouched
<1> QED
  BY <1>1, Invariance, PTL DEF Spec, TerminalStable

\* A run that fails takes no connection from any sweep.
THEOREM Isolation == Spec => FailureIsolated
<1>1. IInv /\ [Next]_vars =>
        [(\E r \in Runs : runs[r].status # "failed" /\ runs'[r].status = "failed")
           => \A p \in Procs : sweep'[p].todo = sweep[p].todo]_vars
  <2> SUFFICES ASSUME IInv, [Next]_vars, NEW r \in Runs,
                      runs[r].status # "failed", runs'[r].status = "failed"
               PROVE  \A p \in Procs : sweep'[p].todo = sweep[p].todo
    OBVIOUS
  <2>1. ASSUME NEW t \in Threads, DeleteCommit(t) PROVE FALSE
    BY <2>1, DeleteDetaches DEF IInv
  <2>2. ASSUME NEW t \in Threads, NEW q \in Runs, NEW pc \in {"queued", "lost"},
               TriggerCommit(t, q, pc)
        PROVE  FALSE
    BY <2>2 DEF IInv, TypeOK, TriggerCommit, Insert, NoRow
  <2>3. ASSUME NEW p \in Procs, NEW v \in VCenters, NEW q \in Runs,
               NEW pc \in {"queued", "lost"}, SweepOpen(p, v, q, pc)
        PROVE  FALSE
    BY <2>3 DEF IInv, TypeOK, SweepOpen, Insert, NoRow
  <2>4. ASSUME NEW q \in Runs, Commit(q)
        PROVE  \A p \in Procs : sweep'[p].todo = sweep[p].todo
    BY <2>4 DEF IInv, TypeOK, Sweeps, Commit, SweepGoesOn
  <2> QED
    BY <2>1, <2>2, <2>3, <2>4, RunsUntouched
<1> QED
  BY <1>1, Invariance, PTL DEF Spec, FailureIsolated

\* Every execution of the system is one of the abstract lifecycle of runs.
THEOREM Refinement == Spec => RefinesLifecycle
<1>1. Init => Lifecycle!Init
  BY DEF Init, NoRow, Lifecycle!Init, LifecycleView
<1>2. IInv /\ [Next]_vars => [Lifecycle!Next]_LifecycleView
  <2> SUFFICES ASSUME IInv, [Next]_vars PROVE [Lifecycle!Next]_LifecycleView
    OBVIOUS
  <2>1. ASSUME NEW t \in Threads, DeleteCommit(t) PROVE LifecycleView' = LifecycleView
    BY <2>1, DeleteDetaches DEF IInv, LifecycleView
  <2>2. ASSUME NEW r \in Runs, NEW v \in VCenters, NEW k \in Kinds, NEW p \in Procs,
               NEW by \in {"api", "sweep"}, NEW pc \in {"queued", "lost"},
               Insert(r, v, k, p, by, pc)
        PROVE  Lifecycle!Begin(r, k)
    <3>1. runs[r].report = {}
      BY <2>2 DEF IInv, AtomicPublication, Insert
    <3> QED
      BY <2>2, <3>1 DEF IInv, TypeOK, RunRows, Insert, NoRow, LifecycleView, Lifecycle!Begin
  <2>3. ASSUME NEW t \in Threads, NEW r \in Runs, NEW pc \in {"queued", "lost"},
               TriggerCommit(t, r, pc)
        PROVE  Lifecycle!Next
    <3>1. req[t].vcenter \in VCenters /\ req[t].kind \in Kinds /\ Host[t] \in Procs
      BY <2>3, RequestTypes, HostAssumption DEF IInv, TriggerCommit
    <3> QED
      BY <2>2, <2>3, <3>1 DEF TriggerCommit, Lifecycle!Next
  <2>4. ASSUME NEW p \in Procs, NEW v \in VCenters, NEW r \in Runs,
               NEW pc \in {"queued", "lost"}, SweepOpen(p, v, r, pc)
        PROVE  Lifecycle!Next
    BY <2>2, <2>4, KindsAssumption DEF SweepOpen, Lifecycle!Next
  <2>5. ASSUME NEW r \in Runs, Commit(r)
        PROVE  Lifecycle!Complete(r) \/ Lifecycle!Fail(r)
    <3>1. /\ runs[r].status = "running" /\ runs[r].report = {}
          /\ task[r].outcome \in {"completed", "failed"}
      BY <2>5 DEF IInv, TypeOK, Tasks, Commit, Ownership, AtomicPublication, TasksKnow
    <3>2. /\ \A q \in Runs \ {r} : runs'[q] = runs[q]
          /\ runs'[r].status = task[r].outcome
          /\ runs'[r].kind = runs[r].kind
          /\ runs'[r].report = IF task[r].outcome = "completed"
                               THEN SectionsOf(runs[r].kind) ELSE {}
      BY <2>5 DEF IInv, TypeOK, RunRows, Commit
    <3>3. SectionsOf(runs[r].kind) = Lifecycle!SectionsOf(runs[r].kind)
      BY DEF SectionsOf, Sections, Lifecycle!SectionsOf, Lifecycle!Sections
    <3>4. CASE task[r].outcome = "completed"
      BY <3>1, <3>2, <3>3, <3>4 DEF LifecycleView, Lifecycle!Complete
    <3>5. CASE task[r].outcome = "failed"
      BY <3>1, <3>2, <3>5 DEF LifecycleView, Lifecycle!Fail
    <3> QED
      BY <3>1, <3>4, <3>5
  <2>6. runs' = runs => LifecycleView' = LifecycleView
    BY DEF LifecycleView
  <2> QED
    BY <2>1, <2>3, <2>4, <2>5, <2>6, RunsUntouched DEF Lifecycle!Next
<1> QED
  BY <1>1, <1>2, Invariance, PTL DEF Spec, RefinesLifecycle, Lifecycle!Spec
=============================================================================

---------------------------- MODULE RunLifecycle ----------------------------
(* What an analysis run promises to the users of the API, whoever executes *)
(* it: a run is begun once with its kind, and either completes, publishing *)
(* in one step the findings of every section its kind asks for, or fails   *)
(* and publishes none.  Nothing happens to a run after that.               *)
CONSTANTS Runs, Kinds, None

VARIABLE run    \* Runs -> [status, kind, report]; status is none, running, completed or failed

Sections == {"drs", "storage"}

\* The sections an analysis of kind k reports on.
SectionsOf(k) == IF k = "full" THEN Sections ELSE {k}

Init == run = [r \in Runs |-> [status |-> "none", kind |-> None, report |-> {}]]

Begin(r, k) ==
  /\ run[r].status = "none"
  /\ run' = [run EXCEPT ![r].status = "running", ![r].kind = k]

Complete(r) ==
  /\ run[r].status = "running"
  /\ run' = [run EXCEPT ![r].status = "completed",
                        ![r].report = SectionsOf(run[r].kind)]

Fail(r) ==
  /\ run[r].status = "running"
  /\ run' = [run EXCEPT ![r].status = "failed"]

Next == \E r \in Runs : \/ \E k \in Kinds : Begin(r, k)
                        \/ Complete(r)
                        \/ Fail(r)

Spec == Init /\ [][Next]_run
=============================================================================

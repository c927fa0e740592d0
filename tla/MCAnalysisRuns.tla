--------------------------- MODULE MCAnalysisRuns ---------------------------
(* Instances of AnalysisRuns for TLC. *)
EXTENDS AnalysisRuns, TLC

CONSTANTS v1, v2, r1, r2, api, worker, t1, t2

\* One API process serving two requests at a time, and the worker process.
OneHost == t1 :> api @@ t2 :> api
\* One API process serving one request at a time.
SingleHost == t1 :> api

Symmetry == Permutations(VCenters) \cup Permutations(Runs)
=============================================================================

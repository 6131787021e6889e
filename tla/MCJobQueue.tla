----------------------------- MODULE MCJobQueue -----------------------------
(* An instance of JobQueue for TLC. *)
EXTENDS JobQueue

MCJobs == {1, 2}

(* Job 1 is tracked by its own process and reaches the workers by a retry; *)
(* job 2, an APPLY job, is inserted queued, with the better priority.      *)
MCJobType  == [j \in MCJobs |-> IF j = 1 THEN "process" ELSE "apply"]
MCPriority == [j \in MCJobs |-> IF j = 1 THEN 100 ELSE 10]

=============================================================================

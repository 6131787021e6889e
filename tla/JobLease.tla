------------------------------ MODULE JobLease ------------------------------
(***************************************************************************)
(* What the job table promises, with nothing of how it is kept: a job that *)
(* is running is held by at most one process, only its holder settles it,  *)
(* it is taken back only after its holder is gone, a completed job stays   *)
(* completed until its row is deleted, and a deleted row stays deleted.  A *)
(* row may be deleted at any time, under its holder too.  The life cycle   *)
(* is the one of JobStatus; the promise on holders is that of              *)
(* claim_next_job ("atomically claim") and of the heartbeats ("preventing  *)
(* duplicate job execution").                                              *)
(***************************************************************************)
EXTENDS Naturals, FiniteSets

CONSTANTS
  Jobs,       \* rows of the jobs table
  Holders     \* processes that can execute a job

VARIABLES
  state,      \* state[j]: the status of the row, "absent" before the insert
  holders     \* holders[j]: the processes executing j now

leaseVars == <<state, holders>>

Settled == {"completed", "failed", "cancelled"}
States  == Settled \union {"absent", "queued", "running", "deleted"}

Init ==
  /\ state = [j \in Jobs |-> "absent"]
  /\ holders = [j \in Jobs |-> {}]

(* A row is inserted for a worker to pick up. *)
Submit(j) ==
  /\ state[j] = "absent"
  /\ state' = [state EXCEPT ![j] = "queued"]
  /\ UNCHANGED holders

(* A process becomes the only holder of a job nobody holds. *)
Lease(j, p) ==
  /\ state[j] \in {"absent", "queued"}
  /\ holders[j] = {}
  /\ state' = [state EXCEPT ![j] = "running"]
  /\ holders' = [holders EXCEPT ![j] = {p}]

(* The holder records how its job ended. *)
Settle(j, p, outcome) ==
  /\ state[j] = "running"
  /\ holders[j] = {p}
  /\ state' = [state EXCEPT ![j] = outcome]
  /\ holders' = [holders EXCEPT ![j] = {}]

(* The holder dies and the row keeps saying "running", or the row is gone  *)
(* when the holder ends.                                                   *)
Abandon(j) ==
  /\ state[j] \in {"running", "deleted"}
  /\ holders[j] # {}
  /\ holders' = [holders EXCEPT ![j] = {}]
  /\ UNCHANGED state

(* Running jobs without a holder go back to the queue. *)
Reclaim(S) ==
  /\ \A j \in S : state[j] = "running" /\ holders[j] = {}
  /\ state' = [j \in Jobs |-> IF j \in S THEN "queued" ELSE state[j]]
  /\ UNCHANGED holders

Withdraw(j) ==
  /\ state[j] = "queued"
  /\ state' = [state EXCEPT ![j] = "cancelled"]
  /\ UNCHANGED holders

Retry(j) ==
  /\ state[j] \in {"failed", "cancelled"}
  /\ state' = [state EXCEPT ![j] = "queued"]
  /\ UNCHANGED holders

(* Rows are deleted: settled ones for their age, others with their film.   *)
(* Whoever holds one goes on.                                              *)
Forget(S) ==
  /\ \A j \in S : state[j] # "absent"
  /\ state' = [j \in Jobs |-> IF j \in S THEN "deleted" ELSE state[j]]
  /\ UNCHANGED holders

Next ==
  \/ \E j \in Jobs : Submit(j) \/ Abandon(j) \/ Withdraw(j) \/ Retry(j)
  \/ \E j \in Jobs, p \in Holders : Lease(j, p)
  \/ \E j \in Jobs, p \in Holders, outcome \in Settled : Settle(j, p, outcome)
  \/ \E S \in SUBSET Jobs : Reclaim(S) \/ Forget(S)

Spec == Init /\ [][Next]_leaseVars

=============================================================================

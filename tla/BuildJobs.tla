------------------------------ MODULE BuildJobs ------------------------------
(***************************************************************************)
(* What the build queue promises, without its rows, transactions and HTTP  *)
(* handlers ("Maximum active jobs: 1. Pending jobs stored in PostgreSQL.   *)
(* An in-memory loop claims the oldest pending job."):                     *)
(*   - versions of a pipeline are submitted once each and in order, and    *)
(*     only while no earlier version of it waits or executes;              *)
(*   - a job leaves the queue once, to be executed or dropped;             *)
(*   - one job executes at a time, and a version becomes ready for         *)
(*     approval only by its own execution.                                 *)
(***************************************************************************)
EXTENDS Naturals

CONSTANTS Pipelines, MaxVersion, None

VARIABLES job,        \* "none", "queued" or "closed" by pipeline and version
          executing,  \* the job being executed, or None
          ready       \* versions that can be approved

vars == <<job, executing, ready>>

Versions == 1..MaxVersion

Init ==
  /\ job = [p \in Pipelines |-> [v \in Versions |-> "none"]]
  /\ executing = None
  /\ ready = {}

\* No earlier version of the pipeline is left unsubmitted, waiting or executing.
Settled(p, v) == \A w \in 1..(v - 1) : job[p][w] = "closed" /\ executing # <<p, w>>

Submit(p, v) ==
  /\ job[p][v] = "none"
  /\ Settled(p, v)
  /\ job' = [job EXCEPT ![p][v] = "queued"]
  /\ UNCHANGED <<executing, ready>>

Drop(p, v) ==
  /\ job[p][v] = "queued"
  /\ job' = [job EXCEPT ![p][v] = "closed"]
  /\ UNCHANGED <<executing, ready>>

Start(p, v) ==
  /\ executing = None
  /\ job[p][v] = "queued"
  /\ job' = [job EXCEPT ![p][v] = "closed"]
  /\ executing' = <<p, v>>
  /\ UNCHANGED ready

Publish ==
  /\ executing # None
  /\ ready' = ready \cup {executing}
  /\ UNCHANGED <<job, executing>>

\* The execution ends, by success, failure, cancellation or death of the process.
End ==
  /\ executing # None
  /\ executing' = None
  /\ UNCHANGED <<job, ready>>

Next ==
  \/ \E p \in Pipelines, v \in Versions : Submit(p, v) \/ Drop(p, v) \/ Start(p, v)
  \/ Publish \/ End

Spec == Init /\ [][Next]_vars

=============================================================================

----------------------------- MODULE JobManager -----------------------------
(***************************************************************************)
(* The master's job table (master/src/job_manager.cpp).  Every method holds *)
(* mutex_ for its whole body, so every method is one atomic step.  No      *)
(* method that sets a status looks at the one it replaces, except          *)
(* cancel_job and fail_jobs_on_node.                                       *)
(*                                                                         *)
(* Abstracted: user, command, error text and started_at, which no branch   *)
(* of the program reads; the "job:<id>" row written to SQLite, which       *)
(* nothing ever reads back.                                                *)
(***************************************************************************)
EXTENDS Common

CONSTANTS
  Specs,                        \* job specifications
  CancelWindow                  \* a cancellation is sent for this many seconds

ASSUME JobManagerAssumption == CancelWindow \in Nat

VARIABLE jobs                   \* jobs_: job id -> JobInfo

Terminal == {"COMPLETED", "FAILED", "CANCELLED"}

JobStatus == {"QUEUED", "ASSIGNED", "RUNNING"} \cup Terminal

JobInfo == [status: JobStatus, node: NodeIds \cup {NoNode}, spec: Specs,
            submitted_at: Nat, completed_at: Nat]

HasStatus(j, S) == j \in DOMAIN jobs /\ jobs[j].status \in S

JobManagerInit == jobs = EmptyTable

(* Faulty: the uuid may repeat.                                            *)
submit_job_IdRepeats(j, spec) ==
  /\ issued' = issued \cup {j}
  /\ jobs' = Put(jobs, j, [status |-> "QUEUED", node |-> NoNode, spec |-> spec,
                           submitted_at |-> now, completed_at |-> 0])

submit_job(j, spec) ==
  /\ Fresh(j)
  /\ jobs' = Put(jobs, j, [status |-> "QUEUED", node |-> NoNode, spec |-> spec,
                           submitted_at |-> now, completed_at |-> 0])

(* Faulty: the completion time is left out.                                *)
Updated_Unstamped(info, status, n) ==
  [info EXCEPT
     !.status = status,
     !.node = IF status \in {"ASSIGNED", "RUNNING"} /\ n # NoNode THEN n ELSE @]

(* The entry after update_job_status; the node is kept unless the new      *)
(* status is ASSIGNED or RUNNING and the caller names one.                 *)
Updated(info, status, n) ==
  [info EXCEPT
     !.status = status,
     !.node = IF status \in {"ASSIGNED", "RUNNING"} /\ n # NoNode THEN n ELSE @,
     !.completed_at = IF status \in Terminal THEN now ELSE @]

(* Faulty: jobs_[job_id] makes up an entry for an unknown job.             *)
update_job_status_Inserts(j, status, n) ==
  jobs' = Put(jobs, j, Updated(IF j \in DOMAIN jobs THEN jobs[j]
                               ELSE [status |-> status, node |-> NoNode, spec |-> NoNode,
                                     submitted_at |-> 0, completed_at |-> 0],
                               status, n))

update_job_status(j, status, n) ==
  jobs' = IF j \in DOMAIN jobs
          THEN [jobs EXCEPT ![j] = Updated(@, status, n)]
          ELSE jobs

(* Faulty: a cancelled job can be cancelled again.                         *)
cancel_job_Again(j) ==
  /\ HasStatus(j, JobStatus \ {"COMPLETED", "FAILED"})
  /\ jobs' = [jobs EXCEPT ![j].status = "CANCELLED", ![j].completed_at = now]

(* A terminal job is refused, every other one becomes CANCELLED at once:   *)
(* the branches for a queued job and a placed one assign the same fields.  *)
cancel_job(j) ==
  /\ HasStatus(j, JobStatus \ Terminal)
  /\ jobs' = [jobs EXCEPT ![j].status = "CANCELLED", ![j].completed_at = now]

(* Meant for a node that went offline; nothing in the program calls it.    *)
fail_jobs_on_node(n) ==
  jobs' = [j \in DOMAIN jobs |->
             IF HasStatus(j, {"ASSIGNED", "RUNNING"}) /\ jobs[j].node = n
             THEN [jobs[j] EXCEPT !.status = "FAILED", !.completed_at = now]
             ELSE jobs[j]]

list_jobs(status) == {j \in DOMAIN jobs : jobs[j].status = status}

(* Faulty: assigned jobs count as pending.                                 *)
get_pending_jobs_Assigned == list_jobs("QUEUED") \cup list_jobs("ASSIGNED")

get_pending_jobs == list_jobs("QUEUED")

(* Faulty: the comparison with the window is turned round.                 *)
get_jobs_to_cancel_for_node_Late(n) ==
  {j \in list_jobs("CANCELLED") :
     jobs[j].node = n /\ now - jobs[j].completed_at > CancelWindow}

get_jobs_to_cancel_for_node(n) ==
  {j \in list_jobs("CANCELLED") :
     jobs[j].node = n /\ now - jobs[j].completed_at < CancelWindow}

-----------------------------------------------------------------------------
(* The timestamps agree with the status in every order of calls: a job is  *)
(* in a terminal status only with a completion time, at or after its       *)
(* submission, and a queued one has neither a completion time nor a node.  *)
(* get_jobs_to_cancel_for_node subtracts completed_at relying on this.     *)
StampsAgree ==
  \A j \in DOMAIN jobs :
    /\ jobs[j].status \in Terminal => jobs[j].completed_at \in jobs[j].submitted_at..now
    /\ jobs[j].status = "QUEUED" => jobs[j].completed_at = 0 /\ jobs[j].node = NoNode

(* "Only send if it was cancelled recently to avoid infinite sending": a   *)
(* further CancelJob cannot reopen the window of a cancelled job, so each  *)
(* cancellation is sent for CancelWindow seconds and no longer.            *)
CancelWindowIsNotReopened ==
  [][\A j \in list_jobs("CANCELLED") :
       HasStatus(j, {"CANCELLED"})' => jobs'[j].completed_at = jobs[j].completed_at]_jobs

=============================================================================

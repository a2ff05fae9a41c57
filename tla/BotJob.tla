------------------------------- MODULE BotJob -------------------------------
(***************************************************************************)
(* The lifecycle of one Bot job: its statuses, the triggers of the state   *)
(* machine and the row operations the store builds from them.  Everything  *)
(* here is a constant-level operator: the modules that own the job table   *)
(* apply these operators to the rows they keep.                            *)
(***************************************************************************)
EXTENDS Integers

Phase == {"plan", "implementation"}

Status == {"queued_plan", "running_plan", "blocked_plan", "waiting_approval",
           "queued_implementation", "running_implementation",
           "ready_to_publish", "publishing", "retry_wait",
           "completed", "stale", "dead_letter", "cancelled"}

Terminal == {"completed", "stale", "dead_letter", "cancelled"}

(* The row of a job that has not been created yet.                         *)
Absent == "absent"

Active == Status \ Terminal

Queued == [plan |-> "queued_plan", implementation |-> "queued_implementation"]

Running == [plan |-> "running_plan",
            implementation |-> "running_implementation"]

RunningStatus == {Running[ph] : ph \in Phase}

(* The phase recorded for a retry, computed from the status that failed.   *)
PhaseOfRunning == [running_plan           |-> "plan",
                   running_implementation |-> "implementation"]

(***************************************************************************)
(* The transition table: where a trigger may fire and where it leads.      *)
(* Every trigger of the state machine has exactly one target.              *)
(***************************************************************************)
Sources ==
  [claim_plan              |-> {"queued_plan"},
   plan_ready              |-> {"running_plan"},
   plan_blocked            |-> {"running_plan"},
   reply_received          |-> {"blocked_plan"},
   implementation_approved |-> {"waiting_approval"},
   claim_implementation    |-> {"queued_implementation"},
   implementation_ready    |-> {"running_implementation"},
   begin_publish           |-> {"ready_to_publish"},
   publish_complete        |-> {"publishing"},
   schedule_retry          |-> {"running_plan", "running_implementation",
                                "publishing"},
   resume_plan             |-> {"retry_wait"},
   resume_implementation   |-> {"retry_wait"},
   resume_publish          |-> {"retry_wait"},
   exhaust_retries         |-> {"retry_wait"},
   mark_stale              |-> {"waiting_approval", "running_implementation",
                                "ready_to_publish", "publishing"},
   cancel                  |-> {"queued_plan", "running_plan", "blocked_plan",
                                "waiting_approval", "queued_implementation",
                                "running_implementation", "ready_to_publish",
                                "retry_wait"}]

TargetOf ==
  [claim_plan              |-> "running_plan",
   plan_ready              |-> "waiting_approval",
   plan_blocked            |-> "blocked_plan",
   reply_received          |-> "queued_plan",
   implementation_approved |-> "queued_implementation",
   claim_implementation    |-> "running_implementation",
   implementation_ready    |-> "ready_to_publish",
   begin_publish           |-> "publishing",
   publish_complete        |-> "completed",
   schedule_retry          |-> "retry_wait",
   resume_plan             |-> "queued_plan",
   resume_implementation   |-> "queued_implementation",
   resume_publish          |-> "ready_to_publish",
   exhaust_retries         |-> "dead_letter",
   mark_stale              |-> "stale",
   cancel                  |-> "cancelled"]

Allowed(st, trigger) == st \in Sources[trigger]

(* Mutant: every retry resumes the implementation.                         *)
ResumeImplementation == [plan           |-> "resume_implementation",
                         implementation |-> "resume_implementation"]

(* RESUME_RETRY is dispatched on the retry phase recorded in the row; no   *)
(* failure records the phase "publish" the table also knows.               *)
ResumeTrigger == [plan           |-> "resume_plan",
                  implementation |-> "resume_implementation"]
=============================================================================

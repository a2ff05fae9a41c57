----------------------------- MODULE BotWorkers -----------------------------
(***************************************************************************)
(* The job table of the bot and the processes that share it: the slots of  *)
(* the Worker, which claim jobs under a lease and run an Agent, and the    *)
(* Control process, which prepares workspaces, takes the commands of the   *)
(* maintainers and publishes.  Rows are written by compare-and-swap on a   *)
(* version number; some writes check the lease owner too.                  *)
(*                                                                         *)
(* Two abstractions stand for the numbers of the code.  A lease deadline   *)
(* is the flag "live" of the row (it has not passed).  The version a       *)
(* process read is the flag "fresh" of the process: nobody wrote the row   *)
(* since it was read.  A compare-and-swap succeeds exactly when the flag   *)
(* holds, because every write of the row increments its version.           *)
(***************************************************************************)
EXTENDS BotJob, Sequences, FiniteSets

CONSTANTS
  Slots,       \* asyncio tasks of the Worker processes that run jobs
  PhaseOf,     \* the phase each slot serves
  WorkerOf,    \* the worker_id each slot puts into the leases it takes
  Desk,        \* the process that answers webhook commands in Control
  Dispatcher,  \* the process that delivers outbox events in Control
  NumJobs,     \* jobs that may be created
  RepoOf,      \* the repository of each job
  IssueOf,     \* the issue of each job
  MaxPlans,    \* bound: plan artifacts saved for one job
  MaxFaults,   \* bound: crashes, stalls and failed deliveries
  MayStall     \* may a process pause for longer than a lease?

NoWorker == "none"
NoPhase == "none"
NoEvent == "none"

Job == 1 .. NumJobs
Worker == {WorkerOf[s] : s \in Slots}
Process == Slots \cup {Desk, Dispatcher}

(* The attempt number from which a failed run is not retried any more.     *)
AttemptLimit == 3

ASSUME ConstantsAssumption ==
  /\ NumJobs \in Nat \ {0}
  /\ MaxPlans \in Nat \ {0}
  /\ MaxFaults \in Nat
  /\ MayStall \in BOOLEAN
  /\ PhaseOf \in [Slots -> Phase]
  /\ DOMAIN WorkerOf = Slots
  /\ DOMAIN RepoOf = Job
  /\ DOMAIN IssueOf = Job
  /\ NoWorker \notin Worker
  /\ Desk \notin Slots
  /\ Dispatcher \notin Slots
  /\ Desk # Dispatcher

(* Outbox events with a fixed idempotency key per job that matter here.    *)
PrepareEvent == {"prepare_plan", "prepare_reply", "prepare_implementation"}
Event == PrepareEvent \cup {"comment_plan", "publish"}

EventPhase == [prepare_plan           |-> "plan",
               prepare_reply          |-> "plan",
               prepare_implementation |-> "implementation"]

VARIABLES
  jobs,      \* the table bot_jobs
  proc,      \* the control state of every process
  outbox,    \* the table outbox_events, by job and event
  evidence,  \* per job: artifacts, the state of its Sessions, its inbox
  claimant,  \* history: the slot whose claim of the job was the last
  faults,    \* faults spent so far
  stalled    \* history: has a lease run out under a run that still held the job?

vars == <<jobs, proc, outbox, evidence, claimant, faults, stalled>>

-----------------------------------------------------------------------------
(* Types.                                                                  *)

Row == [status     : Status \cup {Absent},
        owner      : Worker \cup {NoWorker},
        live       : BOOLEAN,
        ready      : SUBSET Phase,
        session    : SUBSET Phase,
        retryPhase : Phase \cup {NoPhase},
        attempts   : [Phase -> 0 .. AttemptLimit],
        pinned     : 0 .. MaxPlans,
        approval   : 0 .. MaxPlans]

(* The steps of the code at which each kind of process may be.             *)
SlotLabel == {"idle", "claimed", "reclaimed", "session", "running", "beat",
              "progress", "policy", "ended", "finish", "failing",
              "mismatch", "retry", "bury", "exhaust", "down"}

DeskLabel == {"idle", "implement"}

DispatcherLabel == {"idle", "preparing", "prepared", "verify", "push",
                    "settle"}

LabelOf(p) == IF p \in Slots THEN SlotLabel
              ELSE IF p = Desk THEN DeskLabel ELSE DispatcherLabel

(* A busy process has a job, and the dispatcher an event.                  *)
ProcessState(p) ==
  {st \in [pc : LabelOf(p), job : 0 .. NumJobs, fresh : BOOLEAN,
           event : Event \cup {NoEvent}] :
     /\ st.pc \notin {"idle", "down"} => st.job # 0
     /\ st.fresh => st.job # 0
     /\ st.pc \in {"preparing", "prepared"} => st.event \in PrepareEvent
     /\ st.pc \in {"verify", "push", "settle"} => st.event # NoEvent}

PlanStatus == {"ready", "blocked"}

EventStatus == {"absent", "due", "sent", "dead"}

Evidence == [plans : Seq(PlanStatus), draft : BOOLEAN, done : BOOLEAN,
             reply : BOOLEAN]

NoSlot == "nobody"

-----------------------------------------------------------------------------
(* Control state of the processes.                                         *)

Rest == [pc |-> "idle", job |-> 0, fresh |-> FALSE, event |-> NoEvent]

At(p, label) == proc[p].pc = label

RowOf(p) == jobs[proc[p].job]

Goto(p, label) ==
  proc' = [proc EXCEPT ![p] = [@ EXCEPT !.pc = label, !.fresh = FALSE]]

(* The process reads the row and keeps the version it saw.                 *)
ReadThen(p, label) ==
  proc' = [proc EXCEPT ![p] = [@ EXCEPT !.pc = label, !.fresh = TRUE]]

Leave(p) == proc' = [proc EXCEPT ![p] = Rest]

(* After a write of the row j nobody holds its version any more.           *)
Outdated(state, j) ==
  [q \in Process |-> IF state[q].job = j THEN [state[q] EXCEPT !.fresh = FALSE]
                     ELSE state[q]]

(* Process p writes its row; its own control state becomes next.           *)
Write(p, row, next) ==
  /\ jobs' = [jobs EXCEPT ![proc[p].job] = row]
  /\ proc' = [Outdated(proc, proc[p].job) EXCEPT ![p] = next]

(* Code between two awaits of one process runs without a task switch: the  *)
(* tasks of one event loop take turns.                                     *)
Synchronous(p) ==
  \/ proc[p].pc \in {"session", "beat", "progress", "policy", "finish",
                     "retry", "bury", "exhaust", "prepared", "settle"}
  \/ p \in Slots /\ PhaseOf[p] = "plan"
       /\ proc[p].pc \in {"claimed", "reclaimed"}

SameLoop(p, q) ==
  \/ p \in Slots /\ q \in Slots /\ WorkerOf[p] = WorkerOf[q]
  \/ p \notin Slots /\ q \notin Slots

Turn(p) == \A q \in Process \ {p} : SameLoop(p, q) => ~Synchronous(q)

(* The two checks of an update: version, and version with lease owner.     *)
Unchanged(p) == proc[p].fresh

Fenced(s) == proc[s].fresh /\ RowOf(s).owner = WorkerOf[s]

Unowned(row) == [row EXCEPT !.owner = NoWorker, !.live = FALSE]

Moved(row, trigger) == [row EXCEPT !.status = TargetOf[trigger]]

-----------------------------------------------------------------------------
(* Initially no job exists and every process is idle.                      *)

NewRow == [status |-> Absent, owner |-> NoWorker, live |-> FALSE,
           ready |-> {}, session |-> {}, retryPhase |-> NoPhase,
           attempts |-> [ph \in Phase |-> 0], pinned |-> 0, approval |-> 0]

NoEvidence == [plans |-> <<>>, draft |-> FALSE, done |-> FALSE,
               reply |-> FALSE]

Init ==
  /\ jobs = [j \in Job |-> NewRow]
  /\ proc = [p \in Process |-> Rest]
  /\ outbox = [j \in Job |-> [e \in Event |-> "absent"]]
  /\ evidence = [j \in Job |-> NoEvidence]
  /\ claimant = [j \in Job |-> NoSlot]
  /\ faults = 0
  /\ stalled = FALSE

-----------------------------------------------------------------------------
(* Commands of the maintainers.  A command that reads a row and writes it  *)
(* without awaiting in between either sees no other writer, and is then    *)
(* one step, or fails the version check and changes nothing.               *)

(* Mutant: a command does not count up the version of the row.             *)
CommandUnversioned(j, row) ==
  /\ Turn(Desk)
  /\ jobs' = [jobs EXCEPT ![j] = row]
  /\ UNCHANGED <<proc, claimant, faults, stalled>>

(* A command writes row j between two awaits of the Control process.       *)
Command(j, row) ==
  /\ Turn(Desk)
  /\ jobs' = [jobs EXCEPT ![j] = row]
  /\ proc' = Outdated(proc, j)
  /\ UNCHANGED <<claimant, faults, stalled>>

(* /osc-agent plan: one active job per issue, with its prepare event.      *)
PlanCommand(j) ==
  /\ jobs[j].status = Absent
  /\ \A k \in Job : k < j => jobs[k].status # Absent
  /\ \A k \in Job : IssueOf[k] = IssueOf[j] => jobs[k].status \notin Active
  /\ outbox' = [outbox EXCEPT ![j]["prepare_plan"] = "due"]
  /\ Command(j, [NewRow EXCEPT !.status = "queued_plan"])
  /\ UNCHANGED evidence

(* Mutant: the reply drops the plans it answers.                           *)
ReplyDropsPlans(j) ==
  /\ Allowed(jobs[j].status, "reply_received")
  /\ "plan" \in jobs[j].session
  /\ evidence' = [evidence EXCEPT ![j].reply = TRUE, ![j].plans = <<>>]
  /\ outbox' = [outbox EXCEPT ![j]["prepare_reply"] = "due"]
  /\ Command(j, [Unowned(Moved(jobs[j], "reply_received"))
                   EXCEPT !.ready = @ \ {"plan"}])

(* /osc-agent reply: the answer is stored and the Plan is queued again     *)
(* behind a new preparation of its workspace.                              *)
ReplyCommand(j) ==
  /\ Allowed(jobs[j].status, "reply_received")
  /\ "plan" \in jobs[j].session
  /\ evidence' = [evidence EXCEPT ![j].reply = TRUE]
  /\ outbox' = [outbox EXCEPT ![j]["prepare_reply"] = "due"]
  /\ Command(j, [Unowned(Moved(jobs[j], "reply_received"))
                   EXCEPT !.ready = @ \ {"plan"}])

(* /osc-agent retry resumes the phase recorded when the run failed.        *)
RetryCommand(j) ==
  /\ jobs[j].status = "retry_wait"
  /\ jobs[j].retryPhase \in Phase
  /\ Command(j, [Moved(jobs[j], ResumeTrigger[jobs[j].retryPhase])
                   EXCEPT !.retryPhase = NoPhase])
  /\ UNCHANGED <<outbox, evidence>>

(* Mutant: a cancelled job keeps its lease.                                *)
CancelKeepsLease(j) ==
  /\ jobs[j].status \in Active
  /\ Allowed(jobs[j].status, "cancel")
  /\ Command(j, Moved(jobs[j], "cancel"))
  /\ UNCHANGED <<outbox, evidence>>

(* /osc-agent cancel, in every active status but publishing.               *)
CancelCommand(j) ==
  /\ jobs[j].status \in Active
  /\ Allowed(jobs[j].status, "cancel")
  /\ Command(j, Unowned(Moved(jobs[j], "cancel")))
  /\ UNCHANGED <<outbox, evidence>>

(* /osc-agent implement reads the job, then asks GitHub for the head of    *)
(* the default branch, then writes.                                        *)
ImplementCommand(j) ==
  /\ At(Desk, "idle") /\ Turn(Desk)
  /\ jobs[j].status = "waiting_approval"
  /\ jobs[j].pinned # 0
  /\ proc' = [proc EXCEPT ![Desk] = [Rest EXCEPT !.pc = "implement",
                                                 !.job = j, !.fresh = TRUE]]
  /\ UNCHANGED <<jobs, outbox, evidence, claimant, faults, stalled>>

(* Mutant: the approval is written without its version check.              *)
ApproveUnversioned ==
  /\ At(Desk, "implement") /\ Turn(Desk)
  /\ LET row == RowOf(Desk)
         j   == proc[Desk].job
     IN  /\ evidence[j].plans[row.pinned] = "ready"
         /\ outbox[j]["prepare_implementation"] = "absent"
         /\ outbox' = [outbox EXCEPT ![j]["prepare_implementation"] = "due"]
         /\ Write(Desk, [Moved(row, "implementation_approved") EXCEPT
                           !.approval = row.pinned,
                           !.ready = @ \ {"implementation"}], Rest)
  /\ UNCHANGED <<evidence, claimant, faults, stalled>>

(* The head is still the approved base: the approval names the plan.       *)
Approve ==
  /\ At(Desk, "implement") /\ Turn(Desk) /\ Unchanged(Desk)
  /\ LET row == RowOf(Desk)
         j   == proc[Desk].job
     IN  /\ evidence[j].plans[row.pinned] = "ready"
         /\ outbox[j]["prepare_implementation"] = "absent"
         /\ outbox' = [outbox EXCEPT ![j]["prepare_implementation"] = "due"]
         /\ Write(Desk, [Moved(row, "implementation_approved") EXCEPT
                           !.approval = row.pinned,
                           !.ready = @ \ {"implementation"}], Rest)
  /\ UNCHANGED <<evidence, claimant, faults, stalled>>

(* The default branch moved since the plan was made.                       *)
BaseMoved ==
  /\ At(Desk, "implement") /\ Turn(Desk) /\ Unchanged(Desk)
  /\ Write(Desk, Moved(RowOf(Desk), "mark_stale"), Rest)
  /\ UNCHANGED <<outbox, evidence, claimant, faults, stalled>>

ImplementConflict ==
  /\ At(Desk, "implement") /\ Turn(Desk) /\ ~Unchanged(Desk)
  /\ Leave(Desk)
  /\ UNCHANGED <<jobs, outbox, evidence, claimant, faults, stalled>>

-----------------------------------------------------------------------------
(* The Worker: claiming and starting a run.                                *)

(* Mutant: the lock is not tested when a running job is reclaimed.         *)
RepositoryFreeForQueued(j) ==
  jobs[j].status = "queued_implementation" =>
    \A k \in Job \ {j} : RepoOf[k] = RepoOf[j] =>
      ~(jobs[k].status = "running_implementation" /\ jobs[k].live)

(* No other job of the repository is being implemented under a live lease. *)
RepositoryFree(j) ==
  \A k \in Job \ {j} : RepoOf[k] = RepoOf[j] =>
    ~(jobs[k].status = "running_implementation" /\ jobs[k].live)

(* Mutant: only queued jobs are claimed, a dead run is not reclaimed.      *)
ClaimableQueued(s, j) ==
  LET ph == PhaseOf[s]
  IN  /\ jobs[j].status = Queued[ph]
      /\ ph \in jobs[j].ready
      /\ ~jobs[j].live
      /\ ph = "implementation" => RepositoryFree(j)

Claimable(s, j) ==
  LET ph == PhaseOf[s]
  IN  /\ jobs[j].status \in {Queued[ph], Running[ph]}
      /\ ph \in jobs[j].ready
      /\ ~jobs[j].live
      /\ ph = "implementation" => RepositoryFree(j)

(* A slot that failed stops its process: the others finish, none claims.   *)
Draining(s) == \E t \in Slots : WorkerOf[t] = WorkerOf[s] /\ At(t, "down")

(* One more attempt; only the comparison with the limit matters.           *)
NextAttempt(n) == IF n < AttemptLimit THEN n + 1 ELSE AttemptLimit

(* Mutant: a reclaim keeps the owner that is already in the row.           *)
ClaimedRowKeepsOwner(s, row) ==
  [row EXCEPT !.status = Running[PhaseOf[s]],
              !.attempts[PhaseOf[s]] = NextAttempt(@),
              !.owner = IF @ = NoWorker THEN WorkerOf[s] ELSE @,
              !.live = TRUE]

ClaimedRow(s, row) ==
  [row EXCEPT !.status = Running[PhaseOf[s]],
              !.attempts[PhaseOf[s]] = NextAttempt(@),
              !.owner = WorkerOf[s], !.live = TRUE]

(* The oldest candidate is taken: jobs are numbered by creation.           *)
Claim(s, j) ==
  /\ At(s, "idle") /\ Turn(s) /\ ~Draining(s)
  /\ Claimable(s, j)
  /\ \A k \in Job : k < j => ~Claimable(s, k)
  /\ jobs' = [jobs EXCEPT ![j] = ClaimedRow(s, jobs[j])]
  /\ proc' = [Outdated(proc, j) EXCEPT ![s] =
                [Rest EXCEPT !.job = j,
                             !.pc = IF PhaseOf[s] \in jobs[j].session
                                    THEN "reclaimed" ELSE "claimed"]]
  /\ claimant' = [claimant EXCEPT ![j] = s]
  /\ UNCHANGED <<outbox, evidence, faults, stalled>>

(* What the run already produced: a plan artifact, or a completed          *)
(* implementation Session with its delivery draft.                         *)
AlreadyProduced(s) ==
  LET e == evidence[proc[s].job]
  IN  IF PhaseOf[s] = "plan" THEN e.plans # <<>>
      ELSE At(s, "reclaimed") /\ e.done /\ e.draft

(* The contract, the approval or the image does not validate, or the model *)
(* is not the one of the contract.                                         *)
Reject(s) ==
  /\ proc[s].pc \in {"claimed", "reclaimed"} /\ Turn(s)
  /\ \E label \in {"failing", "mismatch"} : Goto(s, label)
  /\ UNCHANGED <<jobs, outbox, evidence, claimant, faults, stalled>>

(* An implementation runs only on an approval of the pinned ready plan.    *)
Approved(row, e) ==
  /\ row.pinned # 0
  /\ row.approval = row.pinned
  /\ e.plans[row.pinned] = "ready"

(* A job that is not running any more is left alone; else the row just     *)
(* read is the one to move.                                                *)
ReadToFinish(s) ==
  IF RowOf(s).status # Running[PhaseOf[s]] THEN Leave(s)
  ELSE ReadThen(s, "finish")

Begin(s) ==
  /\ proc[s].pc \in {"claimed", "reclaimed"} /\ Turn(s)
  /\ PhaseOf[s] = "implementation" =>
       Approved(RowOf(s), evidence[proc[s].job])
  /\ IF AlreadyProduced(s) THEN ReadToFinish(s) /\ UNCHANGED evidence
     ELSE IF At(s, "claimed") THEN ReadThen(s, "session") /\ UNCHANGED evidence
     ELSE /\ Goto(s, "running")
          /\ evidence' = [evidence EXCEPT ![proc[s].job].reply =
                            @ /\ PhaseOf[s] # "plan"]
  /\ UNCHANGED <<jobs, outbox, claimant, faults, stalled>>

(* The first run of a phase records the Session it is about to open.       *)
OpenSession(s) ==
  /\ At(s, "session") /\ Turn(s) /\ Fenced(s)
  /\ Write(s, [RowOf(s) EXCEPT !.session = @ \cup {PhaseOf[s]}],
           [proc[s] EXCEPT !.pc = "running", !.fresh = FALSE])
  /\ evidence' = [evidence EXCEPT ![proc[s].job].reply =
                    @ /\ PhaseOf[s] # "plan"]
  /\ UNCHANGED <<outbox, claimant, faults, stalled>>

-----------------------------------------------------------------------------
(* The Worker: while the Agent runs.                                       *)

Lost(s) ==
  \/ RowOf(s).status = "cancelled"
  \/ RowOf(s).owner # WorkerOf[s]

(* The poll finds the job cancelled or leased to another worker.           *)
Abandon(s) ==
  /\ At(s, "running") /\ Turn(s) /\ Lost(s)
  /\ Leave(s)
  /\ UNCHANGED <<jobs, outbox, evidence, claimant, faults, stalled>>

(* The poll goes on to a heartbeat or to a progress marker.                *)
Poll(s) ==
  /\ At(s, "running") /\ Turn(s) /\ ~Lost(s)
  /\ \E label \in {"beat", "progress"} : ReadThen(s, label)
  /\ UNCHANGED <<jobs, outbox, evidence, claimant, faults, stalled>>

(* A heartbeat renews the lease, also one that has expired meanwhile.      *)
Heartbeat(s) ==
  /\ At(s, "beat") /\ Turn(s) /\ Fenced(s)
  /\ Write(s, [RowOf(s) EXCEPT !.live = TRUE],
           [proc[s] EXCEPT !.pc = "running", !.fresh = FALSE])
  /\ UNCHANGED <<outbox, evidence, claimant, faults, stalled>>

RecordProgress(s) ==
  /\ At(s, "progress") /\ Turn(s) /\ Fenced(s)
  /\ Write(s, RowOf(s), [proc[s] EXCEPT !.pc = "running", !.fresh = FALSE])
  /\ UNCHANGED <<outbox, evidence, claimant, faults, stalled>>

(* submit_issue_plan: the transaction checks the lease owner only.         *)
SubmitPlan(s, kind) ==
  /\ At(s, "running") /\ PhaseOf[s] = "plan"
  /\ RowOf(s).owner = WorkerOf[s]
  /\ Len(evidence[proc[s].job].plans) < MaxPlans
  /\ evidence' = [evidence EXCEPT ![proc[s].job].plans = Append(@, kind)]
  /\ UNCHANGED <<jobs, proc, outbox, claimant, faults, stalled>>

(* submit_delivery_draft, with the same check.                             *)
SubmitDraft(s) ==
  /\ At(s, "running") /\ PhaseOf[s] = "implementation"
  /\ RowOf(s).owner = WorkerOf[s]
  /\ evidence' = [evidence EXCEPT ![proc[s].job].draft = TRUE]
  /\ UNCHANGED <<jobs, proc, outbox, claimant, faults, stalled>>

(* The Session records that its run completed; no lease is checked.        *)
CompleteSession(s) ==
  /\ At(s, "running") /\ PhaseOf[s] = "implementation"
  /\ evidence' = [evidence EXCEPT ![proc[s].job].done = TRUE]
  /\ UNCHANGED <<jobs, proc, outbox, claimant, faults, stalled>>

(* A tool call meets the repository policy: the callback reads the job ... *)
ViolatePolicy(s) ==
  /\ At(s, "running") /\ Turn(s) /\ PhaseOf[s] = "implementation"
  /\ RowOf(s).status \notin Terminal
  /\ ReadThen(s, "policy")
  /\ UNCHANGED <<jobs, outbox, evidence, claimant, faults, stalled>>

(* ... and cancels it; the next poll stops the run.                        *)
TerminateForPolicy(s) ==
  /\ At(s, "policy") /\ Turn(s) /\ Fenced(s)
  /\ Allowed(RowOf(s).status, "cancel")
  /\ Write(s, Unowned(Moved(RowOf(s), "cancel")),
           [proc[s] EXCEPT !.pc = "running", !.fresh = FALSE])
  /\ UNCHANGED <<outbox, evidence, claimant, faults, stalled>>

(* A conflict becomes an error result of the tool call: the Agent goes on. *)
PolicyConflict(s) ==
  /\ At(s, "policy") /\ Turn(s) /\ ~Fenced(s)
  /\ Goto(s, "running")
  /\ UNCHANGED <<jobs, outbox, evidence, claimant, faults, stalled>>

(* The event stream ends: normally, or with an exception.                  *)
EndRun(s) ==
  /\ At(s, "running") /\ Turn(s) /\ ~Lost(s)
  /\ \/ /\ PhaseOf[s] = "implementation" => evidence[proc[s].job].done
        /\ Goto(s, "ended")
     \/ Goto(s, "failing")
  /\ UNCHANGED <<jobs, outbox, evidence, claimant, faults, stalled>>

-----------------------------------------------------------------------------
(* The Worker: finishing a run.                                            *)

(* Mutant: the delivery draft is not asked for.                            *)
HasProductUnchecked(s) ==
  PhaseOf[s] = "plan" => evidence[proc[s].job].plans # <<>>

HasProduct(s) ==
  LET e == evidence[proc[s].job]
  IN  IF PhaseOf[s] = "plan" THEN e.plans # <<>> ELSE e.draft

(* A run that left no product has failed.                                  *)
Conclude(s) ==
  /\ At(s, "ended") /\ Turn(s)
  /\ IF HasProduct(s) THEN ReadToFinish(s) ELSE Goto(s, "failing")
  /\ UNCHANGED <<jobs, outbox, evidence, claimant, faults, stalled>>

(* The key of the event a finished run inserts into the outbox.            *)
ResultEvent == [plan |-> "comment_plan", implementation |-> "publish"]

MayFinish(s) ==
  /\ Fenced(s)
  /\ outbox[proc[s].job][ResultEvent[PhaseOf[s]]] = "absent"

(* The latest plan is pinned; ready plans wait for approval.               *)
FinishPlan(s) ==
  /\ At(s, "finish") /\ Turn(s) /\ PhaseOf[s] = "plan" /\ MayFinish(s)
  /\ LET j       == proc[s].job
         latest  == Len(evidence[j].plans)
         trigger == IF evidence[j].plans[latest] = "ready" THEN "plan_ready"
                    ELSE "plan_blocked"
     IN  /\ Write(s, [Unowned(Moved(RowOf(s), trigger))
                        EXCEPT !.pinned = latest], Rest)
         /\ outbox' = [outbox EXCEPT ![j]["comment_plan"] = "due"]
  /\ UNCHANGED <<evidence, claimant, faults, stalled>>

FinishImplementation(s) ==
  /\ At(s, "finish") /\ Turn(s) /\ PhaseOf[s] = "implementation"
  /\ MayFinish(s)
  /\ Write(s, Unowned(Moved(RowOf(s), "implementation_ready")), Rest)
  /\ outbox' = [outbox EXCEPT ![proc[s].job]["publish"] = "due"]
  /\ UNCHANGED <<evidence, claimant, faults, stalled>>

(* Mutant: the event of the result is inserted before the row is checked.  *)
RunConflictAfterInsert(s) ==
  /\ Turn(s)
  /\ \/ /\ proc[s].pc \in {"session", "beat", "progress"} /\ ~Fenced(s)
        /\ UNCHANGED outbox
     \/ /\ At(s, "finish") /\ ~MayFinish(s)
        /\ outbox' = [outbox EXCEPT
                        ![proc[s].job][ResultEvent[PhaseOf[s]]] = "due"]
  /\ Goto(s, "failing")
  /\ UNCHANGED <<jobs, evidence, claimant, faults, stalled>>

(* A write of the run that does not succeed is an exception of the run.    *)
RunConflict(s) ==
  /\ Turn(s)
  /\ \/ proc[s].pc \in {"session", "beat", "progress"} /\ ~Fenced(s)
     \/ At(s, "finish") /\ ~MayFinish(s)
  /\ Goto(s, "failing")
  /\ UNCHANGED <<jobs, outbox, evidence, claimant, faults, stalled>>

-----------------------------------------------------------------------------
(* The Worker: a failed run.                                               *)

(* The handler reads the job again; it acts only on a job that its worker  *)
(* still owns and that still runs.                                         *)
HandleFailure(s) ==
  /\ proc[s].pc \in {"failing", "mismatch"} /\ Turn(s)
  /\ IF RowOf(s).owner = WorkerOf[s] /\ RowOf(s).status \in RunningStatus
     THEN ReadThen(s, IF At(s, "failing") THEN "retry" ELSE "bury")
     ELSE Leave(s)
  /\ UNCHANGED <<jobs, outbox, evidence, claimant, faults, stalled>>

(* Mutant: the phase to resume is not recorded.                            *)
ScheduleRetryForgetsPhase(s) ==
  /\ proc[s].pc \in {"retry", "bury"} /\ Turn(s) /\ Fenced(s)
  /\ LET phase == PhaseOfRunning[RowOf(s).status]
         last  == RowOf(s).attempts[phase] >= AttemptLimit
     IN  Write(s, Unowned(Moved(RowOf(s), "schedule_retry")),
               IF last \/ At(s, "bury")
               THEN [proc[s] EXCEPT !.pc = "exhaust", !.fresh = TRUE]
               ELSE Rest)
  /\ UNCHANGED <<outbox, evidence, claimant, faults, stalled>>

(* The job waits for /retry, or goes on to the dead letter: after the last *)
(* attempt, and always when the model contract does not match.             *)
ScheduleRetry(s) ==
  /\ proc[s].pc \in {"retry", "bury"} /\ Turn(s) /\ Fenced(s)
  /\ LET phase == PhaseOfRunning[RowOf(s).status]
         last  == RowOf(s).attempts[phase] >= AttemptLimit
     IN  Write(s, [Unowned(Moved(RowOf(s), "schedule_retry"))
                     EXCEPT !.retryPhase = phase],
               IF last \/ At(s, "bury")
               THEN [proc[s] EXCEPT !.pc = "exhaust", !.fresh = TRUE]
               ELSE Rest)
  /\ UNCHANGED <<outbox, evidence, claimant, faults, stalled>>

(* This write checks the version only.                                     *)
ExhaustRetries(s) ==
  /\ At(s, "exhaust") /\ Turn(s) /\ Unchanged(s)
  /\ Write(s, Moved(RowOf(s), "exhaust_retries"), Rest)
  /\ UNCHANGED <<outbox, evidence, claimant, faults, stalled>>

(* A conflict inside the handler is not caught: the slot dies.             *)
HandlerConflict(s) ==
  /\ Turn(s)
  /\ \/ proc[s].pc \in {"retry", "bury"} /\ ~Fenced(s)
     \/ At(s, "exhaust") /\ ~Unchanged(s)
  /\ proc' = [proc EXCEPT ![s] = [Rest EXCEPT !.pc = "down"]]
  /\ UNCHANGED <<jobs, outbox, evidence, claimant, faults, stalled>>

Stopped(w) == [p \in Process |-> IF p \in Slots /\ WorkerOf[p] = w THEN Rest
                                 ELSE proc[p]]

(* After a slot died the process exits and is started again.               *)
RestartWorker(w) ==
  /\ \E s \in Slots : WorkerOf[s] = w /\ At(s, "down")
  /\ proc' = Stopped(w)
  /\ UNCHANGED <<jobs, outbox, evidence, claimant, faults, stalled>>

(* The Worker process is killed and started again.                         *)
CrashWorker(w) ==
  /\ \E s \in Slots : WorkerOf[s] = w /\ ~At(s, "idle")
  /\ faults < MaxFaults
  /\ faults' = faults + 1
  /\ proc' = Stopped(w)
  /\ UNCHANGED <<jobs, outbox, evidence, claimant, stalled>>

(* A lease runs out.  A run heartbeats well before that, so its lease only *)
(* runs out when its process stalls.                                       *)
Expire(j) ==
  /\ jobs[j].live
  /\ IF \E s \in Slots : proc[s].job = j /\ WorkerOf[s] = jobs[j].owner
     THEN MayStall /\ faults < MaxFaults /\ faults' = faults + 1 /\ stalled' = TRUE
     ELSE UNCHANGED <<faults, stalled>>
  /\ jobs' = [jobs EXCEPT ![j].live = FALSE]
  /\ UNCHANGED <<proc, outbox, evidence, claimant>>

-----------------------------------------------------------------------------
(* Control: the outbox dispatcher.                                         *)

Deliver(j, e, result) == outbox' = [outbox EXCEPT ![j][e] = result]

(* Mutant: the event is completed before its work is done.                 *)
StartPrepareCompleting(j, e) ==
  /\ At(Dispatcher, "idle") /\ Turn(Dispatcher)
  /\ e \in PrepareEvent /\ outbox[j][e] = "due"
  /\ Deliver(j, e, "sent")
  /\ proc' = [proc EXCEPT ![Dispatcher] =
                [Rest EXCEPT !.pc = "preparing", !.job = j, !.event = e]]
  /\ UNCHANGED <<jobs, evidence, claimant, faults, stalled>>

(* A prepare event clones or checks the workspace, awaiting git ...        *)
StartPrepare(j, e) ==
  /\ At(Dispatcher, "idle") /\ Turn(Dispatcher)
  /\ e \in PrepareEvent /\ outbox[j][e] = "due"
  /\ proc' = [proc EXCEPT ![Dispatcher] =
                [Rest EXCEPT !.pc = "preparing", !.job = j, !.event = e]]
  /\ UNCHANGED <<jobs, outbox, evidence, claimant, faults, stalled>>

(* ... then reads the job again, whatever its status ...                   *)
ReadPrepared ==
  /\ At(Dispatcher, "preparing") /\ Turn(Dispatcher)
  /\ ReadThen(Dispatcher, "prepared")
  /\ UNCHANGED <<jobs, outbox, evidence, claimant, faults, stalled>>

(* ... and marks the workspace of the phase ready.                         *)
MarkReady ==
  /\ At(Dispatcher, "prepared") /\ Turn(Dispatcher) /\ Unchanged(Dispatcher)
  /\ Write(Dispatcher,
           [RowOf(Dispatcher) EXCEPT
              !.ready = @ \cup {EventPhase[proc[Dispatcher].event]}],
           [proc[Dispatcher] EXCEPT !.pc = "settle", !.fresh = FALSE])
  /\ UNCHANGED <<outbox, evidence, claimant, faults, stalled>>

(* A publish event of a job that can be published.                         *)
StartPublish(j) ==
  /\ At(Dispatcher, "idle") /\ Turn(Dispatcher)
  /\ outbox[j]["publish"] = "due"
  /\ jobs[j].status \in {"ready_to_publish", "publishing"}
  /\ Approved(jobs[j], evidence[j]) /\ evidence[j].draft
  /\ proc' = [proc EXCEPT ![Dispatcher] =
                [Rest EXCEPT !.pc = "verify", !.job = j, !.fresh = TRUE,
                             !.event = "publish"]]
  /\ UNCHANGED <<jobs, outbox, evidence, claimant, faults, stalled>>

(* A publish event of a job that cannot be published: done already, or     *)
(* refused until its delivery attempts are used up.                        *)
RefusePublish(j) ==
  /\ At(Dispatcher, "idle") /\ Turn(Dispatcher)
  /\ outbox[j]["publish"] = "due"
  /\ jobs[j].status \notin {"ready_to_publish", "publishing"}
  /\ Deliver(j, "publish",
             IF jobs[j].status = "completed" THEN "sent" ELSE "dead")
  /\ UNCHANGED <<jobs, proc, evidence, claimant, faults, stalled>>

(* The delivery is verified: publication begins, or goes on after a crash. *)
BeginPublish ==
  /\ At(Dispatcher, "verify") /\ Turn(Dispatcher) /\ Unchanged(Dispatcher)
  /\ Allowed(RowOf(Dispatcher).status, "begin_publish")
  /\ Write(Dispatcher, Moved(RowOf(Dispatcher), "begin_publish"),
           [proc[Dispatcher] EXCEPT !.pc = "push"])
  /\ UNCHANGED <<outbox, evidence, claimant, faults, stalled>>

ResumePublish ==
  /\ At(Dispatcher, "verify") /\ Turn(Dispatcher)
  /\ RowOf(Dispatcher).status = "publishing"
  /\ proc' = [proc EXCEPT ![Dispatcher].pc = "push"]
  /\ UNCHANGED <<jobs, outbox, evidence, claimant, faults, stalled>>

(* The default branch moved: before publication began, or before the push. *)
MarkStale ==
  /\ proc[Dispatcher].pc \in {"verify", "push"} /\ Turn(Dispatcher)
  /\ Unchanged(Dispatcher)
  /\ Write(Dispatcher, Moved(RowOf(Dispatcher), "mark_stale"),
           [proc[Dispatcher] EXCEPT !.pc = "settle", !.fresh = FALSE])
  /\ UNCHANGED <<outbox, evidence, claimant, faults, stalled>>

(* The branch is pushed and the pull request exists.                       *)
PublishComplete ==
  /\ At(Dispatcher, "push") /\ Turn(Dispatcher) /\ Unchanged(Dispatcher)
  /\ Write(Dispatcher, Unowned(Moved(RowOf(Dispatcher), "publish_complete")),
           [proc[Dispatcher] EXCEPT !.pc = "settle", !.fresh = FALSE])
  /\ UNCHANGED <<outbox, evidence, claimant, faults, stalled>>

(* The event is completed in a transaction of its own.                     *)
CompleteEvent ==
  /\ At(Dispatcher, "settle")
  /\ Deliver(proc[Dispatcher].job, proc[Dispatcher].event, "sent")
  /\ Leave(Dispatcher)
  /\ UNCHANGED <<jobs, evidence, claimant, faults, stalled>>

ControlStopped == [p \in Process |-> IF p \in Slots THEN proc[p] ELSE Rest]

(* A version conflict of the dispatcher is an unknown exception: Control   *)
(* exits and is started again, the event stays due.                        *)
DispatchConflict ==
  /\ proc[Dispatcher].pc \in {"prepared", "verify", "push"}
  /\ Turn(Dispatcher) /\ ~Unchanged(Dispatcher)
  /\ ~(At(Dispatcher, "verify") /\ RowOf(Dispatcher).status = "publishing")
  /\ proc' = ControlStopped
  /\ UNCHANGED <<jobs, outbox, evidence, claimant, faults, stalled>>

(* The Control process is killed, or an exception stops it.                *)
CrashControl ==
  /\ \E p \in {Desk, Dispatcher} : ~At(p, "idle")
  /\ faults < MaxFaults
  /\ faults' = faults + 1
  /\ proc' = ControlStopped
  /\ UNCHANGED <<jobs, outbox, evidence, claimant, stalled>>

(* A delivery fails for good and its event becomes a dead letter.          *)
GiveUp(j, e) ==
  /\ At(Dispatcher, "idle") /\ Turn(Dispatcher)
  /\ e \in PrepareEvent \cup {"publish"} /\ outbox[j][e] = "due"
  /\ faults < MaxFaults
  /\ faults' = faults + 1
  /\ Deliver(j, e, "dead")
  /\ UNCHANGED <<jobs, proc, evidence, claimant, stalled>>

-----------------------------------------------------------------------------
SlotStep(s) ==
  \/ \E j \in Job : Claim(s, j)
  \/ Reject(s) \/ Begin(s) \/ OpenSession(s)
  \/ Abandon(s) \/ Poll(s) \/ Heartbeat(s) \/ RecordProgress(s)
  \/ \E kind \in PlanStatus : SubmitPlan(s, kind)
  \/ SubmitDraft(s) \/ CompleteSession(s)
  \/ ViolatePolicy(s) \/ TerminateForPolicy(s) \/ PolicyConflict(s)
  \/ EndRun(s) \/ Conclude(s) \/ FinishPlan(s) \/ FinishImplementation(s)
  \/ RunConflict(s) \/ HandleFailure(s) \/ ScheduleRetry(s)
  \/ ExhaustRetries(s) \/ HandlerConflict(s)

DispatcherStep ==
  \/ \E j \in Job, e \in Event : StartPrepare(j, e)
  \/ ReadPrepared \/ MarkReady
  \/ \E j \in Job : StartPublish(j) \/ RefusePublish(j)
  \/ BeginPublish \/ ResumePublish \/ MarkStale \/ PublishComplete
  \/ CompleteEvent \/ DispatchConflict

MaintainerStep ==
  \/ \E j \in Job : \/ PlanCommand(j) \/ ReplyCommand(j) \/ RetryCommand(j)
                    \/ CancelCommand(j) \/ ImplementCommand(j)
  \/ Approve \/ BaseMoved \/ ImplementConflict

FaultStep ==
  \/ \E w \in Worker : CrashWorker(w)
  \/ CrashControl
  \/ \E j \in Job, e \in Event : GiveUp(j, e)

Next ==
  \/ \E s \in Slots : SlotStep(s)
  \/ DispatcherStep
  \/ MaintainerStep
  \/ FaultStep
  \/ \E w \in Worker : RestartWorker(w)
  \/ \E j \in Job : Expire(j)

Spec == Init /\ [][Next]_vars

-----------------------------------------------------------------------------
(* Properties.                                                             *)

(* Every variable has its type.  The plans pinned and approved exist.      *)
TypeOK ==
  /\ jobs \in [Job -> Row]
  /\ proc = [p \in Process |-> proc[p]]
  /\ \A p \in Process : proc[p] \in ProcessState(p)
  /\ outbox \in [Job -> [Event -> EventStatus]]
  /\ evidence \in [Job -> Evidence]
  /\ claimant \in [Job -> Slots \cup {NoSlot}]
  /\ faults \in 0 .. MaxFaults
  /\ \A j \in Job : /\ Len(evidence[j].plans) <= MaxPlans
                    /\ jobs[j].pinned <= Len(evidence[j].plans)

(* A write that passes its version check acts on the status it was decided *)
(* for: between the read of a row and the write nobody moved the job, on   *)
(* every path on which the code does not test the status again.            *)
ActsOn(p, st, row) ==
  st.fresh =>
    /\ st.pc = "implement" => row.status = "waiting_approval" /\ row.pinned # 0
    /\ st.pc = "verify" => row.status \in {"ready_to_publish", "publishing"}
    /\ st.pc = "push" => row.status = "publishing"
    /\ st.pc = "finish" => row.status = Running[PhaseOf[p]]
    /\ st.pc \in {"retry", "bury"} => row.status \in RunningStatus
    /\ st.pc = "exhaust" => row.status = "retry_wait"

CheckedIsCurrent == \A p \in Process : ActsOn(p, proc[p], RowOf(p))

(* The statuses from the approval to the pull request.                     *)
Implementing == {"queued_implementation", "running_implementation",
                 "ready_to_publish", "publishing", "completed"}

(* No line of code is written, and nothing is published, except for the    *)
(* plan a maintainer approved: from the approval to the pull request the   *)
(* approval names the pinned plan, and that plan is ready.  Plans are      *)
(* pinned by Worker slots, approvals given by Control, and both race with  *)
(* late submissions and retries.                                           *)
ApprovedPlanOnly ==
  \A j \in Job : jobs[j].status \in Implementing =>
    Approved(jobs[j], evidence[j])

(* A waiting retry remembers its phase, and an implementation that waits   *)
(* still carries the approval it was claimed under: /retry cannot resume a *)
(* job into a phase nobody approved.                                       *)
RetryKeepsApproval ==
  \A j \in Job : jobs[j].status = "retry_wait" =>
    /\ jobs[j].retryPhase \in Phase
    /\ jobs[j].retryPhase = "implementation" =>
         Approved(jobs[j], evidence[j])

(* A job is leased exactly while it runs: every way out of a running       *)
(* status gives the lease up, so that no job keeps the repository lock or  *)
(* the slot of a run that is over.                                         *)
LeasedIffRunning ==
  \A j \in Job :
    /\ jobs[j].owner # NoWorker <=> jobs[j].status \in RunningStatus
    /\ jobs[j].live => jobs[j].owner # NoWorker

(* Nothing is delivered without a draft of it.                             *)
DraftBeforeDelivery ==
  \A j \in Job :
    jobs[j].status \in {"ready_to_publish", "publishing", "completed"} =>
      evidence[j].draft

(* The owner check of a write identifies the process that writes: a slot   *)
(* whose check passes belongs to the Worker of the latest claim.  A run    *)
(* that another process has reclaimed can neither move the job nor add an  *)
(* artifact to it.  The slots of one process share the worker_id           *)
(* (agent_jobs.py:148), and the check does not tell them apart.            *)
LeaseIdentifiesWorker ==
  \A s \in Slots, j \in Job :
    proc[s].job = j /\ jobs[j].owner = WorkerOf[s] =>
      claimant[j] \in Slots /\ WorkerOf[claimant[j]] = WorkerOf[s]

(* At most one implementation of a repository runs under a live lease,     *)
(* until a process stalls for longer than a lease: its next heartbeat      *)
(* revives the lease, whoever has the repository by then (store.py:499).   *)
OneImplementationPerRepo ==
  ~stalled =>
    \A j, k \in Job :
      /\ j # k /\ RepoOf[j] = RepoOf[k]
      /\ jobs[j].status = "running_implementation" /\ jobs[j].live
      => ~(jobs[k].status = "running_implementation" /\ jobs[k].live)

(* Work is never forgotten between the job table and the outbox: a queued  *)
(* job whose workspace is not ready has a prepare event, and a finished    *)
(* implementation has a publish event, that is due or was given up.        *)
Outstanding(j, e) == outbox[j][e] \in {"due", "dead"}

WorkIsScheduled ==
  \A j \in Job :
    /\ jobs[j].status = "queued_plan" /\ "plan" \notin jobs[j].ready =>
         Outstanding(j, "prepare_plan") \/ Outstanding(j, "prepare_reply")
    /\ /\ jobs[j].status = "queued_implementation"
       /\ "implementation" \notin jobs[j].ready
       => Outstanding(j, "prepare_implementation")
    /\ jobs[j].status \in {"ready_to_publish", "publishing"} =>
         Outstanding(j, "publish")

(* The fixed idempotency keys of the approval and of the delivery are      *)
(* still unused when the write that inserts them is due, after any number  *)
(* of retries: a used key would fail that write forever.                   *)
KeysUnused ==
  \A j \in Job :
    /\ jobs[j].status = "waiting_approval" =>
         outbox[j]["prepare_implementation"] = "absent"
    /\ jobs[j].status = "running_implementation" =>
         outbox[j]["publish"] = "absent"

(* A reply is read by the planning run that follows it: no run of the Plan *)
(* is finished while a reply is still pending.                             *)
ReplyIsRead ==
  \A s \in Slots : At(s, "finish") /\ PhaseOf[s] = "plan" =>
    ~evidence[proc[s].job].reply

(* A violation of the repository policy ends the job at once: when the     *)
(* callback of the tool is over, the run has lost its job.                 *)
ViolationEndsJob ==
  [][\A s \in Slots : At(s, "policy") /\ proc'[s].pc = "running" =>
       Lost(s)']_vars

-----------------------------------------------------------------------------
(* The promise to the maintainers, as a refinement mapping.                *)

StageOf(row) ==
  CASE row.status = Absent -> "unasked"
    [] row.status \in {"queued_plan", "running_plan"} -> "planning"
    [] row.status = "retry_wait" ->
         IF row.retryPhase = "plan" THEN "planning" ELSE "building"
    [] row.status = "blocked_plan" -> "asking"
    [] row.status = "waiting_approval" -> "proposed"
    [] row.status \in {"queued_implementation", "running_implementation"} ->
         "building"
    [] row.status = "ready_to_publish" -> "delivered"
    [] row.status = "publishing" -> "publishing"
    [] row.status = "completed" -> "published"
    [] row.status = "stale" -> "outdated"
    [] row.status = "dead_letter" -> "failed"
    [] row.status = "cancelled" -> "withdrawn"

Promise == INSTANCE JobPromise WITH
             PlanId <- 1 .. MaxPlans,
             stage  <- [j \in Job |-> StageOf(jobs[j])],
             offer  <- [j \in Job |-> jobs[j].pinned],
             agreed <- [j \in Job |-> jobs[j].approval]

(* Claims, lost leases, crashes, retries and redelivered events stay       *)
(* invisible to the maintainers: every step of the table is a step of the  *)
(* promise or none at all.                                                 *)
KeepsPromise == Promise!Spec

-----------------------------------------------------------------------------
(* Progress.                                                               *)

(* The slots and the dispatcher poll in endless loops; systemd restarts a  *)
(* process that exits; time passes, so the lease of a dead run runs out;   *)
(* the run of an Agent is bounded by its rounds, so its stream ends, or    *)
(* its poll finds the job lost, however often it heartbeats before.        *)
Fairness ==
  /\ \A s \in Slots : /\ WF_vars(SlotStep(s))
                      /\ SF_vars(EndRun(s) \/ Abandon(s))
  /\ WF_vars(DispatcherStep)
  /\ \A w \in Worker : WF_vars(RestartWorker(w))
  /\ \A j \in Job : WF_vars(Expire(j))

FairSpec == Spec /\ Fairness

(* Nothing can happen to the job before a maintainer acts, or an event of  *)
(* the job was given up.                                                   *)
AtRest(j) ==
  \/ jobs[j].status \in Terminal \cup {Absent, "blocked_plan",
                                       "waiting_approval", "retry_wait"}
  \/ \E e \in Event : outbox[j][e] = "dead"

(* Every job always comes to rest again: through a crash of the Worker in  *)
(* the middle of a run, a crash of Control between a write and the         *)
(* completion of its event, or a slot that died on a version conflict.     *)
ComesToRest == \A j \in Job : []<>AtRest(j)

=============================================================================

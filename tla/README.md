# A verification of the open source contribution agent

`osc_agent` is an autonomous contributor for GitHub repositories.  It has two
faces: a local Agent (a loop of model turns and tool calls over a workspace),
and a Bot, in which maintainers drive jobs with issue comments, Workers run the
Agent under leases, and a Control process plans, approves and publishes.  This
directory holds TLA+ models of that code, the TLC runs that check them, and
TLAPS proofs about them.

The Bot came first, because there several processes share one SQLite database,
crash, retry and publish to the outside world.  The Agent runtime under it
follows: its loop, its Sessions, its evidence, its tools.

## Inventory

| Component | State it keeps | Operations | Interacts with |
|---|---|---|---|
| job lifecycle (`bot/domain/state_machine.py`, `jobs.py`, `execution.py`) | none: a transition table | `transition`, `can_transition`, `is_terminal`, contract and approval validation | applied by the store to rows |
| job table and outbox table (`bot/persistence/store.py`, `schema.py`) | `bot_jobs` with version, lease, attempts, readiness, sessions, pinned plan, approval; `outbox_events`; artifacts; inbox; approvals; webhook deliveries; audit | versioned and lease-checked writes, `claim_job`, `heartbeat`, `save_artifact`, `approve_implementation`, `enqueue_plan_reply`, `apply_job_event_with_outbox`, `next_outbox`, `complete_outbox`, `fail_outbox`, `delete_terminal_job` | every Bot process |
| Worker slots (`bot/worker/service.py`, `coordinator.py`) | asyncio tasks, a drain flag | claim, run, fail, retry, exhaust, drain, stop | job table, executors |
| executors (`bot/worker/agent_jobs.py`, `artifact_tools.py`, `policy.py`) | one run: contract, Session, event stream | validate, open or resume, poll, heartbeat, progress marker, submit artifacts, terminate on policy, finish | job table, Agent, session store |
| Control commands (`bot/control/handler.py`, `commands.py`) | none | plan, status, reply, retry, cancel, implement | job table, outbox, GitHub |
| outbox dispatcher (`bot/control/outbox.py`) | none besides the event it delivers | comments, three workspace preparations, publication; complete, retry, dead letter | job table, outbox, workspaces, publisher, GitHub |
| workspace preparation (`bot/control/job_workspace.py`) | clone and worktree on disk | clone, validate, mark ready | Git, job table |
| trusted publisher (`bot/control/publisher.py`, `workspaces/git_state.py`) | the clone: files, index, HEAD, local configuration | metadata and head checks, snapshot, stage, commit, push, pull request | Git, GitHub, job table |
| webhook intake and supervision (`bot/control/webhook.py`, `service.py`) | delivery ids, tasks | verify, deduplicate, dispatch; stop all when one stops | GitHub, commands |
| Bot session store (`bot/persistence/session_store.py`, `session_records.py`) | chained records, session leases | acquire, append, load, release | executors |
| maintenance and diagnostics (`bot/maintenance.py`, `entrypoint.py`, `diagnostics.py`) | none | retention, backup checks, doctor | job table, disk |
| Agent runtime (`runtime/`) | the transcript, plan mode, budgets, permissions, observations | rounds, tool batches, recovery, compaction, hooks, cancellation, resume | tools, gateway, session store |
| completion evidence (`completion/`) | none: reads the transcript | evaluate, stop hook | runtime |
| tools, processes, workspaces (`tools/`, `processes/`, `workspaces/`) | read observations, worktrees, child processes | read, write, edit, shell, plan, worktree | file system |
| skills and subagents (`skills/`, `subagents/`) | catalog, active skills, nested runs | discover, prepare, invoke, delegate | runtime |
| CLI, application, configuration, providers | wiring | argument parsing, composition, API calls | all |

What is hard in it:

* three kinds of processes (Worker slots, commands, dispatcher) write the same
  rows with compare-and-swap; most handlers read a row, await something, and
  write;
* a lease may run out under a run that is merely slow, and another slot then
  claims the same job; all slots of one process share one `worker_id`;
* the work of an outbox event and the completion of the event are separate
  transactions, and the process may die between them;
* a failed run, a retry, an exhausted retry and a mismatch of the model take
  the job through several writes, each of which may meet a conflict;
* publication is a long sequence of Git commands and GitHub requests over files
  another process can still write;
* a webhook is registered, handled and answered in separate steps, a comment is
  looked up, created and recorded in separate steps, and the answers of GitHub
  may be lost;
* a run of the Agent is cancelled at its awaits and its process dies between its
  writes, and the next run of the Session must make sense of what is there;
* the transcript is cut, projected and repaired, while permissions, observations
  of files, active Skills and evidence refer to what was in it;
* files, worktrees and branches change under the Agent: by its own shell
  commands, by child Agents, by other Sessions.

What makes each part correct: only the plan a maintainer approved is
implemented and published; leases belong to running jobs and identify their
process; at most one implementation per repository runs; work is never lost
between table and outbox; every job comes to rest; a cancellation and a
publication exclude each other; what is pushed is what was validated; a webhook
command takes effect once and its comment is posted once; a Session can be
resumed whoever died, its transcript answers every call once, and a run stays
inside its budgets; evidence is bound to the workspace it was collected on; no
file is overwritten on a stale observation and none is changed without leave;
and no work in a worktree is lost.  `PROJECT.json` lists
the hazards with their lines and the properties that cover them.
Paths in this document are relative to `src/osc_agent`.

## Modules

| Module | Models | Kind |
|---|---|---|
| `BotJob` | statuses, triggers, transition table, retry phase | constant operators |
| `BotWorkers` | job table, outbox keys, Worker slots, commands, dispatcher, crashes, leases | state machine |
| `JobPromise` | what the maintainers are promised about a job | abstract specification |
| `Publication` | one publish event from pick to settlement | state machine |
| `ControlIntake` | webhook deliveries in, comments out, supervisor, retention | state machine |
| `SessionLease` | one Session of a bot job between Worker processes | state machine |
| `QueryLoop` | the loop of a run: rounds, budgets, tool batches, stop hooks, resume | state machine |
| `SessionLog` | the file of a Session of the local Agent | state machine |
| `ContextProjection` | what a request to the model shows of the transcript | state machine |
| `CompletionRequirements` | what completion may ask for, and the merge of two demands | constant operators |
| `CompletionEvidence` | what the completion gate accepts | operators, and the transcripts they judge |
| `FileObservations` | reads, writes and edits of one path | state machine |
| `ToolPermissions` | decisions, grants, plan mode, Skills, a child Agent | state machine |
| `Worktrees` | worktrees and branches of several Sessions | state machine |
| `MCBotWorkers`, `MCCompletionEvidence`, `CompletionProfiles` | constants of instances for TLC | model checking |
| `MCQueryLoop`, `MCRecovery`, `MCAgent` | several instances of the modules above in one run of TLC | model checking |
| `BotWorkersProofs`, `PublicationProofs`, `RecoveryProofs`, `SessionLeaseProofs`, `QueryLoopProofs`, `AgentProofs`, `WorkspaceProofs`, `WorktreesProofs` | inductive invariants and theorems | proofs |

`BotWorkers` extends `BotJob` and instantiates `JobPromise` under a refinement
mapping (`StageOf`).  The other modules refine steps that a module above them
takes at once, and meet it in the state they share with it:

* `Publication` is what `BotWorkers` does between `StartPublish` and
  `CompleteEvent`, and `ControlIntake` what happens to a comment event between
  the use of its key and its completion, and to a command before it reaches the
  job;
* `SessionLease` is what a slot of `BotWorkers` does to its Session while it
  holds the lease of a job, `QueryLoop` is one run of the Agent in it, and
  `SessionLog` is how the appends and saves of `QueryLoop` reach the disk
  outside of the Bot;
* `ContextProjection` is the request of one round of `QueryLoop`,
  `ToolPermissions` the execution of one of its calls, `FileObservations` and
  `Worktrees` the tools behind it, `CompletionEvidence` the stop hook.

They are separate modules because the product of their states says nothing that
each alone does not.

### BotWorkers: state and actions against the code

* `jobs[j]` is the row of `bot_jobs`.  Fields that no property tells apart are
  left out; hashes of contract and plan become the index of the plan
  (`pinned`, `approval`), because the hash of an artifact is fixed when it is
  saved.
* The lease deadline is the flag `live`.  `Expire` clears it.  A run heartbeats
  long before its deadline, so while a slot holds the job under that owner the
  lease runs out only if its process stalls: that costs one of the `MaxFaults`,
  needs `MayStall`, and sets `stalled`, which is history.
* The version column is the flag `fresh` of the process that read the row.
  Every write clears the flag of all other processes on that job (`Outdated`),
  and a versioned write is enabled only under it (`Unchanged`); the writes of a
  run check the lease owner too (`Fenced`).
* `proc[p]` is where a process stands in its handler.  A label exists for every
  place where other processes may run: an await, or a transaction boundary
  between processes.  Code between two awaits runs without a task switch inside
  one event loop (`Synchronous`, `Turn`), but other *processes* may still write
  in between, which is why the read and the write of such a section are still
  two steps.
* plan, reply, retry and cancel read and write in one go; a lost race makes
  them fail without effect, so each is one action.  implement awaits GitHub
  between read and write: `ImplementCommand`, then `Approve`, `BaseMoved` or
  `ImplementConflict`.
* A run of the Agent is a free choice of its tool calls: it may submit plans or
  a draft, complete its Session, violate the policy, end or raise at any time.
* A conflict in a run is an exception of the run (`RunConflict`); in the failure
  handler it kills the slot (`HandlerConflict`), which drains and restarts its
  process (`Draining`, `RestartWorker`); in the dispatcher it ends Control
  (`DispatchConflict`).
* Outbox events are the five kinds with a fixed key per job.  The events that
  carry a reply are one event, made due again by each reply.  Retry times are
  left out: a failed delivery is retried or, as a fault, given up (`GiveUp`).
  Delivery of comments is a later module; here only the use of the key matters.
* `claimant` is history: the slot that claimed the job last.

Bounds: `NumJobs`, `MaxPlans` (artifacts per job), `MaxFaults`, and the attempt
counter, which saturates at `AttemptLimit = 3` since the code only compares it
with that limit.
`WorkerOf` gives the slots of a process one `worker_id`, as `agent_jobs.py:148` does.

### Publication: state and actions against the code

`pc` follows `TrustedPublisher.publish` step by step, one label per Git command
or GitHub request.  File contents are `draft` or `other`; `repo` is the clone
(files, index, commit, local identity).  `Patch` keeps that an untracked file is
rendered differently from a staged one.  `view` is the row the publisher holds;
the fields of the model never return to an earlier value, so comparing rows is
comparing versions.  `Tamper` is a run that lost its lease and has not polled
yet; `tampers` counts what it wrote.  The limits of the policy on the size of a change are a free refusal of
contents other than the drafted ones.  The attempt counter saturates at
`MostAttempts + 1`.

### ControlIntake: state and actions against the code

A delivery passes `Arrive` (the signature is checked before), its command's read
and write, each around an await of GitHub, and an answer; `handler[d]` is the
await it is in.  `registered` is `webhook_deliveries`: a row is written before the
command is handled and deleted again by the two handlers of exceptions that do
so.  `event[d]` is the comment event of the command, `at` the place of the
dispatcher in `deliver`: claim, lookup by marker, creation, completion.  A
request to GitHub may fail, also after it was obeyed.  `Die` ends the process;
the supervisor cancels the handlers when the dispatcher raises, and systemd
starts Control again (`Restart`).  `Comment` is a comment of another person: a
lookup sees `PageSize` comments only.  `Cleanup` is `cleanup_bot_state`:
job by job, the oldest first, table by table, until an error ends it (`stuck`);
`Referring` are the tables whose rows name a job.

### SessionLease: state and actions against the code

`job` and `lease` are the two rows a run depends on; each has an owner, and a
flag that says whether its time has come.  `run[r]` follows
`consume_runtime_events`: acquire, open with repair, ask, answer, poll,
heartbeat, stop.  The slots of a process share its `worker_id`, so they pass the same
owner check of the job, and a process remembers one run (`held`), whose row the
heartbeats of all of them renew.  A stall lets both leases of a run end without its
knowledge; a crash ends all runs of a process.  `late` is history: the runs
whose lease of the Session nobody renewed since the lease of their job ended, because
it ran out, or another slot of the process gave the job back, or it was cancelled.  `log` is the transcript in the database,
which is appended to without a look at the lease: that is the code.

### QueryLoop: state and actions against the code

`log` is the durable transcript, `saved` the last saved `AgentRunState`, `run`
the locals of `query`.  `Start` and `Resume` open a Session and repair it;
`EnterRound` checks the budgets; a model turn ends in calls, in a stop, cut off
at the limit of tokens, too long for the context, or in an error that the
gateway retries.  A batch partitions its calls as `tool_orchestration.py` does:
read-only calls next to each other run concurrently, the others one by one; the
state changes are applied in the order of the calls, saved, and the results
appended.  `CancelTools` and `Cancel` are the cancellation at the awaits;
`Die` drops `run` and keeps `log` and `saved`.  The prompts and the answers of
the model are free choices.

### SessionLog: state and actions against the code

`file` is a sequence of pieces: two halves of a record and the end of the line.
A death leaves some of them.  A load reads the pieces (`ReadFile`), rewrites the
file in place where the tail is partial (`EndLine`, `Truncate`, `Rewrite`), and
replays them (`Replay`); `lease` is the lock file of the
Session, which `list_overviews` and `latest_session_id` do not take, although they
repair as well.  `disturbed` is history: a lister has written to the file, or a process
has died between `Truncate` and `Rewrite`.

### ContextProjection: state and actions against the code

`log` is the transcript of numbered calls and their results; `Project` is the
pipeline: persist large results, replace old ones, keep within the budget,
compact when the text is too long.  A result is shown whole, as a preview with
the name of its file, or as a notice; `whole` and `partial` are the files.
`view` is what the last request showed: the first message it keeps, the
results in it, the form of each, and what the summary quotes of the last text of the
user (`Quote`: its first 1,000 characters).

### CompletionEvidence: state and actions against the code

The transcript of the results that count; `Next` lets the Agent write, test,
validate, ask, verify, report and submit in any order.  `Accepts` is
`CompletionEvaluator.evaluate` for a profile, from its parts (`TestMissing`,
`VerificationMissing`, `SnapshotMissing`, ...), and `Tighten` the merge of two
profiles.  The properties state what acceptance means without them: the
existence of results in the right order, each with the fingerprint of the
workspace as it is.

### FileObservations, ToolPermissions, Worktrees

* `FileObservations`: `disk[d]` is the path in a checkout, with a modification
  time; `obs` the observation in the state; `transcript` what the calls returned.
  `ReadText`, `ReadStat`, `Guard`, `WriteFile`, `EditFile` and
  `ObserveWritten` are what the tools do one after the other; another program
  may write between any two of them where `Within` says so.  An answer
  "unchanged" is an answer without content.  `nested`, `active` and `reviewed`
  follow a nested `AGENTS.md` from its discovery to the request that carries it.
  The tools compare sequences of paths (`Discovered`), which the resolver orders by
  depth (`Activated`) and the stored state by name (`Named`); `nested` says whether
  the name of the directory sorts before the root's file (`.github`) or after it.  What
  opens the next run orders them by depth again (`runtime/query.py:462`); a behaviour
  of the model is one run.
* `ToolPermissions`: `state[s]` holds mode, grants and active tools of the parent
  and of a child; a call is proposed, decided by rules, policy and mode, put to
  the user, and run in the mode and directory of that moment.  `Grant` is
  "allow always"; `excluded` is what a Skill took away.  `policy` is the policy
  the executor was made with and never changes.
* `Worktrees`: every check and Git command of `create` and `remove` is a step
  of `proc[s]` (`GitAdd`, `CheckDirty`, `CheckAhead`, `GitRemove`, `GitBranch`); the state of the Session is stored at the end.  A cancelled
  call leaves its thread running.  `kept` is history: worktrees with work that
  nobody decided to discard.

## Runs

| Run | Instance | Checks |
|---|---|---|
| `table` | 2 processes of a plan and an implementation slot each, 1 job, 2 plans, 1 fault, stalls | `TypeOK`, `CheckedIsCurrent`, `ApprovedPlanOnly`, `RetryKeepsApproval`, `LeasedIffRunning`, `LeaseIdentifiesWorker`, `DraftBeforeDelivery`, `WorkIsScheduled`, `KeysUnused` |
| `repository` | 2 implementation slots, 2 approved jobs of one repository, 1 fault, stalls | `OneImplementationPerRepo` |
| `rest` | 2 slots of one process, 1 job, 2 plans, 1 fault, fair | `ComesToRest`, `KeepsPromise` (refinement of `JobPromise`) |
| `reply` | 1 slot, 1 job, 2 plans | finding: `ReplyIsRead` |
| `policy` | 2 slots, 1 job, 1 fault | finding: `ViolationEndsJob` |
| `deliver` | modified files, 2 faults, 3 late writes | `TypeOK`, `CancelledIsUnpublished`, `CompletedHasPull`, `PushedIsValidated`, `EventIsSettled` |
| `recover` | 1 fault | finding: `CommitIsRecovered` |
| `instructions` | `FileObservations`: whole reads and writes under the instructions of two directories | finding: `ReviewIsEnough` |
| `session` | `SessionLease`: 2 processes of 2 slots, 4 claims, 2 calls, 1 crash, 2 stalls | `SessionStaysResumable`, `OneWriter`, `TimelyHoldsLease` |
| `loop` | two scenarios of `QueryLoop`, below | `ResultsFollowCalls`, `EffectsFollowCalls`, `LimitsHold`, `RunEnds` |
| `recovery` | three scenarios of two modules, below | 7 properties, below |
| `agent` | eight scenarios of five modules, below | 9 properties, below |

`loop`, `recovery` and `agent` put several small instances into one run.  The first
state chooses a `scenario`; from then on only the variables of its module move,
and those of the others are constant.  The states of the scenarios therefore
add up instead of multiplying.  The scenarios of one module differ in its
constants, or in the steps they leave out, so that each brings one kind of trouble
as far as TLC can follow it.
`table` has 413 000 states, `repository` 356 000, `session` 1 205 000.  The two processes of
`table` are alike, and so are the two slots of `repository` (symmetry): the code tells
them apart by nothing but their `worker_id`.

| Scenario of `loop` | Module and bounds | States | Brings |
|---|---|---|---|
| `limits` | `QueryLoop`: 2 runs, 3 rounds, 1 call in an answer, retries, compaction, 2 reasons of the stop hooks, 1 death | 293 000 | every limit, within a run and across runs |
| `tools` | `QueryLoop`: 2 runs of 1 round, 2 calls in an answer, reads, writes and Skills, 1 death | 90 000 | every batch, and every way to cut it off |

| Scenario of `recovery` | Module and bounds | States | Properties |
|---|---|---|---|
| `intake` | `ControlIntake`: 2 deliveries of plan and reply, 2 arrivals each, 2 failed requests, 1 death, 2 tries | 203 000 | `AppliedOnce`, `CommentedOnce`, `CompletedIsThere`, `AttemptsAreBounded`, `CommentsSettle` |
| `retention` | `ControlIntake`: plan, status and reply, 2 jobs, 1 failed request, 1 other comment, 2 retention periods | 76 000 | `CleanupStopsAtReplies`, and those of `intake` |
| `torn` | `SessionLog`: 2 processes and a lister, 4 records, 3 loads, 2 deaths anywhere, within a record or a repair as well | 856 000 | `RecordsSurvive` |

| Scenario of `agent` | Module and bounds | States | Properties |
|---|---|---|---|
| `order` | `CompletionEvidence`: 5 results, 2 contents, 2 verify Agents | 167 000 | `EvidenceInOrder` |
| `writes` | `CompletionEvidence`: 4 results, validations, several calls in one answer | 168 000 | `EvidenceInOrder` |
| `view` | `ContextProjection`: 3 calls and 2 texts, each of two sizes, 1 death | 231 000 | `ViewIsSound`, `ReadableStays` |
| `pages` | `FileObservations`: 4 calls in messages of up to 2, whole and page reads, 1 foreign change anywhere | 224 000 | `ReplacedWasKnown`, `ReadsSuffice` |
| `wholes` | `FileObservations`: 4 calls in messages of their own, whole reads in 2 checkouts with nested instructions, 1 foreign change anywhere | 414 000 | `ReplacedWasKnown`, `ReadsSuffice` |
| `permissions` | `ToolPermissions`: 5 calls under each of the three policies, answers of the user, a Skill, a child; the planning job starts in plan mode | 287 000 | `ChangesWereAllowed`, `PlanJobChangesNothing` |
| `kept` | `Worktrees`: 2 Sessions, 2 names, 3 creations, 1 cancellation or death | 242 000 | `WorkIsKept` |
| `calm` | `Worktrees`: 2 Sessions, 2 names, 4 creations, no stops | 89 000 | `WorkIsKept` |

Every action of every module is taken in one of its scenarios.

Why the bounds are enough.  The races of the job table need two slots on one
job and one further writer (a command, or a redelivered event): `table` has
them in both phases, with the stall or crash that lets the second slot claim.  A
reply makes the second planning run happen, so two plans are needed; a third
repeats the second.  The repository lock needs two jobs and two slots; `repository`
starts where both are approved and stops where one is over, because nothing
before or after concerns the lock.  The promise relates one job to another only
through their issue (the "one active job" rule and the order of creation);
`rest` follows one job, and `BotWorkers_promise.cfg`, run by hand like those below
and without a violation, two jobs of one issue.  `PromiseIsKept` is about any
number of jobs.  Publication is one event; two faults allow a failure of the
recovery itself, and three late writes are one more than `PushedIsValidated` speaks of,
so the other properties are checked beyond it.

For the scenarios: two arrivals and one death let a delivery come again before,
while and after its handler runs, and let a comment be retried after a lost
answer; the limit of tries is 2 instead of 5, since the code only compares with
it, and `RecoveryProofs` does not depend on it.  A Session needs four claims for a
run that comes back while its successor stalls too, and two slots in each of two
processes for a successor in another process or under the same `worker_id`; a second
death is left to the theorems.  Two calls in an answer are a batch
with an order, three kinds are a concurrent, an exclusive and a state-changing
tool.  The limits of the loop are 1 to 3 instead of the configured ones; they are compared and
counted, nothing else.  Four records, three loads and two deaths leave room for a torn
record, a death in its repair and a second torn one, while a lister reads.  Evidence needs a test, a report, a snapshot and a draft in
order, and one result that spoils it: five.  Three calls press the budgets of a
view from all sides, since a budget holds one large result and not two, and a text of the
user is longer than a quote or is not.  A file is refused, read and written again in
three calls, and in a fourth read again or written elsewhere; two calls in a message
are a read and a write of the same file, before or after two others.  A permission
needs a call that earns a grant, a change of mode or directory, and a call that
uses it; a child doubles that.  Worktrees collide with two Sessions and one
name; the second name shows that one Session leaves the other alone.

`CHECK_DEADLOCK FALSE` everywhere: a job that waits for a maintainer, or all of
whose events were given up, really stops, and commands carry no fairness.

### Fairness

`ComesToRest` and `EventIsSettled` assume what the code schedules by itself:
slots and dispatcher poll in endless loops (weak fairness of `SlotStep(s)` and
`DispatcherStep`, and of the publisher's `Dispatch`), systemd restarts a process
that exits (`RestartWorker`), time passes (`Expire`), and a run of the Agent ends,
because its rounds are bounded, however often it heartbeats before (strong
fairness of `EndRun \/ Abandon`: every heartbeat disables the end of the stream
for a moment).  `CommentsSettle` assumes the same of the dispatcher of
`ControlIntake` and of systemd (weak fairness of `Dispatch` and `Restart`), and
`RunEnds` that a run goes on while it can (weak fairness of `Advance` of
`QueryLoop`: the model answers or its request times out, tools return).  The deadline
of a run bounds the answers of the model and is compared between the rounds; the calls
of tools, and the request for a summary (`runtime/context.py:93`), return by assumption.
Maintainers, crashes and failures are never assumed to happen.

### What the findings show

* `reply`: `PlanJobExecutor.execute` returns with the newest plan artifact
  whenever one exists.  The run that a reply has queued therefore finishes with
  the blocked plan of the run before it, without reading the reply.
* `policy`: the callback that ends a job on a policy violation cancels it with
  the version it just read.  If a redelivered preparation writes the row in
  between, the conflict becomes an error result of the tool call and the run
  goes on.
* `recover`: the publisher configures a local Git identity before it commits,
  and refuses a workspace with a local identity when it starts.  A delivery
  that stopped after that point is refused until it is a dead letter, although
  a recovery for exactly this crash follows in the code.
* `instructions`: `write_file` and `edit_file` compare the instruction files of a path, which
  the resolver orders by depth, with those of the state, which are stored by name.  With
  `AGENTS.md` and `.github/AGENTS.md`, or `src/AGENTS.md` and `docs/x/AGENTS.md`, the two never
  agree in the run that discovers the second, and every write is refused, whatever was
  read and reviewed.  `ReviewIsEnoughInOrder` is what holds: where the two orders are
  the same, one refusal is enough.

### Departures the code shows

Properties that a doc, a comment, a message or a test of the repository states
and that the code does not keep were met in nearly every part.  Each has a configuration
of its own, with the smallest constants that show it, which is run by hand
(`tlc -config X.cfg M`, where `M` is the name before the underscore, and
`MCCompletionEvidence` for the first two) and ends in a violation.  The passing
runs check what holds beside it.

| Configuration | Property | At | What happens |
|---|---|---|---|
| `CompletionEvidence_fail` | `LatestFailInvalidates` | `completion/evaluator.py:105` | Two verify reports in one answer share a message index; a random id decides which is the latest, so a later FAIL may be passed over. |
| `CompletionEvidence_tighten` | `TightenOnlyTightens` | `completion/evaluator.py:81` | A waiver answered after the verification makes the lenient side refuse and the merge with a strict side accept. |
| `ContextProjection_page` | `PageIsShown` | `runtime/context.py:197` | The page that was just read is the longest result and is replaced first, its `next_offset` with it. |
| `ContextProjection_project` | `SessionsProject` | `runtime/session_store.py:310` | A death while a large result is written leaves a part of it; every later projection of the Session raises. |
| `ControlIntake_lost` | `FailedMayRetry` | `bot/control/webhook.py:84` | A death, or the cancellation by the supervisor, leaves a delivery registered whose command was never carried out. |
| `ControlIntake_cleanup` | `CleanupSucceeds` | `bot/persistence/store.py:866` | A job that received a reply cannot be deleted, and the cleanup stops there, every time. |
| `FileObservations_unchanged` | `UnchangedIsTrue` | `tools/filesystem.py:128` | After a page read of a changed file, a whole read is answered "unchanged" with reference to the old text. |
| `FileObservations_refused` | `WholeReadSuffices` | `tools/filesystem.py:76` | A repeated whole read does not complete the observation; the write stays refused. |
| `FileObservations_race` | `ReplacedWasKnown` | `tools/filesystem.py:225` | A change between the guard and the replacement is lost. |
| `FileObservations_review` | `RefusedIsReviewed` | `tools/filesystem.py:221` | The second write of one answer passes under instructions no request has carried. |
| `Publication_newfiles` | `StagingRefusesChanges` | `bot/control/publisher.py:123` | The snapshot renders an untracked file in a form of its own, and Git renders it after staging; the comparison of the two patches refuses every delivery that adds a file. |
| `SessionLease_stale` | `Resumable` | `bot/persistence/session_store.py:102` | A stalled run appends results of calls that its successor has answered; the Session can never be resumed again. |
| `SessionLog_list` | `AckedRecordsSurvive` | `runtime/session_store.py:207` | Listing Sessions repairs a file without its lease and removes a record appended meanwhile. |
| `SessionLog_recover` | `AckedRecordsSurvive` | `runtime/session_store.py:263` | A death within the repair, which empties the file first, loses the Session. |
| `ToolPermissions_planning` | `PlanModeChangesNothing` | `subagents/runner.py:102` | A child starts in default mode while its parent plans; with the user's leave it changes files. |
| `Worktrees_shared` | `EnteredIsOwn` | `workspaces/git_worktree.py:75` | After a death between the removal and the save, a Session resumes in a worktree another one has made. |
| `Worktrees_resume` | `SessionsResume` | `workspaces/git_worktree.py:76` | `git branch -d` is refused after the worktree is gone; the Session can never be resumed again. |

## Proofs

`BotWorkersProofs` has three parts.  The first proves, for any sets of slots, phases, worker ids, jobs,
repositories, issues, plans and faults, with or without stalls, from
`ConstantsAssumption`:

| Theorem | Property |
|---|---|
| `TypeCorrect` | `TypeOK` |
| `WritesAreCurrent` | `CheckedIsCurrent` |
| `OnlyApprovedPlans` | `ApprovedPlanOnly` |
| `RetriesKeepApproval` | `RetryKeepsApproval` |
| `LeasesEndWithRuns` | `LeasedIffRunning` |
| `LeasesIdentifyWorkers` | `LeaseIdentifiesWorker`, however many slots share a worker id |
| `RepositoryIsLocked` | `OneImplementationPerRepo`, which claims nothing after the first stall longer than a lease |

The inductive invariant is `IInv`: the types, `CheckedIsCurrent`, and `RowInv` of
each row with its evidence and its last claimant.  `CheckedIsCurrent` is what
carries the argument over an await: `ApprovedPlanOnly` alone is not inductive,
since `FinishImplementation` and `BeginPublish` move a job on the strength of a
status read in an earlier step; the flag `fresh` says the row is still the one
that was read.  The type invariant is needed for the same reason: the approved
plan exists (`pinned <= Len(plans)`), and plans are only appended
(`EvidenceGrows`), so a plan that was ready stays ready.  `RowInv` adds that an
owner is the worker id of the claimant, from which `LeasesIdentifyWorkers` follows.
That is as much as the owner check can tell: two slots of one process that both ran
the job, one before and one after a stall, both pass it.

The proof reduces a step to the row it writes and the process that takes it:
`FitStep` says a step preserves `IInv` if every row fits its job and every process
fits the rows; `ProcessStep`, `RowStep`, `CommandStep` and `WriteStep` are its forms
for a step that writes nothing, one row, a row by a command, and a row by a
process.  `MovedFits` and `SettledRow` treat the rows that leave a running status,
`OwnedRow` those that stay.  Then there is one lemma per action or per group of
like actions, and `NextIInv` collects them.

The repository lock needs one more invariant, `AttendedIsLive`: a slot that holds
a job under its claim has a live lease of it.  It lasts until `stalled` is set: a lease
then runs out under a run, a second job of the repository is claimed, and the
heartbeat of the first revives its lease (`store.py:499`), so two implementations
are live; `stalled` is never reset (`StallsStay`).  Given `AttendedIsLive`, only a claim
makes an implementation live (the lemmas `...NoNewLease`), and a claim looks for
live ones first.  The run `repository` starts from approved jobs; the theorem is
about `Spec`.

The second part of `BotWorkersProofs` proves, under the same assumption alone,
with or without stalls:

| Theorem | Property |
|---|---|
| `DeliveriesHaveDrafts` | `DraftBeforeDelivery` |
| `WorkStaysScheduled` | `WorkIsScheduled` |
| `KeysAreFresh` | `KeysUnused` |

The three are corollaries of one invariant, `WorkInv`, and none is inductive
alone: that queued work has its event rests on what the dispatcher is about to
complete having been done (`DispatcherWork`), that a delivery has its draft on
what a slot about to finish has produced (`FinishWork`), and that a key is
unused on which phase a retry returns to, and on its workspace being ready
(`JobWork`).

Its third part proves that `BotWorkers` implements `JobPromise`
(`PromiseIsKept`: `Spec => KeepsPromise`) for any constants, with or without
stalls.  `Stages` writes the refinement mapping out.  A step that keeps the
stage, the offer and the agreement of every job is a stutter (`Stutters`,
`RowStutters`); a row that a slot or the dispatcher settles moves its job one
stage onward (`Onward`, `RowMovesOn`); the commands are mapped one by one.  Both
invariants above are needed: the promise of an approval is only kept because the
row approved is the row read (`CheckedIsCurrent`), and that of a publication
because a job that publishes has been approved.

`PublicationProofs` proves, for deliveries with and without new files and any
number of faults, from `PublicationAssumption`:

| Theorem | Property |
|---|---|
| `TypeCorrect` | `TypeOK`: among others, at most one pull request, and deliveries within the limit and the faults |
| `CancelledStaysPrivate` | `CancelledIsUnpublished` |
| `CompletedIsPublished` | `CompletedHasPull` |
| `PushedAsValidated` | `PushedIsValidated`, which claims nothing after the third late write |

Its invariant has four parts.  `Rows`: the row the publisher holds is the row in
the table, or the table's was cancelled since; this is what a conflict means.
`Counted` bounds the deliveries by the limit and the faults.  `Stages` ties the
place in `publish` to the clone and to GitHub: before the publisher's identity
is set nothing is staged, committed, recorded or pushed, and afterwards no
delivery passes the first check again.  That is finding `recover` seen from the
other side: the one pull request of a job is safe because nothing is retried.
`Written`, for the last theorem only, says which content can be where after
which write.  It shows why two writes are the limit: one changes the files
before they are staged, the second restores them before they are compared, and
the comparison with the commit then fails; a third write would satisfy it, and TLC finds
that behaviour for the property without its premise.  Nothing in the code limits
these writes, so the premise counts those that were made, `tampers <= 2`.

`RecoveryProofs` proves of `ControlIntake`, for any deliveries, commands and bounds, from
`IntakeAssumption`:

| Theorem | Property |
|---|---|
| `CommandsApplyOnce` | `AppliedOnce` |
| `CommentsAreMadeOnce` | `CommentedOnce` |
| `CompletedEventsHaveComments` | `CompletedIsThere` |
| `TriesAreBounded` | `AttemptsAreBounded` |
| `CleanupsStopAtReplies` | `CleanupStopsAtReplies` |

The invariant is the types with `Handled` (a handler that has not written belongs
to a registered delivery without effect), `Posted` (a comment of a delivery is
there only once its event was claimed, and at most once while the
lookup sees all comments) and `Tried` (the tries of an event, with the one under
way, stay below the limit and the deaths).  None of the properties is inductive
alone: each speaks of what was written, and the danger is the handler or the
dispatcher that is about to write.  `CleanupsStopAtReplies` has an invariant of its own,
`Tables`, which says in which order jobs are created, end and get old: so the first
expired job whose deletion fails is the oldest one that is left, and what an
earlier cleanup deleted had neither event nor reply.

It also proves of `SessionLog`, for any runtimes, listers and numbers of records,
loads and deaths, in the scenario `torn` of `MCRecovery`:

| Theorem | Property |
|---|---|
| `RecordsAlwaysSurvive` | `RecordsSurvive`: `AckedRecordsSurvive` and `SessionStaysReadable` |

Its invariant, `LogInv`, is four statements that need each other.  `Shaped`: the
file is the beginning of a sequence of whole records in the order of their
numbers, so at most the last line is not one.  `Closed`, which only a runtime that
has loaded the Session may rely on: the last line has its end, so what is
appended is a line of its own; this is what a repair is for, and `PieceByPiece`
and `HeadAndRest` say that a death in the middle of an append leaves the
beginning of a shaped file and not a closed one.  `AllStored`: every acknowledged
record is in the file as a whole line; between `Truncate` and `Rewrite` the file
is empty and the same is said of the bytes in memory (`Holds`), and `StoredPrefix`
shows that what a repair leaves out follows the last end of a line and holds no
acknowledged record.  `Acknowledged`: a second record is begun only if the first
one was acknowledged, since nobody can load a Session without it; from this a
readable file and a Session that was created are the same, and the load does not
raise (`ReplayStep`, `ReadFileStep`).  The lock makes every other runtime idle
meanwhile (`OthersAreIdle`).  A lister may read at any time, a record half written as
well, and plan a repair of it; `ListerStep` says that it touches nothing before it
carries that out.  `LogInv` lasts while `disturbed` is false.  The property claims nothing
afterwards, because there the code loses records: `SessionLog_list` is the repair by a
lister, and `SessionLog_recover` the death between `Truncate` and `Rewrite`.

`SessionLeaseProofs` proves, for any processes, slots, claims, calls, deaths and
stalls, from `SessionLeaseAssumption`:

| Theorem | Property |
|---|---|
| `SessionIsTyped` | the `TypeOK` of `SessionLease`, which no run checks |
| `TimelyRunsHoldTheLease` | `TimelyHoldsLease` |
| `SessionIsResumable` | `SessionStaysResumable` |
| `SessionHasOneWriter` | `OneWriter` |

`TimelyHoldsLease` becomes inductive when it includes the runs that have entered
and not yet opened (`Timely`).  It rests on two details of the code: the `finally` of
`lease()` deletes the row of its own run only (`TimelyLeaves`), and a heartbeat renews
the row of the run that its process remembers, which with two slots need not be the
run that asks (`TimelyRuns`); the run that is renewed is no longer `late`.

The other two hold until the first stall, and `SessionLease_stale` shows that they
fail after it.  Their invariant is `Calm`.  `Sole`: a run that goes on has the job
under a lease that lasts, or the job was cancelled, so nobody can claim it.
`InStep`: call c stands at place 2c - 1 of the transcript and its result at 2c,
and an open run knows whether the last call still waits.  From it `PairsResume`
concludes that `_repair_interrupted_tool_uses` accepts the transcript, and
`OneDangles` that it finds at most one call to repair, which is why one result
appended when a Session is opened is enough.  Neither half stands alone: two
writers would break the pairs, and it is the transcript that `OneWriter` speaks of.

`AgentProofs` proves of `ToolPermissions`, for any inputs, any tools a Skill allows, any of
the policies and any number of calls, from `PermissionAssumption` and
`SkillAssumption`:

| Theorem | Property |
|---|---|
| `PermissionsAreTyped` | `TypeOK`, a part of `AgentTypeOK` |
| `ChangesAreAllowed` | `ChangesWereAllowed` |
| `PlanningChangesNothing` | `PlanJobChangesNothing` |

The properties speak of calls that were run.  The invariant `PermissionInv` says
the same of what waits: every grant, kept in the state or on its way in a call,
is one the user gave to this Session (`GrantsGiven`); no active tool is excluded,
and a call has an active tool (`CallPermitted`); a call that was allowed and may
change files has the leave of the user where the Session is now (`CallAllowed`,
which needs that nothing changes the directory between the decision and the
run: one call at a time in a Session, and the parent waits for its child,
`TurnsTaken`); and an allowed exit from plan mode was approved with the plan there
(`ExitApproved`, which `TurnsTaken` carries past a plan that is deleted while the
user is asked).

It proves of `ContextProjection`, for any calls, texts, limits and deaths, from
`ContextAssumption`:

| Theorem | Property |
|---|---|
| `ViewIsTyped` | its `TypeOK`, a part of `AgentTypeOK` |
| `PairsStayWhole` | `PairsAreWhole` |
| `NamedStaysStored` | `NamedIsStored` |
| `LatestTextStaysShown` | `LatestTextIsShown` |

The invariant is `ShownInv`.  `PairsOf` says of the transcript that results stand
right behind the message whose calls they are of, and that only the last message may
wait for them, while tools are at work.  The view of a request need not be a view of
the transcript as it is now, since a cancelled or failed request leaves it behind;
so `AskedView` speaks of the view between the projection and the answer.  It begins
where a round begins (`EndsBeforeRound`): `CutEndsBeforeRound` shows it of the
choice among the starts of the last rounds, however many of them are preserved, and
with `PairsOf` no result is shown without its call.  `LatestIsRecent` is the case
where the last text of the user is before the cut and the fallback summary quotes
it, up to 1,000 characters (`runtime/context.py:73`); of a summary the model writes
`LatestTextIsShown` says nothing.  `NamedIsStored` holds by the order of the steps in `Project`: a file is written
before the view that names it, and a partial one, left by a death, makes the projection
fail and is never named.  Which results are large, and which the budget replaces, is
left to the sums the code computes; no theorem depends on them.

`WorktreesProofs` proves, for any Sessions, names and numbers of calls and deaths:

| Theorem | Property |
|---|---|
| `WorktreesAreTyped` | the `TypeOK` of `Worktrees`, a part of `AgentTypeOK` |
| `NoWorkIsLost` | `WorkIsKept` |
| `SessionsAreApart` | `WorktreesAreExclusive` |
| `SessionsAreAtHome` | `EnteredStaysOwn` |

`MCAgent` checks the last three, in two scenarios, as its `WorkIsKept`.  That no work is lost does not follow from the checks of `remove`
alone, which read the tree and the branch in two steps before Git removes them in
two more.  `KeptInv` adds that between the two removals the branch is there and
its directory is not, so nobody can make the worktree anew and commit in it, that
one Session removes a name at a time, and that Git itself refuses what has become
dirty or ahead since (`Removing`, `RemovedOnce`).  The other two properties
claim nothing after the first cancelled call or death (`stops = 0`), because
then two Sessions do get into one worktree: `Worktrees_shared` shows it of `EnteredIsOwn`.
Their invariant `CalmInv`, kept until then (`CalmSoFar`), says which worktree a Session has,
from the moment its directory is made until its branch is gone (`Has`), that it owns it
(`Owns`), and that no other Session has it (`Apart`); the branch is the lock.

`WorkspaceProofs` proves of `FileObservations`, from `FilesAssumption`, for any checkouts,
messages and changes by other programs:

| Theorem | Property |
|---|---|
| `FilesAreTyped` | `TypeOK`, a part of `AgentTypeOK` |
| `WritesReplaceTheKnown` | `OnlyRacesAreBlind` |
| `WritesFollowInstructions` | `WritesAreInstructed` |
| `ReviewsAreEnough` | `ReviewIsEnoughInOrder` |
| `WholeReadsSuffice` | `RefusedOnlyPaged` |
| `UnchangedStaysTrue` | `UntrueOnlyAround` |
| `RetriesAreAccepted` | `RetryIsAccepted` |

Reads are whole or of a page, a message makes any number of calls, and other programs
write at every point of every tool (`Within` is any set of points).  Where the code
fails, the property names what has come between, as close to the failure as it is
true, and a configuration shows the failure: a text is replaced unknown only if a
program wrote between the guard and the observation (`raced`, `FileObservations_race`);
a whole read leaves the write refused only if it was answered as unchanged
after a page (`FileObservations_refused`); "unchanged" is untrue only after a page or a
message with two calls (`FileObservations_unchanged`), since the results of a message
stand after all its calls, so that `exact_read_seen` (`tools/filesystem.py:136`) finds
the read with no write after it; the second call of a message may write under
instructions that no request carried, but not the first (`FileObservations_review`); and
one review is enough unless the names and the depths of the instruction files
disagree (`FileObservations_instructions`).

`KnownInv` says, until the first race, that a complete observation is of a text the Agent
knows, and that from the guard on the file is what was observed or what the Agent wrote;
`GuardKnows` is where the comparison of the file with the observation comes in.
`InstructedInv` says that until the first call of a message is answered the active
instructions are those the last request carried, so a call that passes the guard was
made under them.  `ReviewInv` says that what a refusal has activated stays active until
the Agent moves.

`WholeInv` says that before the first page every observation there is is complete, in
the middle of a batch as well, and that a whole read that was made leaves a complete
one; only a file that was never read, or whose observation a change of worktree dropped,
is then refused as not fully read.  `SeenInv` relates the transcript to the state: while the
file is observed, and no page and no second call of a message has come, the last read
that no write follows showed the text of the observation, so what a read calls unchanged
is what was seen.  `RetryInv` follows a refusal: times of changes are unique, so an equal
time is an equal text; a refused write stands between the last exact read and the next
(`RefusedIsNotExact`), so this read is made and not answered from the transcript, and
what it leaves is a complete observation of the file as it was, which the guard of the
repeated write accepts.

The same module proves of `CompletionEvidence`, an instance of it whose constants
stay open, for any contents, validations, profiles and answers, from
`EvidenceAssumption`:

| Theorem | Property |
|---|---|
| `AcceptedIsInOrder` | `AcceptedInOrder` |
| `ValidatedAfterWrites` | `ValidatedSinceWrite` |
| `StrictSideAlwaysDecides` | `StrictSideDecides` |
| `ChecklistAlwaysSuffices` | `ChecklistSuffices` |

The evaluator has no state of its own, so the invariant is only `ResultsInOrder`:
results are appended with the number of their message, and several may have the same.
The work is in what the evaluator reads from them.  It takes the latest
result of a kind by message and then by an identity (`Latest`), and compares places
by message alone.  What is strictly earlier by message comes first in the transcript
(`EarlierComesFirst`); two results of one message are not ordered, and where the code
compares with "not before", the properties hold because both were made of the
workspace as it is (`Holds`).  `ValidatedSinceWrite` says of the configured
commands that each succeeded after the last write, and of the test only that it or, where
the profile allows it, its waiver was given for these files before the snapshot: a
waiver takes the place of the test that would follow the last write, and the
contribution Skill makes tests waivable.  `ChecklistAlwaysSuffices` is the other direction, that the gate opens
(`LastOfTools`: the last result of its kind, alone in its message, is the latest).

Finally `AgentProofs` proves of the specification `AgentSpec` of `MCAgent`, for any
bounds of its instances:

| Theorem | Property |
|---|---|
| `AgentIsTyped` | `AgentTypeOK` |
| `EvidenceStaysInOrder` | `EvidenceInOrder` |
| `ViewsStaySound` | `ViewIsSound` |
| `KnownTextsAreReplaced` | `ReplacedWasKnown` |
| `WholeReadsAlwaysSuffice` | `ReadsSuffice` |
| `WorkStaysKept` | `WorkIsKept` |

The theorems above are about modules, and `MCAgent` is made of instances of them.
So the proof instantiates the modules of proofs with the same values: `OrderPages`
and `WritesWholes` are `WorkspaceProofs`, `KeptTrees` and `CalmTrees` are
`WorktreesProofs`.  A lemma each says that the two instances are the same
(`OrderProved`, `PagesProved`, `KeptProved`, ...), and one that a behaviour of
`AgentSpec` is a behaviour of the instance or of another scenario (`OrderRun`,
`PagesRun`, `KeptRun`, ...), because no step changes the scenario.  The assumptions
of the theorems are those on the types and the bounds of an instance (`InstanceAssumption`).

`QueryLoopProofs` proves, for any kinds and numbers of calls, runs, rounds,
retries, deaths and limits, from `LoopAssumption`:

| Theorem | Property |
|---|---|
| `LoopTypeOK` | the `TypeOK` of `QueryLoop`, which no run checks |
| `ResultsAlwaysFollowCalls` | `ResultsFollowCalls` |
| `EffectsAlwaysFollowCalls` | `EffectsFollowCalls` |
| `LimitsAlwaysHold` | `LimitsHold` |
| `AlwaysRepairable` | `Repairable(log)`: the repair of a resume never raises |

The invariant `Inv` has four parts.  `Transcript` names a call by the place of
its message and its place in it, and says that the results after a message with
calls have the names of those calls, in their order (`Paired`), and that the last
message waits for results only while a run is at its tools or no run is there
(`Dangling`).  `ResultsFollowCalls` is not inductive without the second half: the
message a step appends must be results exactly when the last one waits.  From
`Paired` follow `OpenAfter` (what `_repair_interrupted_tool_uses` collects as open
is the calls of the last message or nothing), hence `PairedIsRepairable`, and
`InterruptedAnswers`: the message the repair appends answers each of them, in
order.  `OrderedIsOrdered` shows, with the pigeonhole principle of the library, that
the indices of a batch have one ascending order, which is what `Ordered` chooses.

`Saved` follows the effects through a batch: those of the last message that are
saved are the calls up to `run.committed`, and once the results are written,
those that have returned.  A batch is an interval of the calls that starts after
`committed` (`BatchIsInterval`), so its changes, taken in call order, are appended
behind all earlier ones (`ConcatChanges`, `CommitAdds`); a cancellation commits
what had settled, and reports the rest as cancelled or as not executed (`Told`).
`Limited` counts: a run starts with the recoveries that are in the log, and its
`blocks` are the length of the last row of equal refusals there (`LastRefused`), of
which there was at most one in a round; that is why a resume that counted from
zero would let a Session exceed its limit.

The module also proves about `Tighten` of `CompletionRequirements`, for all
requirements, that merging is commutative, associative and idempotent and
gives up no strict demand (`TightenIsOrderIndependent`), which
`completion/models.py:32` promises and `runtime/state.py` relies on.

Only model-checked:

* liveness under fairness, which is out of reach of the prover, as is `ENABLED`:
  `ComesToRest`, `EventIsSettled`, `CommentsSettle` and `RunEnds`;
* `ReadableStays` of `ContextProjection`: that a result once named is named again
  rests on the sums of the sizes, which the budget computes over the results by a
  fold, and what a fold computes for every input needs induction over data.

No module declares a RECURSIVE operator.

## What is not modelled

* the contents of contracts, plans, prompts, comments and tool results, and
  their wording; what the model, the user and repository hooks decide is a free
  choice;
* process runners: a command ends in one result, whatever its timeout, output
  limit or container did;
* glob, grep, Git queries and path resolution, which read and change nothing;
* discovery and parsing of Skills, the audit table, the check of the schema,
  diagnostics, metrics, backups and the removal of workspaces;
* wall-clock schedules of retries; resource pressure checks before a claim;
* CLI, wiring, configuration, provider adapters: I/O around the parts above.

Some behaviours of the code are outside the passing runs on purpose:

* slots of one process share one worker id, so after a stall the owner check
  passes for both; `LeaseIdentifiesWorker` and `TimelyHoldsLease` speak of the process and
  of the Session's row, and no property forbids two slots of one process from running one
  job at a time, which is a behaviour of the model;
* a heartbeat renews a lease that has run out, so after a stall two
  implementations of a repository may be live at once; `OneImplementationPerRepo`
  claims nothing from there on;
* no retry of a publication reaches the search for an earlier pull request
  (`publisher.py:158`): it is refused at line 59, which is finding `recover`, so
  `CompletedHasPull` is about first deliveries and their crashes;
* files that Git ignores are not work to the checks of `Worktrees`, nor in the model;
* a publish event that became a dead letter leaves its job in `publishing`,
  where `ComesToRest` counts it as at rest;
* a run that finds the lease of its Session taken fails and uses up an attempt
  (`bot/persistence/session_store.py:40`), and attempts are counted at the claim
  but compared only by the failure handler (`store.py:462`, `coordinator.py:141`);
* the lookup of a comment sees one page of 100 comments: `CommentedOnce` is stated, and
  proved, for issues with no more;
* the deadline of a run bounds the answers of the model and is compared between rounds,
  not within a call of a tool or the request for a summary, so `RunEnds` assumes that
  those return;
* opening a Session orders its instruction files anew (`runtime/query.py:462`), which
  ends the refusals of finding `instructions` in the next run.

## Plan

What is left, in the order in which it matters:

1. An abstract conversation (turns that alternate, each call with its result)
   that `QueryLoop` implements, and one that `SessionLease` implements.
2. `ProcessRunner`: timeouts, output limits and the cancellation of child
   processes and containers.

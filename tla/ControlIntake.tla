---------------------------- MODULE ControlIntake ----------------------------
(***************************************************************************)
(* The edges of Control: webhook deliveries that come in                   *)
(* (control/webhook.py, control/handler.py), comments that go out          *)
(* (control/outbox.py, control/github.py), the supervisor that ends both   *)
(* together (control/service.py), and the retention of what they leave     *)
(* behind (maintenance.py).                                                *)
(*                                                                         *)
(* One issue of one repository.  A delivery carries one command; GitHub    *)
(* delivers it again when it is asked to.  A handler awaits GitHub between *)
(* its steps, so that deliveries, the dispatcher and a death of the        *)
(* process come in between.  What happens to a job between its creation    *)
(* and its end is BotWorkers.                                              *)
(***************************************************************************)
EXTENDS Naturals, Sequences, FiniteSets

CONSTANTS
  Deliveries,    \* webhook deliveries of commands
  Commands,      \* commands in use, of "plan", "status" and "reply"
  PageSize,      \* comments a lookup sees: per_page=100
  MaxAttempts,   \* fail_outbox: attempts >= 5
  MaxJobs,       \* bound: jobs created
  MaxArrivals,   \* bound: times GitHub delivers one delivery
  MaxErrors,     \* bound: failed requests to GitHub
  MaxDeaths,     \* bound: deaths of the process
  MaxOthers,     \* bound: comments of other people
  MaxAges        \* bound: retention periods that pass

None == "none"
Other == "other"

ASSUME IntakeAssumption ==
  /\ Commands \subseteq {"plan", "status", "reply"} /\ {None, Other} \intersect Deliveries = {}
  /\ {PageSize, MaxAttempts, MaxJobs, MaxArrivals, MaxErrors, MaxDeaths, MaxOthers, MaxAges} \subseteq Nat
  /\ MaxAttempts > 0

VARIABLES
  up,          \* does the Control process run?
  arrivals,    \* arrivals[d]: how often GitHub has delivered d
  command,     \* command[d]
  registered,  \* webhook_deliveries
  handler,     \* handler[d]: what the handler of d awaits, or None
  answer,      \* answer[d]: the last answer GitHub has had for d
  effect,      \* effect[d]: writes made for d
  job,         \* job[j]: "active", "ended" or "deleted"
  inbox,       \* inbox[j]: replies to j
  event,       \* event[d]: the comment event written for d
  at,          \* what the dispatcher does
  comments,    \* comments of the issue, by the delivery whose marker they have
  old,         \* jobs and deliveries older than the retention
  stuck,       \* did the last cleanup raise?
  errors, deaths, ages

intake == <<arrivals, command, registered, handler, answer, effect>>
outgoing == <<event, at, comments>>
records == <<job, inbox, old, stuck, ages>>
vars == <<up, intake, outgoing, records, errors, deaths>>

Idle == [step |-> "idle", of |-> None]
NoEvent == [status |-> None, attempts |-> 0, job |-> 0]
Jobs == DOMAIN job
Active == {j \in Jobs : job[j] = "active"}   \* get_active_job

Init ==
  /\ up = TRUE
  /\ arrivals = [d \in Deliveries |-> 0] /\ command \in [Deliveries -> Commands]
  /\ registered = {} /\ handler = [d \in Deliveries |-> None]
  /\ answer = [d \in Deliveries |-> None] /\ effect = [d \in Deliveries |-> 0]
  /\ job = <<>> /\ inbox = <<>> /\ event = [d \in Deliveries |-> NoEvent]
  /\ at = Idle /\ comments = <<>> /\ old = {} /\ stuck = FALSE
  /\ errors = 0 /\ deaths = 0 /\ ages = 0

-----------------------------------------------------------------------------
(* webhook(): the delivery is registered before its command is handled.    *)

\* As it could be by mistake: a delivery whose answer was lost counts as new.
ArriveAgain(d) ==
  /\ up /\ arrivals[d] < MaxArrivals /\ answer[d] # "ok"
  /\ arrivals' = [arrivals EXCEPT ![d] = @ + 1]
  /\ IF d \in registered /\ answer[d] # "lost"
       THEN answer' = [answer EXCEPT ![d] = "duplicate"] /\ UNCHANGED <<registered, handler>>
       ELSE /\ registered' = registered \union {d}
            /\ handler' = [handler EXCEPT ![d] = "permission"] /\ UNCHANGED answer
  /\ UNCHANGED <<up, command, effect, outgoing, records, errors, deaths>>

\* GitHub delivers, and delivers again what it has no good answer for.
Arrive(d) ==
  /\ up /\ arrivals[d] < MaxArrivals /\ answer[d] # "ok" /\ <<"delivery", d>> \notin old
  /\ arrivals' = [arrivals EXCEPT ![d] = @ + 1]
  /\ IF d \in registered
       THEN answer' = [answer EXCEPT ![d] = "duplicate"] /\ UNCHANGED <<registered, handler>>
       ELSE /\ registered' = registered \union {d}
            /\ handler' = [handler EXCEPT ![d] = "permission"] /\ UNCHANGED answer
  /\ UNCHANGED <<up, command, effect, outgoing, records, errors, deaths>>

Answer(d, with) ==
  /\ answer' = [answer EXCEPT ![d] = with] /\ handler' = [handler EXCEPT ![d] = None]

\* A permanent error of GitHub, of the permission, or of the command itself.
Refuse(d) == Answer(d, "refused") /\ UNCHANGED registered

\* A temporary error of GitHub or an exception nobody expected: release_delivery.
Release(d) == Answer(d, "failed") /\ registered' = registered \ {d}

AskFails(d) ==
  /\ up /\ handler[d] \in {"permission", "evidence"} /\ errors < MaxErrors /\ errors' = errors + 1
  /\ Refuse(d) \/ Release(d)
  /\ UNCHANGED <<up, arrivals, command, effect, outgoing, records, deaths>>

\* The command and its _comment_event are one transaction; the answer comes after.
Write(d, j) ==
  /\ handler' = [handler EXCEPT ![d] = "done"] /\ UNCHANGED <<registered, answer>>
  /\ effect' = [effect EXCEPT ![d] = @ + 1]
  /\ event' = [event EXCEPT ![d] = [status |-> "pending", attempts |-> 0, job |-> j]]

\* enqueue_plan_reply: the comment identifies its reply (INSERT OR IGNORE).
Taken(d, j) == d \in inbox[j]

\* handle_issue_comment has the permission.  Only a blocked plan takes a reply, and
\* whether the job has one is decided in BotWorkers: either may be.
Permitted(d) ==
  /\ up /\ handler[d] = "permission"
  /\ \/ /\ command[d] = "plan" /\ Active # {}
        /\ Answer(d, "ok") /\ UNCHANGED <<registered, effect, event, inbox>>
     \/ /\ command[d] = "plan" /\ Active = {}
        /\ handler' = [handler EXCEPT ![d] = "evidence"]
        /\ UNCHANGED <<registered, answer, effect, event, inbox>>
     \/ /\ command[d] = "reply" \/ (command[d] = "status" /\ Active = {})
        /\ Refuse(d) /\ UNCHANGED <<effect, event, inbox>>
     \/ \E j \in Active :
          /\ command[d] = "status" /\ Write(d, j) /\ UNCHANGED inbox
     \/ \E j \in Active :
          /\ command[d] = "reply"
          /\ IF Taken(d, j)
               THEN Answer(d, "ok") /\ UNCHANGED <<registered, effect, event, inbox>>
               ELSE Write(d, j) /\ inbox' = [inbox EXCEPT ![j] = @ \union {d}]
  /\ UNCHANGED <<up, arrivals, command, at, comments, job, old, stuck, ages, errors, deaths>>

\* _plan has the head and the issue: create_job, unless the unique index of active
\* jobs refuses it, which is an exception nobody expected.
Create(d) ==
  /\ up /\ handler[d] = "evidence" /\ Len(job) < MaxJobs
  /\ IF Active # {}
       THEN Release(d) /\ UNCHANGED <<job, inbox, effect, event>>
       ELSE /\ job' = Append(job, "active") /\ inbox' = Append(inbox, {})
            /\ Write(d, Len(job) + 1)
  /\ UNCHANGED <<up, arrivals, command, at, comments, old, stuck, ages, errors, deaths>>

Respond(d) ==
  /\ up /\ handler[d] = "done" /\ Answer(d, "ok")
  /\ UNCHANGED <<up, arrivals, command, registered, effect, outgoing, records, errors, deaths>>

-----------------------------------------------------------------------------
(* OutboxProcessor.run_once for issue_comment events.                      *)

Open(e) == e.status \in {"pending", "failed", "processing"}

\* As it could be by mistake: an event a dead process was at is not seen again.
ClaimableWaiting(d) == event[d].status \in {"pending", "failed"}
\* next_outbox
Claimable(d) == event[d].status \in {"pending", "failed", "processing"}

\* As it could be by mistake: the event is completed before its work is done.
ClaimCompleting(d) ==
  /\ up /\ at = Idle /\ Claimable(d)
  /\ event' = [event EXCEPT ![d].status = "completed", ![d].attempts = @ + 1]
  /\ at' = [step |-> "find", of |-> d]
  /\ UNCHANGED <<up, intake, comments, records, errors, deaths>>
Claim(d) ==
  /\ up /\ at = Idle /\ Claimable(d)
  /\ event' = [event EXCEPT ![d].status = "processing", ![d].attempts = @ + 1]
  /\ at' = [step |-> "find", of |-> d]
  /\ UNCHANGED <<up, intake, comments, records, errors, deaths>>

\* As it could be by mistake: the marker is not looked for.
FoundNever(d) == FALSE
\* find_issue_comment: the oldest comments come first.
Found(d) ==
  \E i \in DOMAIN comments : i <= PageSize /\ comments[i] = d

Find ==
  /\ up /\ at.step = "find"
  /\ at' = [at EXCEPT !.step = IF Found(at.of) THEN "complete" ELSE "create"]
  /\ UNCHANGED <<up, intake, event, comments, records, errors, deaths>>

CreateComment ==
  /\ up /\ at.step = "create"
  /\ comments' = Append(comments, at.of) /\ at' = [at EXCEPT !.step = "complete"]
  /\ UNCHANGED <<up, intake, event, records, errors, deaths>>

Complete ==
  /\ up /\ at.step = "complete"
  /\ event' = [event EXCEPT ![at.of].status = "completed"] /\ at' = Idle
  /\ UNCHANGED <<up, intake, comments, records, errors, deaths>>

\* As it could be by mistake: an exception nobody expected does not count.
FailedUncounted(d) == "failed"
\* fail_outbox
Failed(d) == IF event[d].attempts >= MaxAttempts THEN "dead_letter" ELSE "failed"

\* Handlers are cancelled with the process: nothing of them is stored or answered.
Dead == /\ up' = FALSE /\ at' = Idle
        /\ handler' = [d \in Deliveries |-> None]
        /\ answer' = [d \in Deliveries |-> IF handler[d] # None THEN "lost" ELSE answer[d]]

\* A request of the dispatcher fails, maybe after it was obeyed: a temporary error
\* is tried again, a permanent one ends the event, any other ends the process.
RequestFails(kind) ==
  /\ up /\ at.step \in {"find", "create"} /\ errors < MaxErrors /\ errors' = errors + 1
  /\ comments' \in IF at.step = "create" /\ kind # "permanent"
                     THEN {comments, Append(comments, at.of)} ELSE {comments}
  /\ event' = [event EXCEPT ![at.of].status = IF kind = "permanent" THEN "dead_letter" ELSE Failed(at.of)]
  /\ IF kind = "other" THEN Dead ELSE at' = Idle /\ UNCHANGED <<up, handler, answer>>
  /\ UNCHANGED <<arrivals, command, registered, effect, records, deaths>>

Die ==
  /\ up /\ deaths < MaxDeaths /\ deaths' = deaths + 1 /\ Dead
  /\ UNCHANGED <<arrivals, command, registered, effect, event, comments, records, errors>>

\* systemd starts Control again.
Restart ==
  /\ ~up /\ up' = TRUE
  /\ UNCHANGED <<intake, outgoing, records, errors, deaths>>

-----------------------------------------------------------------------------
(* Other people, time, and cleanup_bot_state.                              *)

Comment ==
  /\ Cardinality({i \in DOMAIN comments : comments[i] = Other}) < MaxOthers
  /\ comments' = Append(comments, Other)
  /\ UNCHANGED <<up, intake, event, at, records, errors, deaths>>

EndJob(j) ==
  /\ job[j] = "active" /\ job' = [job EXCEPT ![j] = "ended"]
  /\ UNCHANGED <<up, intake, outgoing, inbox, old, stuck, ages, errors, deaths>>

\* A retention period passes; nothing is under way that long.
Age ==
  /\ ages < MaxAges /\ ages' = ages + 1 /\ at = Idle
  /\ \A d \in Deliveries : handler[d] = None /\ ~Open(event[d])
  /\ old' = old \union {<<"delivery", d>> : d \in registered}
                \union {<<"job", j>> : j \in {i \in Jobs : job[i] = "ended"}}
  /\ UNCHANGED <<up, intake, outgoing, job, inbox, stuck, errors, deaths>>

Expired == {j \in Jobs : job[j] = "ended" /\ <<"job", j>> \in old}

\* The tables with rows that refer to the job, of those the model has.
Referring(j) ==
  {table \in {"outbox_events", "bot_inbox_messages"} :
     IF table = "outbox_events" THEN \E d \in Deliveries : event[d].job = j ELSE inbox[j] # {}}

\* As it could be by mistake: the row of the job goes before the rows that refer to it.
DeletableFirst(j) == Referring(j) = {}
\* delete_terminal_job empties the tables of its list, in which that of the replies is
\* missing; a job that rows still refer to cannot be deleted (PRAGMA foreign_keys=ON).
Deletable(j) == Referring(j) \subseteq {"outbox_events"}

\* The expired jobs one after the other, then the old deliveries; an exception
\* ends the cleanup where it is.
Cleanup ==
  LET refused == {j \in Expired : ~Deletable(j)}
      deleted == {j \in Expired : \A k \in refused : j < k}
  IN
  /\ old # {} /\ (Expired # {} \/ old \intersect {<<"delivery", d>> : d \in registered} # {})
  /\ job' = [j \in Jobs |-> IF j \in deleted THEN "deleted" ELSE job[j]]
  /\ event' = [d \in Deliveries |-> IF event[d].job \in deleted THEN NoEvent ELSE event[d]]
  /\ stuck' = (refused # {})
  /\ registered' = IF refused = {} THEN {d \in registered : <<"delivery", d>> \notin old} ELSE registered
  /\ UNCHANGED <<up, arrivals, command, handler, answer, effect, at, comments, inbox, old, ages, errors, deaths>>

-----------------------------------------------------------------------------
Dispatch == Find \/ CreateComment \/ Complete \/ \E d \in Deliveries : Claim(d)

Next ==
  \/ \E d \in Deliveries : Arrive(d) \/ AskFails(d) \/ Permitted(d) \/ Create(d) \/ Respond(d)
  \/ Dispatch
  \/ \E kind \in {"temporary", "permanent", "other"} : RequestFails(kind)
  \/ Die \/ Restart \/ Comment \/ Age \/ Cleanup
  \/ \E j \in Jobs : EndJob(j)

\* The dispatcher loops, and systemd restarts the process; nobody owes a delivery,
\* an answer or a comment.
Spec ==
  /\ Init /\ [][Next]_vars
  /\ WF_vars(Dispatch) /\ WF_vars(Restart)

-----------------------------------------------------------------------------
(* Properties.                                                             *)

\* The variables keep their shape, and what a handler works on is registered.
TypeOK ==
  /\ \A d \in Deliveries : handler[d] # None => up /\ d \in registered
  /\ at.step \in {"idle", "find", "create", "complete"} /\ (at # Idle => up)
  /\ \A i, j \in Active : i = j
  /\ DOMAIN inbox = Jobs

\* However often a delivery comes, its command is carried out at most once, and
\* a delivery that was released has not been carried out (store.py:100).
AppliedOnce ==
  \A d \in Deliveries :
    /\ effect[d] <= 1
    /\ answer[d] = "failed" /\ handler[d] = None => effect[d] = 0

\* While the issue has no more comments than a lookup sees, a comment is made once,
\* whatever fails after it was made.
CommentedOnce ==
  \A d \in Deliveries :
    Len(comments) <= PageSize =>
      \A i, k \in DOMAIN comments : comments[i] = d /\ comments[k] = d => i = k

\* A completed event has its comment.
CompletedIsThere ==
  \A d \in Deliveries :
    event[d].status = "completed" => \E i \in DOMAIN comments : comments[i] = d

\* No event is tried more often than the limit and the deaths allow.
AttemptsAreBounded ==
  \A d \in Deliveries : event[d].attempts <= MaxAttempts + deaths

\* A command that failed before it did anything may be delivered again.
FailedMayRetry ==
  \A d \in Deliveries :
    answer[d] \in {"failed", "lost"} /\ effect[d] = 0 /\ handler[d] = None => d \notin registered

\* A cleanup stops only at a job with a reply in its inbox, and then no older job than
\* that is left; what is deleted leaves no event and no reply behind.
CleanupStopsAtReplies ==
  /\ stuck => \E j \in Expired : inbox[j] # {} /\ \A k \in Expired : j <= k
  /\ \A d \in Deliveries : event[d].job \in Jobs => job[event[d].job] # "deleted"
  /\ \A j \in Jobs : job[j] = "deleted" => inbox[j] = {}

\* "30 天后清理" (deploy/ubuntu/README.md:76): no cleanup fails.
CleanupSucceeds == ~stuck
=============================================================================

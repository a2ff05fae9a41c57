----------------------------- MODULE QueryLoop -----------------------------
(***************************************************************************)
(* One Session of the Agent runtime: AgentRuntime.query of                 *)
(* runtime/query.py with the tool batches of runtime/tool_orchestration.py *)
(* and the retries of runtime/gateway.py.                                  *)
(*                                                                         *)
(* A run opens the Session, then alternates between the model and tools    *)
(* until the model stops or a budget is spent.  Runs follow each other on  *)
(* the saved Session; a run may be cancelled at its awaits, and the        *)
(* process may die between any two durable writes.  A message is what the  *)
(* loop tells apart: who wrote it, the calls it makes, the results it      *)
(* carries.                                                                *)
(***************************************************************************)
EXTENDS Naturals, Sequences, FiniteSets

CONSTANTS
  MaxRuns,         \* bound: runs of the Session, the first one included
  MaxFaults,       \* bound: deaths of the process
  MaxCalls,        \* bound: tool calls in one answer of the model
  Kinds,           \* kinds of tool calls the model makes in this instance
  Reasons,         \* lists of blocking reasons the stop hooks may give
  MaxRounds,       \* config.max_rounds
  MaxAttempts,     \* RetryPolicy.max_attempts
  MaxCompactions,  \* config.max_reactive_compactions
  MaxNoProgress,   \* config.max_no_progress_rounds
  Escalation,      \* may a cut answer be asked for again with more tokens?
  RecoveryLimit,   \* _MAX_OUTPUT_TOKENS_RECOVERY_LIMIT, 3 in the code
  StopLimit        \* identical refusals that block a run, 3 in the code

\* "read" is concurrency safe; "write" is not; "skill" is not, and its result
\* brings a message of its own.
CallKind == {"read", "write", "skill"}

\* What an instance has to give the constants.
LoopAssumption ==
  /\ Kinds \subseteq CallKind
  /\ {MaxRuns, MaxFaults, MaxCompactions, RecoveryLimit} \subseteq Nat
  /\ {MaxCalls, MaxRounds, MaxAttempts, MaxNoProgress, StopLimit} \subseteq Nat \ {0}
  /\ Escalation \in BOOLEAN

VARIABLES
  log,     \* messages of the Session, each durable when appended
  saved,   \* last saved AgentRunState: its status and the applied changes
  run,     \* the run in progress, in memory
  runs,    \* runs so far
  faults   \* deaths so far

vars == <<log, saved, run, runs, faults>>

-----------------------------------------------------------------------------
(* Messages.  A call is [id, kind].  The provider never repeats an id: here *)
(* it is the place of the message that makes the call, and the place of    *)
(* the call in it.                                                         *)

User     == [kind |-> "user", body |-> <<>>]
Recovery == [kind |-> "recovery", body |-> <<>>]
Skill    == [kind |-> "skill", body |-> <<>>]
Gate(reasons)      == [kind |-> "gate", body |-> <<[reasons |-> reasons]>>]
Assistant(calls)   == [kind |-> "assistant", body |-> calls]
Results(outcomes)  == [kind |-> "results", body |-> outcomes]

Code == {"real", "cancelled", "not_executed", "interrupted"}

Ids(items) == {items[i].id : i \in 1..Len(items)}

\* An answer of the model that calls tools: fresh ids, any kinds.
Fresh(kinds) == [i \in 1..Len(kinds) |-> [id |-> <<Len(log) + 1, i>>, kind |-> kinds[i]]]

CallLists == UNION {[1..n -> Kinds] : n \in 1..MaxCalls}

\* The members of a set of natural numbers, in order.
Ordered(S) ==
  [k \in 1..Cardinality(S) |-> CHOOSE i \in S : Cardinality({j \in S : j <= i}) = k]

\* _repair_interrupted_tool_uses reads message by message.  After the first p it
\* has seen these calls, these results, and waits for what is open.
Before(messages, p, kind) == {q \in 1..p : messages[q].kind = kind}
Made(messages, p) == UNION {Ids(messages[q].body) : q \in Before(messages, p, "assistant")}
Resolved(messages, p) == UNION {Ids(messages[q].body) : q \in Before(messages, p, "results")}
Open(messages, p) == Made(messages, p) \ Resolved(messages, p)

\* It raises unless nothing is open where the model speaks, no call is made twice,
\* and results are of open calls, one for each.
Repairable(messages) ==
  \A p \in 1..Len(messages) :
    LET items == messages[p].body
    IN  /\ messages[p].kind = "assistant" =>
             Open(messages, p - 1) = {} /\ Ids(items) \intersect Made(messages, p - 1) = {}
        /\ messages[p].kind = "results" => Ids(items) \subseteq Open(messages, p - 1)
        /\ messages[p].kind \in {"assistant", "results"} => Cardinality(Ids(items)) = Len(items)

\* What is open in the end was called by the last assistant message; it gets its
\* results in the order of the calls.
Interrupted(messages) ==
  LET last  == CHOOSE p \in 1..Len(messages) :
                 /\ messages[p].kind = "assistant"
                 /\ \A q \in p + 1..Len(messages) : messages[q].kind # "assistant"
      calls == messages[last].body
      order == Ordered({i \in 1..Len(calls) : calls[i].id \in Open(messages, Len(messages))})
  IN  Results([k \in 1..Len(order) |-> [id |-> calls[order[k]].id, code |-> "interrupted"]])

\* _max_tokens_recovery_count
Recoveries(messages) == Cardinality(Before(messages, Len(messages), "recovery"))

-----------------------------------------------------------------------------
(* The run in memory.  pc names the place in the loop; calls, done, failed  *)
(* and committed belong to the tool round: done has a result in memory,     *)
(* failed met a PostToolUse hook, the first `committed` calls are in        *)
(* batches whose state is committed.                                        *)

Idle == [pc |-> "idle", rounds |-> 0, attempt |-> 0, compactions |-> 0,
         large |-> FALSE, recoveries |-> 0, same |-> 0, shape |-> <<>>,
         blocks |-> 0, reasons |-> <<>>, effects |-> <<>>,
         calls |-> <<>>, done |-> {}, failed |-> {}, committed |-> 0,
         extras |-> 0, end |-> "none"]

Init ==
  /\ log = <<>>
  /\ saved = [status |-> "none", effects |-> <<>>]
  /\ run = Idle
  /\ runs = 0
  /\ faults = 0

At(pc) == run.pc = pc
Write(message) == log' = Append(log, message)
Persist(status) == saved' = [status |-> status, effects |-> run.effects]

\* _stopped and _completed: the final status is saved and the run is over.
Stop(status) ==
  /\ Persist(status)
  /\ run' = Idle
  /\ UNCHANGED <<log, runs, faults>>

-----------------------------------------------------------------------------
(* Opening.  _start and _resume write message by message before the run is  *)
(* recorded as running.                                                     *)

Start ==
  /\ At("idle") /\ saved.status = "none" /\ runs < MaxRuns
  /\ saved' = [saved EXCEPT !.status = "created"]
  /\ run' = [Idle EXCEPT !.pc = "starting"]
  /\ runs' = runs + 1
  /\ UNCHANGED <<log, faults>>

\* Mutant of Resume: calls that were cut off stay without results.
ResumeUnrepaired ==
  /\ At("idle") /\ saved.status # "none" /\ runs < MaxRuns
  /\ run' = [Idle EXCEPT !.pc = "resuming"]
  /\ runs' = runs + 1
  /\ UNCHANGED <<log, saved, faults>>

Resume ==
  /\ At("idle") /\ saved.status # "none" /\ runs < MaxRuns
  /\ Repairable(log)
  /\ log' = IF Open(log, Len(log)) = {} THEN log ELSE Append(log, Interrupted(log))
  /\ run' = [Idle EXCEPT !.pc = "resuming"]
  /\ runs' = runs + 1
  /\ UNCHANGED <<saved, faults>>

\* A new query brings a message; a resumed one may.
AppendInput ==
  /\ run.pc \in {"starting", "resuming"}
  /\ Write(User)
  /\ run' = [run EXCEPT !.pc = "opened"]
  /\ UNCHANGED <<saved, runs, faults>>

\* Mutant of Opened: every run may recover anew.
OpenedAfresh(messages, effects) ==
  [Idle EXCEPT !.pc = "head", !.effects = effects]

Opened(messages, effects) ==
  [Idle EXCEPT !.pc = "head", !.recoveries = Recoveries(messages), !.effects = effects]

Begin ==
  /\ run.pc \in {"resuming", "opened"}
  /\ run' = Opened(log, saved.effects)
  /\ saved' = [saved EXCEPT !.status = "running"]
  /\ UNCHANGED <<log, runs, faults>>

-----------------------------------------------------------------------------
(* One round up to the answer of the model.                                 *)

\* _budget_failure by tokens or deadline, or a projection that fails, may
\* come at any round; the other two budgets are counted.
HeadFails == At("head") /\ Stop("failed")

EnterRound ==
  /\ At("head") /\ run.rounds < MaxRounds /\ run.same < MaxNoProgress /\ log # <<>>
  /\ run' = [run EXCEPT !.pc = "model", !.rounds = @ + 1, !.attempt = 1]
  /\ UNCHANGED <<log, saved, runs, faults>>

\* RetryingModelGateway: a retryable failure before the message is complete.
RetryAttempt ==
  /\ At("model") /\ run.attempt < MaxAttempts
  /\ run' = [run EXCEPT !.attempt = @ + 1]
  /\ UNCHANGED <<log, saved, runs, faults>>

\* The deadline, a final error of the gateway, or a stream without an end.
ModelFails == At("model") /\ Stop("failed")

\* Mutant of ContextTooLong: the round is given back and nothing is counted.
ContextTooLongUncounted ==
  /\ At("model")
  /\ run' = [run EXCEPT !.pc = "head", !.rounds = @ - 1, !.large = FALSE]
  /\ UNCHANGED <<log, saved, runs, faults>>

ContextTooLong ==
  /\ At("model") /\ run.compactions < MaxCompactions
  /\ run' = [run EXCEPT !.pc = "head", !.compactions = @ + 1, !.large = FALSE]
  /\ UNCHANGED <<log, saved, runs, faults>>

\* A cut answer without calls is dropped and asked for again, once.
Escalate ==
  /\ At("model") /\ Escalation /\ ~run.large
  /\ run' = [run EXCEPT !.pc = "head", !.large = TRUE]
  /\ UNCHANGED <<log, saved, runs, faults>>

AnswerCut ==
  /\ At("model") /\ (Escalation => run.large)
  /\ Write(Assistant(<<>>))
  /\ run' = [run EXCEPT !.pc = "cut", !.large = FALSE]
  /\ UNCHANGED <<saved, runs, faults>>

Continue ==
  /\ At("cut") /\ run.recoveries < RecoveryLimit
  /\ Write(Recovery)
  /\ run' = [run EXCEPT !.pc = "head", !.recoveries = @ + 1]
  /\ UNCHANGED <<saved, runs, faults>>

CutFails == At("cut") /\ run.recoveries >= RecoveryLimit /\ Stop("failed")

-----------------------------------------------------------------------------
(* The model wants to stop: the hooks decide.                               *)

AnswerFinal ==
  /\ At("model")
  /\ Write(Assistant(<<>>))
  /\ run' = [run EXCEPT !.pc = "stopping", !.large = FALSE]
  /\ UNCHANGED <<saved, runs, faults>>

StopHookFails == At("stopping") /\ Stop("failed")

Complete == At("stopping") /\ Stop("completed")

BlocksAfter(reasons) == IF run.reasons = <<reasons>> THEN run.blocks + 1 ELSE 1

Refuse(reasons) ==
  /\ At("stopping")
  /\ Write(Gate(reasons))
  /\ LET blocks == BlocksAfter(reasons)
     IN  run' = [run EXCEPT !.pc = IF blocks >= StopLimit THEN "refused" ELSE "head",
                            !.blocks = blocks, !.reasons = <<reasons>>]
  /\ UNCHANGED <<saved, runs, faults>>

Blocked == At("refused") /\ Stop("blocked")

-----------------------------------------------------------------------------
(* A tool round.                                                            *)

\* partition_tool_calls: the batch that begins after the committed calls is
\* one call, or as many concurrency-safe calls as follow each other.
Safe(call) == call.kind = "read"

Batch ==
  LET first == run.committed + 1
  IN  {i \in first..Len(run.calls) :
         i = first \/ \A k \in first..i : Safe(run.calls[k])}

Running == Batch \ run.done

\* The signature is that of the last tool round or it is another one.
AnswerCalls(kinds, repeated) ==
  /\ At("model") /\ (repeated => kinds = run.shape)
  /\ Write(Assistant(Fresh(kinds)))
  /\ run' = [run EXCEPT !.pc = "tools", !.large = FALSE, !.shape = kinds,
                        !.same = IF repeated THEN @ + 1 ELSE 0,
                        !.calls = Fresh(kinds), !.done = {}, !.failed = {},
                        !.committed = 0]
  /\ UNCHANGED <<saved, runs, faults>>

\* A tool returns; its PostToolUse hook may then fail.  Calls of a batch
\* return in any order.
FinishCall(i, hookFails) ==
  /\ At("tools") /\ i \in Running
  /\ run' = [run EXCEPT !.done = @ \union {i},
                        !.failed = IF hookFails THEN @ \union {i} ELSE @]
  /\ UNCHANGED <<log, saved, runs, faults>>

\* The changes of the returned calls, in the order of the calls.
Changes(indices) ==
  LET order == Ordered(indices)
  IN  [k \in 1..Len(order) |-> run.calls[order[k]].id]

Commit(indices, next) ==
  LET effects == run.effects \o Changes(indices)
  IN  /\ saved' = [status |-> "running", effects |-> effects]
      /\ run' = [next EXCEPT !.effects = effects]

AfterBatch ==
  LET end == run.committed + Cardinality(Batch)
  IN  [run EXCEPT !.committed = end,
                  !.pc = IF run.failed # {} \/ end = Len(run.calls) THEN "results" ELSE "tools",
                  !.end = IF run.failed # {} THEN "not_executed" ELSE "none"]

CommitBatch ==
  /\ At("tools") /\ Running = {}
  /\ Commit(Batch, AfterBatch)
  /\ UNCHANGED <<log, runs, faults>>

\* Mutant of CancelTools: the changes of the returned calls are lost.
CancelToolsUncommitted(settled) ==
  /\ At("tools") /\ Running # {}
  /\ settled \subseteq Running
  /\ settled # {} => \A i \in Batch : Safe(run.calls[i])
  /\ run' = [run EXCEPT !.pc = "results", !.end = "cancelled",
                         !.done = @ \union settled]
  /\ UNCHANGED <<log, saved, runs, faults>>

\* Cancellation while a batch runs.  Calls of a concurrent batch that had
\* returned, or return before they notice, keep their results and changes.
CancelTools(settled) ==
  /\ At("tools") /\ Running # {}
  /\ settled \subseteq Running
  /\ settled # {} => \A i \in Batch : Safe(run.calls[i])
  /\ LET next == [run EXCEPT !.pc = "results", !.end = "cancelled",
                             !.done = @ \union settled]
         returned == Batch \intersect next.done
     IN  IF returned = {} THEN run' = next /\ UNCHANGED saved
         ELSE Commit(returned, next)
  /\ UNCHANGED <<log, runs, faults>>

\* _append_tool_results: one message for all calls, then what skills bring.
Outcome(i) ==
  [id   |-> run.calls[i].id,
   code |-> IF i \in run.done THEN "real" ELSE run.end]

WriteResults ==
  /\ At("results")
  /\ Write(Results([i \in 1..Len(run.calls) |-> Outcome(i)]))
  /\ run' = [run EXCEPT !.pc = "extras",
       !.extras = Cardinality({i \in run.done : run.calls[i].kind = "skill"})]
  /\ UNCHANGED <<saved, runs, faults>>

WriteExtra ==
  /\ At("extras") /\ run.extras > 0
  /\ Write(Skill)
  /\ run' = [run EXCEPT !.extras = @ - 1]
  /\ UNCHANGED <<saved, runs, faults>>

NextRound ==
  /\ At("extras") /\ run.extras = 0 /\ run.end = "none"
  /\ run' = [run EXCEPT !.pc = "head", !.calls = <<>>, !.done = {}, !.failed = {},
                        !.committed = 0]
  /\ UNCHANGED <<log, saved, runs, faults>>

StopTools ==
  /\ At("extras") /\ run.extras = 0 /\ run.end # "none"
  /\ Stop(IF run.end = "cancelled" THEN "cancelled" ELSE "failed")

-----------------------------------------------------------------------------
(* Cancellation at the other awaits: query saves the loaded state as        *)
(* cancelled.  The death of the process, or a consumer that drops the       *)
(* generator, saves nothing.                                                *)

Cancel ==
  /\ run.pc \in {"head", "model", "stopping"}
  /\ saved' = [saved EXCEPT !.status = "cancelled"]
  /\ run' = Idle
  /\ UNCHANGED <<log, runs, faults>>

Die ==
  /\ ~At("idle") /\ faults < MaxFaults
  /\ faults' = faults + 1
  /\ run' = Idle
  /\ UNCHANGED <<log, saved, runs>>

Advance ==
  \/ AppendInput \/ Begin
  \/ HeadFails \/ EnterRound
  \/ RetryAttempt \/ ModelFails \/ ContextTooLong
  \/ Escalate \/ AnswerCut \/ Continue \/ CutFails
  \/ AnswerFinal \/ StopHookFails \/ Complete \/ Blocked
  \/ \E reasons \in Reasons : Refuse(reasons)
  \/ \E kinds \in CallLists, repeated \in BOOLEAN : AnswerCalls(kinds, repeated)
  \/ \E i \in 1..MaxCalls, hookFails \in BOOLEAN : FinishCall(i, hookFails)
  \/ CommitBatch \/ WriteResults \/ WriteExtra \/ NextRound \/ StopTools

Next ==
  \/ Start \/ Resume
  \/ Advance
  \/ \E settled \in SUBSET (1..MaxCalls) : CancelTools(settled)
  \/ Cancel \/ Die

Spec == Init /\ [][Next]_vars

\* The loop runs by itself once it is started: the stream of the model is
\* under a timeout, and the tools are taken to return.
FairSpec == Spec /\ WF_vars(Advance)

-----------------------------------------------------------------------------
(* Types of the variables.                                                  *)
Id == (Nat \ {0}) \X (Nat \ {0})
Call == [id : Id, kind : CallKind]
Message ==
  {User, Recovery, Skill} \union {Gate(r) : r \in Reasons}
  \union [kind : {"assistant"}, body : Seq(Call)]
  \union [kind : {"results"}, body : Seq([id : Id, code : Code])]
Status == {"none", "created", "running", "completed", "blocked", "failed", "cancelled"}

\* What each variable holds, wherever a run stands.
TypeOK ==
  /\ log \in Seq(Message)
  /\ saved \in [status : Status, effects : Seq(Id)]
  /\ run.done \subseteq 1..Len(run.calls) /\ run.failed \subseteq run.done
  /\ run.rounds \in 0..MaxRounds /\ run.recoveries \in Nat /\ run.blocks \in 0..StopLimit
  /\ runs \in 0..MaxRuns /\ faults \in 0..MaxFaults

\* Whatever cancelled or killed the runs before, the saved transcript pairs
\* tool calls and results as providers demand: the message after a message
\* with calls is its results, one per call in the order of the calls, and no
\* other message carries results.  A later resume can therefore repair it.
ResultsFollowCalls ==
  \A p \in 1..Len(log) :
    /\ (log[p].kind = "assistant" /\ log[p].body # <<>> /\ p < Len(log)) =>
         /\ log[p + 1].kind = "results"
         /\ Len(log[p + 1].body) = Len(log[p].body)
         /\ \A i \in 1..Len(log[p].body) : log[p + 1].body[i].id = log[p].body[i].id
    /\ log[p].kind = "results" =>
         p > 1 /\ log[p - 1].kind = "assistant" /\ log[p - 1].body # <<>>

\* A state change is saved exactly for the calls whose real result the model
\* gets to see: a call reported as cancelled or as not executed has changed
\* nothing, and a real result is never reported without its change.  Only a
\* call cut off by a death may have been committed before.
EffectsMatchResults ==
  \A p \in 1..Len(log) : log[p].kind = "results" =>
    \A i \in 1..Len(log[p].body) :
      LET o == log[p].body[i]
          applied == \E k \in 1..Len(saved.effects) : saved.effects[k] = o.id
      IN  /\ o.code = "real" => applied
          /\ o.code \in {"cancelled", "not_executed"} => ~applied

Earlier(a, b) == a[1] < b[1] \/ (a[1] = b[1] /\ a[2] < b[2])

\* Calls of a batch return in any order, yet their changes are applied in the
\* order in which the model made the calls, each at most once.
EffectsInCallOrder ==
  \A i, k \in 1..Len(saved.effects) : i < k => Earlier(saved.effects[i], saved.effects[k])

\* Between them: what is saved of a run is what its transcript says, call by call.
EffectsFollowCalls == EffectsMatchResults /\ EffectsInCallOrder

\* The model is asked at most RecoveryLimit times to go on after a cut, over
\* all runs of the Session, whatever stopped the runs in between.
RecoveriesBounded == Recoveries(log) <= RecoveryLimit

\* A run is blocked only if the hooks refused its last StopLimit attempts to
\* stop for the same reasons; refusals of earlier runs do not count.
BlockedAfterRepeats ==
  At("refused") =>
    LET gates == Before(log, Len(log), "gate")
    IN  /\ Cardinality(gates) >= StopLimit
        /\ \A p \in gates : Cardinality({q \in gates : q >= p}) <= StopLimit =>
             log[p] = Gate(run.reasons[1])
        /\ run.rounds >= StopLimit

\* The limits hold over the resumptions of a Session, and only the same refusal,
\* as often as the limit says, blocks a run.
LimitsHold == RecoveriesBounded /\ BlockedAfterRepeats

\* Every run ends, however its answers are cut, refused, retried or repeated.
RunEnds == ~At("idle") ~> At("idle")

=============================================================================

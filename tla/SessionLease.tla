---------------------------- MODULE SessionLease ----------------------------
(***************************************************************************)
(* One Session of one bot job and the runs of Worker processes that write  *)
(* to it: the leases of the job (BotStore) and of the Session              *)
(* (bot/persistence/session_store.py), the poll and the heartbeat of       *)
(* consume_runtime_events (bot/worker/agent_jobs.py), and what a run       *)
(* appends to the Session when it opens, calls tools and is stopped        *)
(* (runtime/query.py).                                                     *)
(*                                                                         *)
(* Both leases last 60 seconds, and every heartbeat renews first the job's *)
(* and then the Session's: the job's never ends after the Session's.  Time *)
(* is the end of a lease whose holder has died or has stalled.             *)
(***************************************************************************)
EXTENDS Naturals, Sequences

CONSTANTS
  Processes,   \* Worker processes, each with a worker_id
  Slots,       \* slots of a process
  MaxClaims,   \* bound: claims of the job
  MaxCalls,    \* bound: tool calls of the Session
  MaxCrashes,  \* bound: deaths of a process
  MaxStalls    \* bound: stalls longer than a lease

None == "none"

ASSUME SessionLeaseAssumption ==
  /\ None \notin Processes /\ {MaxClaims, MaxCalls, MaxCrashes, MaxStalls} \subseteq Nat

Runs == Processes \X Slots
Process(r) == r[1]
NoRun == <<None, None>>

VARIABLES
  job,     \* the job: its status, lease_owner and whether the lease lasts
  lease,   \* the row of session_leases, and whether it lasts
  held,    \* held[p]: _lease_owners of process p
  run,     \* run[r]: its phase, and the call whose result it waits for
  late,    \* runs whose lease was not renewed since the lease of their job ended
  log,     \* messages of the Session: calls and results by their id
  asked,   \* calls the model has made; the provider repeats no id
  claims, crashes, stalls

vars == <<job, lease, held, run, late, log, asked, claims, crashes, stalls>>

Idle == [phase |-> "idle", call |-> 0]
Free == [owner |-> NoRun, lasts |-> FALSE]

Init ==
  /\ job = [status |-> "work", owner |-> None, lasts |-> FALSE]
  /\ lease = Free /\ held = [p \in Processes |-> NoRun]
  /\ run = [r \in Runs |-> Idle] /\ late = {} /\ log = <<>> /\ asked = 0
  /\ claims = 0 /\ crashes = 0 /\ stalls = 0

-----------------------------------------------------------------------------
(* Messages.                                                               *)

Call(c) == [kind |-> "call", id |-> c]
Result(c, code) == [kind |-> "result", id |-> c, code |-> code]
IsCall(i) == log[i].kind = "call"

Called == {log[i].id : i \in {j \in DOMAIN log : IsCall(j)}}
Dangling == {c \in Called : \A i \in DOMAIN log : log[i].id = c => IsCall(i)}

\* _repair_interrupted_tool_uses raises.
Broken ==
  \/ \E i, j \in DOMAIN log :
       /\ i < j /\ IsCall(i) /\ IsCall(j)
       /\ \A k \in i..j : log[k].id = log[i].id => IsCall(k)
  \/ \E i, j \in DOMAIN log : i < j /\ ~IsCall(i) /\ ~IsCall(j) /\ log[i].id = log[j].id

-----------------------------------------------------------------------------
(* The ends of a run.                                                      *)

\* As it could be by mistake: the row goes, whoever owns it.
ReleasedAny(r) == Free
\* The finally of lease(): only the row of this run is deleted.
Released(r) == IF lease.owner = r THEN Free ELSE lease

Leave(r) ==
  /\ lease' = Released(r)
  /\ held' = IF held[Process(r)] = r THEN [held EXCEPT ![Process(r)] = NoRun] ELSE held
  /\ run' = [run EXCEPT ![r] = Idle]

Mine(r) == job.status = "work" /\ job.owner = Process(r)

\* The runs that the job's lease stands for: the slots of a process share its worker_id.
Holders == {r \in Runs : Process(r) = job.owner}

\* The job is given back, if its lease still is in the name of the run's process;
\* another run of the process that believes it has the job cannot renew it any more.
Ended(r, status) ==
  IF Mine(r)
    THEN /\ job' = [status |-> status, owner |-> None, lasts |-> FALSE]
         /\ late' = late \union (Holders \ {r})
    ELSE UNCHANGED <<job, late>>

\* BotWorker.run_once after an exception: the job waits for a retry.
GiveUp(r) == Ended(r, "retry_wait")

\* A cancelled batch of tools gets its results before the run stops.
Stopped(r) ==
  log' = IF run[r].call = 0 THEN log ELSE Append(log, Result(run[r].call, "cancelled"))

-----------------------------------------------------------------------------
(* A run.                                                                  *)

\* claim_job
Claim(r) ==
  /\ run[r] = Idle /\ claims < MaxClaims /\ claims' = claims + 1
  /\ job.status = "work" /\ (job.owner = None \/ ~job.lasts)
  /\ job' = [job EXCEPT !.owner = Process(r), !.lasts = TRUE]
  /\ run' = [run EXCEPT ![r].phase = "claimed"] /\ late' = late \ {r}
  /\ UNCHANGED <<lease, held, log, asked, crashes, stalls>>

\* lease(): the row is absent or its time is over.
LeaseFree == lease.owner = NoRun \/ ~lease.lasts

Enter(r) ==
  /\ run[r].phase = "claimed" /\ LeaseFree
  /\ lease' = [owner |-> r, lasts |-> TRUE] /\ held' = [held EXCEPT ![Process(r)] = r]
  /\ run' = [run EXCEPT ![r].phase = "entered"]
  /\ UNCHANGED <<job, late, log, asked, claims, crashes, stalls>>

\* SESSION_IN_USE
Refused(r) ==
  /\ run[r].phase = "claimed" /\ ~LeaseFree
  /\ run' = [run EXCEPT ![r] = Idle] /\ GiveUp(r)
  /\ UNCHANGED <<lease, held, log, asked, claims, crashes, stalls>>

\* As they could be by mistake: calls without results stay so, or the last call is
\* answered whether it has its result or not.
RepairedNot == log
RepairedLast == IF asked = 0 THEN log ELSE Append(log, Result(asked, "interrupted"))
\* The interrupted calls of the run before get their results.
Repaired ==
  IF Dangling = {} THEN log ELSE Append(log, Result(CHOOSE c \in Dangling : TRUE, "interrupted"))

\* _open_run: start, or load and repair.
Open(r) ==
  /\ run[r].phase = "entered"
  /\ IF Broken
       THEN Leave(r) /\ GiveUp(r) /\ UNCHANGED log
       ELSE /\ log' = Repaired /\ run' = [run EXCEPT ![r].phase = "open"]
            /\ UNCHANGED <<job, lease, held, late>>
  /\ UNCHANGED <<asked, claims, crashes, stalls>>

Ask(r) ==
  /\ run[r].phase = "open" /\ run[r].call = 0 /\ asked < MaxCalls /\ asked' = asked + 1
  /\ log' = Append(log, Call(asked + 1)) /\ run' = [run EXCEPT ![r].call = asked + 1]
  /\ UNCHANGED <<job, lease, held, late, claims, crashes, stalls>>

Return(r) ==
  /\ run[r].phase = "open" /\ run[r].call # 0
  /\ log' = Append(log, Result(run[r].call, "real")) /\ run' = [run EXCEPT ![r].call = 0]
  /\ UNCHANGED <<job, lease, held, late, asked, claims, crashes, stalls>>

\* The run ends by itself, and the executor finishes or fails the job; a failure
\* is a retry, and a blocked plan that gets its reply is the same Session again.
Finish(r) ==
  /\ run[r].phase = "open" /\ run[r].call = 0 /\ Leave(r)
  /\ GiveUp(r) \/ Ended(r, "done")
  /\ UNCHANGED <<log, asked, claims, crashes, stalls>>

\* The poll of consume_runtime_events sees that the job was cancelled or reclaimed.
Poll(r) ==
  /\ run[r].phase = "open" /\ ~Mine(r)
  /\ Stopped(r) /\ Leave(r)
  /\ UNCHANGED <<job, late, asked, claims, crashes, stalls>>

\* The heartbeat renews the job's lease, then the Session's by the owner this
\* process remembers; SESSION_LEASE_LOST ends the run.
Heartbeat(r) ==
  /\ run[r].phase = "open" /\ Mine(r)
  /\ IF held[Process(r)] # NoRun /\ lease.owner = held[Process(r)]
       THEN /\ job' = [job EXCEPT !.lasts = TRUE] /\ lease' = [lease EXCEPT !.lasts = TRUE]
            /\ late' = late \ {held[Process(r)]}
            /\ UNCHANGED <<held, run, log>>
       ELSE Stopped(r) /\ Leave(r) /\ GiveUp(r)
  /\ UNCHANGED <<asked, claims, crashes, stalls>>

-----------------------------------------------------------------------------
(* Commands, deaths and time.                                              *)

Retry ==
  /\ job.status = "retry_wait" /\ job' = [job EXCEPT !.status = "work"]
  /\ UNCHANGED <<lease, held, run, late, log, asked, claims, crashes, stalls>>

Cancel ==
  /\ job.status \in {"work", "retry_wait"}
  /\ job' = [status |-> "cancelled", owner |-> None, lasts |-> FALSE]
  /\ late' = late \union Holders
  /\ UNCHANGED <<lease, held, run, log, asked, claims, crashes, stalls>>

Crash(p) ==
  /\ crashes < MaxCrashes /\ crashes' = crashes + 1
  /\ \E r \in Runs : Process(r) = p /\ run[r] # Idle
  /\ run' = [r \in Runs |-> IF Process(r) = p THEN Idle ELSE run[r]]
  /\ held' = [held EXCEPT ![p] = NoRun]
  /\ UNCHANGED <<job, lease, late, log, asked, claims, stalls>>

\* The job's lease ends: nobody is there to renew it, or its process stalls.
JobLapses ==
  /\ job.lasts /\ job' = [job EXCEPT !.lasts = FALSE]
  /\ late' = late \union Holders
  /\ IF \A r \in Holders : run[r] = Idle
       THEN UNCHANGED stalls ELSE stalls < MaxStalls /\ stalls' = stalls + 1
  /\ UNCHANGED <<lease, held, run, log, asked, claims, crashes>>

\* The Session's lease ends, after the job's.
LeaseLapses ==
  /\ lease.lasts /\ lease.owner \in late
  /\ lease' = [lease EXCEPT !.lasts = FALSE]
  /\ UNCHANGED <<job, held, run, late, log, asked, claims, crashes, stalls>>

Next ==
  \/ \E r \in Runs :
       \/ Claim(r) \/ Enter(r) \/ Refused(r) \/ Open(r) \/ Ask(r) \/ Return(r)
       \/ Finish(r) \/ Poll(r) \/ Heartbeat(r)
  \/ Retry \/ Cancel \/ JobLapses \/ LeaseLapses
  \/ \E p \in Processes : Crash(p)

Spec == Init /\ [][Next]_vars

-----------------------------------------------------------------------------
(* Properties.                                                             *)

IsOpen(r) == run[r].phase = "open"

\* The variables keep their shape, and only an open run waits for a result.
TypeOK ==
  /\ job.status \in {"work", "retry_wait", "done", "cancelled"} /\ (job.lasts => job.owner \in Processes)
  /\ lease.owner \in Runs \union {NoRun} /\ (lease.lasts => lease.owner # NoRun)
  /\ \A r \in Runs : run[r].call # 0 => IsOpen(r) /\ run[r].call \in Called
  /\ \A p \in Processes : held[p] # NoRun => Process(held[p]) = p

\* _repair_interrupted_tool_uses accepts the transcript.
Resumable == ~Broken

\* Whoever died, and whenever, the transcript can be resumed: no call is repeated
\* over, answered twice, or left without an answer before the next (query.py:642),
\* as long as no process has stalled longer than a lease.
SessionStaysResumable == stalls = 0 => Resumable

\* As long as no process has stalled longer than a lease, one run writes to the
\* Session, and the transcript in its memory is the one in the database.
OneWriter ==
  stalls = 0 =>
    /\ \A r, s \in Runs : IsOpen(r) /\ IsOpen(s) => r = s
    /\ \A r \in Runs : IsOpen(r) => Dangling = IF run[r].call = 0 THEN {} ELSE {run[r].call}

\* As long as the lease of its job has not ended, and again when its own lease was
\* renewed after that, a run holds the lease of the Session, whatever stalled runs do
\* when they come back, of its own process too: their end does not take it away.
TimelyHoldsLease ==
  \A r \in Runs : IsOpen(r) /\ r \notin late => lease = [owner |-> r, lasts |-> TRUE]
=============================================================================

---------------------------- MODULE MCBotWorkers ----------------------------
(***************************************************************************)
(* Instances of BotWorkers for TLC.                                        *)
(***************************************************************************)
EXTENDS BotWorkers, TLC

CONSTANTS p1, p2, i1, i2   \* slots: two that plan, two that implement

PhaseOfSlot == p1 :> "plan" @@ p2 :> "plan" @@ i1 :> "implementation" @@ i2 :> "implementation"
Phases == [s \in Slots |-> PhaseOfSlot[s]]

(* The implementing slots are alike.                                       *)
Alike == Permutations({i1, i2})

(* Each slot in a Worker process of its own, with its own worker_id.       *)
OwnWorkerId == [s \in Slots |-> s]

(* Two Worker processes, each with a slot of either phase (config.py:57).  *)
TwoWorkers == [s \in Slots |-> IF s \in {p1, i1} THEN p1 ELSE p2]
(* The processes are alike, with the slots they have.                      *)
AlikeWorkers ==
  {f \in Permutations(Slots) :
     \A s \in Slots : Phases[f[s]] = Phases[s] /\ TwoWorkers[f[s]] = f[TwoWorkers[s]]}

(* All slots in one Worker process: the worker_id of the settings.         *)
OneWorkerId == [s \in Slots |-> "worker"]

OneRepository == [j \in 1 .. NumJobs |-> "repository"]

(* A new issue for each job, or the same issue planned again.              *)
OwnIssue == [j \in 1 .. NumJobs |-> j]
OneIssue == [j \in 1 .. NumJobs |-> 1]

(* A start in the middle of the lifecycle, for the instances whose         *)
(* question is about implementations: a maintainer approved the plan of    *)
(* every job and their workspaces are ready.                               *)
ApprovedRow ==
  [NewRow EXCEPT !.status = "queued_implementation", !.ready = Phase,
                 !.session = {"plan"}, !.attempts["plan"] = 1,
                 !.pinned = 1, !.approval = 1]

ApprovedInit ==
  /\ jobs = [j \in Job |-> ApprovedRow]
  /\ proc = [p \in Process |-> Rest]
  /\ outbox = [j \in Job |-> [e \in Event |->
                 CASE e \in {"prepare_plan", "prepare_implementation"} -> "sent"
                   [] e = "comment_plan" -> "due"
                   [] OTHER -> "absent"]]
  /\ evidence = [j \in Job |-> [NoEvidence EXCEPT !.plans = <<"ready">>]]
  /\ claimant = [j \in Job |-> NoSlot]
  /\ faults = 0 /\ stalled = FALSE

ApprovedSpec == ApprovedInit /\ [][Next]_vars

(* The repository lock concerns two jobs that both have an implementation  *)
(* ahead of them: these instances stop where one of them is over.          *)
BothImplementing ==
  \A j \in Job : jobs[j].status \in {"queued_implementation",
                                     "running_implementation", "retry_wait"}
=============================================================================

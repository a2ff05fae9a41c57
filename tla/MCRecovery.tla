----------------------------- MODULE MCRecovery -----------------------------
(***************************************************************************)
(* Instances of the parts that have to survive the death of a process, in  *)
(* one run of TLC: the edges of Control (ControlIntake) and the file a     *)
(* Session is stored in (SessionLog).  A behaviour is one scenario from    *)
(* its start to its end, so the states of the scenarios add up and do not  *)
(* multiply; the part a scenario does not use does not move.               *)
(***************************************************************************)
EXTENDS ControlIntake

\* ControlIntake has its own; these are of SessionLog
CONSTANTS Runtimes, Listers, MaxRecords, MaxLoads, MaxCrashes

VARIABLES
  scenario,
  \* ControlIntake has its own; these are of SessionLog
  file, exists, lock, process, acked, written, loads, falls, disturbed

session ==
  <<file, exists, lock, process, acked, written, loads, falls, disturbed>>
recoveryVars == <<scenario, vars, session>>

-----------------------------------------------------------------------------
(* The instances.                                                          *)

\* "intake": the constants of the configuration.  Deliveries come again, requests
\* fail, the process dies.  "retention": no deaths, but jobs end, with replies or
\* without, and retention periods pass.
Retention ==
  INSTANCE ControlIntake WITH
    Commands <- {"plan", "status", "reply"}, MaxAttempts <- 1, MaxJobs <- 2, MaxArrivals <- 1,
    MaxErrors <- 1, MaxDeaths <- 0, MaxOthers <- 1, MaxAges <- 2

\* "torn": the constants of the configuration.  Processes die in the middle of a record
\* or of a repair, and others list the Sessions meanwhile.
Log ==
  INSTANCE SessionLog WITH lease <- lock, proc <- process, crashes <- falls

ASSUME InstanceAssumption == Retention!IntakeAssumption /\ Log!SessionAssumption

-----------------------------------------------------------------------------
(* Where ControlIntake does not take part it has just started; SessionLog  *)
(* has 0 in its variables.                                                 *)

IntakeOff == Init /\ command = [d \in Deliveries |-> "plan"]
SessionOff ==
  /\ file = 0 /\ exists = 0 /\ lock = 0 /\ process = 0 /\ acked = 0 /\ written = 0 /\ loads = 0
  /\ falls = 0 /\ disturbed = 0

RecoveryInit ==
  \/ /\ \/ scenario = "intake" /\ Init
        \/ scenario = "retention" /\ Retention!Init
     /\ SessionOff
  \/ /\ scenario = "torn" /\ Log!Init
     /\ IntakeOff

In(name) == scenario = name /\ UNCHANGED scenario
IntakeStep(step) == In("intake") /\ step /\ UNCHANGED session

RecoveryNext ==
  \/ IntakeStep(Next)
  \/ In("retention") /\ Retention!Next /\ UNCHANGED session
  \/ In("torn") /\ Log!Next /\ UNCHANGED vars

\* The fairness of ControlIntake.
RecoverySpec ==
  /\ RecoveryInit /\ [][RecoveryNext]_recoveryVars
  /\ WF_recoveryVars(IntakeStep(Dispatch)) /\ WF_recoveryVars(IntakeStep(Restart))

-----------------------------------------------------------------------------
(* Properties: AppliedOnce, CommentedOnce, CompletedIsThere,               *)
(* AttemptsAreBounded and CleanupStopsAtReplies of ControlIntake, and      *)
(* these.                                                                  *)

\* Every comment event is delivered or becomes a dead letter, whatever fails: the
\* dispatcher takes up what a dead process was at (store.py:786).
CommentsSettle ==
  \A d \in Deliveries :
    (scenario = "intake" /\ Open(event[d])) ~> ~Open(event[d])

\* A record whose append returned is still there, in its place, and a runtime can load
\* the file, whoever dies while it appends and whoever else reads at any time; until the
\* first death within the rewriting of the file (session_store.py:263), or the first
\* repair by a process that only lists the Sessions and has no lease
\* (session_store.py:207).  After either of them records do get lost.
RecordsSurvive ==
  scenario = "torn" /\ ~disturbed => Log!AckedRecordsSurvive /\ Log!SessionStaysReadable
=============================================================================

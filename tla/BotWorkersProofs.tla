-------------------------- MODULE BotWorkersProofs --------------------------
(***************************************************************************)
(* The job table for every number of slots, jobs, plans, faults and        *)
(* stalls, in three parts: its safety, what it and the outbox owe each     *)
(* other, and that it implements the promise to the maintainers.           *)
(*                                                                         *)
(* The first part: the inductive invariant IInv joins the type invariant,  *)
(* what a fresh version tells its holder, and an invariant of each row.    *)
(* A step changes one row at most, and plans are only ever appended: the   *)
(* first lemmas reduce each action to the row it writes and the process    *)
(* that takes it.                                                          *)
(***************************************************************************)
EXTENDS BotWorkers, TLAPS

(* One row with the evidence and the last claimant of its job.             *)
RowInv(row, e, slot) ==
  /\ row.owner # NoWorker <=> row.status \in RunningStatus
  /\ row.live => row.owner # NoWorker
  /\ row.status \in Implementing => Approved(row, e)
  /\ row.status = "retry_wait" =>
       /\ row.retryPhase \in Phase
       /\ row.retryPhase = "implementation" => Approved(row, e)
  /\ row.owner # NoWorker => slot \in Slots /\ row.owner = WorkerOf[slot]

IInv ==
  /\ TypeOK
  /\ CheckedIsCurrent
  /\ \A j \in Job : RowInv(jobs[j], evidence[j], claimant[j])

-----------------------------------------------------------------------------
(* How a step changes the variables.                                       *)

(* Plans are only appended.                                                *)
EvidenceGrows ==
  /\ evidence' \in [Job -> Evidence]
  /\ \A j \in Job :
       /\ Len(evidence'[j].plans) \in Len(evidence[j].plans) .. MaxPlans
       /\ \A i \in 1 .. Len(evidence[j].plans) :
            evidence'[j].plans[i] = evidence[j].plans[i]

(* The other tables keep their types.                                      *)
TablesTyped ==
  /\ outbox' \in [Job -> [Event -> EventStatus]]
  /\ claimant' \in [Job -> Slots \cup {NoSlot}]
  /\ faults' \in 0 .. MaxFaults

(* The row of one job is fit to be written.                                *)
RowFits(j, row, slot) ==
  /\ row \in Row
  /\ row.pinned <= Len(evidence[j].plans)
  /\ RowInv(row, evidence[j], slot)

(* Every process is in a state of its kind that fits the rows after the    *)
(* step.                                                                   *)
ProcessesFit ==
  /\ proc' = [p \in Process |-> proc'[p]]
  /\ \A p \in Process : /\ proc'[p] \in ProcessState(p)
                        /\ ActsOn(p, proc'[p], jobs'[proc'[p].job])

-----------------------------------------------------------------------------
(* Appended plans leave a row as it was.                                   *)
LEMMA RowInvGrows ==
  ASSUME NEW j \in Job, NEW row \in Row, NEW slot,
         evidence \in [Job -> Evidence], EvidenceGrows,
         row.pinned <= Len(evidence[j].plans),
         RowInv(row, evidence[j], slot)
  PROVE  /\ RowInv(row, evidence'[j], slot)
         /\ row.pinned <= Len(evidence'[j].plans)
<1>1. row.pinned \in Nat
  BY ConstantsAssumption DEF Row
<1>2. /\ Len(evidence'[j].plans) >= Len(evidence[j].plans)
      /\ Len(evidence'[j].plans) \in Int
      /\ Len(evidence[j].plans) \in Nat
  BY ConstantsAssumption DEF EvidenceGrows, Evidence
<1>3. row.pinned # 0 => evidence'[j].plans[row.pinned]
                          = evidence[j].plans[row.pinned]
  BY <1>1, <1>2 DEF EvidenceGrows
<1>4. Approved(row, evidence[j]) => Approved(row, evidence'[j])
  BY <1>3 DEF Approved
<1>5. RowInv(row, evidence'[j], slot)
  BY <1>4, Zenon DEF RowInv
<1>6. row.pinned <= Len(evidence'[j].plans)
  BY <1>1, <1>2
<1> QED BY <1>5, <1>6

(* A step that fits every row and every process preserves the invariant.   *)
LEMMA FitStep ==
  ASSUME IInv, EvidenceGrows, TablesTyped, ProcessesFit,
         jobs' \in [Job -> Row],
         \A j \in Job : RowFits(j, jobs'[j], claimant'[j])
  PROVE  IInv'
<1>0. evidence \in [Job -> Evidence]
  BY DEF IInv, TypeOK
<1>1. \A j \in Job : /\ RowInv(jobs'[j], evidence'[j], claimant'[j])
                     /\ jobs'[j].pinned <= Len(evidence'[j].plans)
  <2> TAKE j \in Job
  <2>1. jobs'[j] \in Row /\ RowFits(j, jobs'[j], claimant'[j])
    OBVIOUS
  <2> QED BY <1>0, <2>1, RowInvGrows DEF RowFits
<1>2. TypeOK'
  <2>1. \A j \in Job : Len(evidence'[j].plans) <= MaxPlans
    BY ConstantsAssumption DEF EvidenceGrows, Evidence
  <2> QED BY <1>1, <2>1 DEF TypeOK, EvidenceGrows, TablesTyped, ProcessesFit
<1>3. CheckedIsCurrent'
  BY DEF CheckedIsCurrent, ProcessesFit, RowOf
<1> QED BY <1>1, <1>2, <1>3 DEF IInv

(* A step without effect on the evidence lets it grow by nothing.          *)
LEMMA SameEvidence ==
  ASSUME IInv, evidence' = evidence
  PROVE  EvidenceGrows
<1>1. \A j \in Job : Len(evidence[j].plans) \in Nat
  BY DEF IInv, TypeOK, Evidence
<1> QED BY <1>1, ConstantsAssumption DEF EvidenceGrows, IInv, TypeOK

(* The rows of the table fit, with the claimants they have.                *)
LEMMA RowsFit ==
  ASSUME IInv
  PROVE  \A j \in Job : RowFits(j, jobs[j], claimant[j])
BY DEF IInv, TypeOK, RowFits

(* A step that leaves rows and claimants alone.                            *)
LEMMA QuietStep ==
  ASSUME IInv, EvidenceGrows, TablesTyped, ProcessesFit,
         jobs' = jobs, claimant' = claimant
  PROVE  IInv'
<1>1. jobs' \in [Job -> Row]
  BY DEF IInv, TypeOK
<1>2. \A j \in Job : RowFits(j, jobs'[j], claimant'[j])
  BY RowsFit
<1> QED BY <1>1, <1>2, FitStep

(* One process moves, and the rows stay as they are.                       *)
LEMMA ProcessStep ==
  ASSUME IInv, EvidenceGrows, TablesTyped,
         jobs' = jobs, claimant' = claimant,
         NEW p \in Process, NEW next \in ProcessState(p),
         proc' = [proc EXCEPT ![p] = next],
         ActsOn(p, next, jobs[next.job])
  PROVE  IInv'
<1>1. ProcessesFit
  <2>1. \A q \in Process : proc'[q] = IF q = p THEN next ELSE proc[q]
    BY DEF IInv, TypeOK
  <2>2. \A q \in Process : /\ proc[q] \in ProcessState(q)
                           /\ ActsOn(q, proc[q], jobs[proc[q].job])
    BY DEF IInv, TypeOK, CheckedIsCurrent, RowOf
  <2>3. proc' = [q \in Process |-> proc'[q]]
    BY DEF IInv, TypeOK
  <2> QED BY <2>1, <2>2, <2>3, Zenon DEF ProcessesFit
<1> QED BY <1>1, QuietStep

(* Whoever loses the version of a row fits every row.                      *)
LEMMA OutdatedFits ==
  ASSUME IInv, NEW j \in Job, NEW row, jobs' = [jobs EXCEPT ![j] = row],
         NEW q \in Process
  PROVE  /\ Outdated(proc, j)[q] \in ProcessState(q)
         /\ ActsOn(q, Outdated(proc, j)[q], jobs'[Outdated(proc, j)[q].job])
<1>1. /\ proc[q] \in ProcessState(q)
      /\ ActsOn(q, proc[q], jobs[proc[q].job])
      /\ jobs \in [Job -> Row]
  BY DEF IInv, TypeOK, CheckedIsCurrent, RowOf
<1>2. CASE proc[q].job = j
  <2>1. Outdated(proc, j)[q] = [proc[q] EXCEPT !.fresh = FALSE]
    BY <1>2 DEF Outdated
  <2> QED BY <1>1, <2>1 DEF ProcessState, ActsOn
<1>3. CASE proc[q].job # j
  <2>1. Outdated(proc, j)[q] = proc[q]
    BY <1>3 DEF Outdated
  <2>2. CASE proc[q].fresh
    <3>1. proc[q].job \in Job
      BY <1>1, <2>2 DEF ProcessState, Job
    <3>2. jobs'[proc[q].job] = jobs[proc[q].job]
      BY <1>1, <1>3, <3>1
    <3> QED BY <1>1, <2>1, <3>2
  <2>3. CASE ~proc[q].fresh
    BY <1>1, <2>1, <2>3 DEF ActsOn
  <2> QED BY <2>2, <2>3
<1> QED BY <1>2, <1>3

(* One process writes row j and moves; all others lose its version.        *)
LEMMA RowStep ==
  ASSUME IInv, EvidenceGrows, TablesTyped,
         NEW j \in Job, NEW row, RowFits(j, row, claimant'[j]),
         jobs' = [jobs EXCEPT ![j] = row],
         \A k \in Job \ {j} : claimant'[k] = claimant[k],
         NEW p \in Process, NEW next \in ProcessState(p),
         proc' = [Outdated(proc, j) EXCEPT ![p] = next],
         next.fresh => next.job = j /\ ActsOn(p, next, row)
  PROVE  IInv'
<1>0. jobs \in [Job -> Row]
  BY DEF IInv, TypeOK
<1>1. ProcessesFit
  <2>1. proc' = [q \in Process |-> proc'[q]]
    BY DEF Outdated
  <2>2. \A q \in Process : q # p => proc'[q] = Outdated(proc, j)[q]
    BY DEF Outdated
  <2>3. proc'[p] = next
    BY DEF Outdated
  <2>4. ActsOn(p, next, jobs'[next.job])
    BY <1>0 DEF ActsOn
  <2> QED BY <2>1, <2>2, <2>3, <2>4, OutdatedFits DEF ProcessesFit
<1>2. /\ jobs' \in [Job -> Row]
      /\ \A k \in Job : RowFits(k, jobs'[k], claimant'[k])
  <2>1. row \in Row
    BY DEF RowFits
  <2>2. \A k \in Job : jobs'[k] = IF k = j THEN row ELSE jobs[k]
    BY <1>0
  <2> QED BY <1>0, <2>1, <2>2, RowsFit
<1> QED BY <1>1, <1>2, FitStep

(* The same for a command, which no process of the model takes.            *)
LEMMA CommandStep ==
  ASSUME IInv, EvidenceGrows, TablesTyped,
         NEW j \in Job, NEW row, RowFits(j, row, claimant[j]),
         Command(j, row)
  PROVE  IInv'
<1>0. /\ jobs \in [Job -> Row]
      /\ jobs' = [jobs EXCEPT ![j] = row]
      /\ proc' = Outdated(proc, j)
      /\ claimant' = claimant
  BY DEF IInv, TypeOK, Command
<1>1. ProcessesFit
  <2>1. proc' = [q \in Process |-> proc'[q]]
    BY <1>0 DEF Outdated
  <2> QED BY <1>0, <2>1, OutdatedFits DEF ProcessesFit
<1>2. /\ jobs' \in [Job -> Row]
      /\ \A k \in Job : RowFits(k, jobs'[k], claimant'[k])
  <2>1. row \in Row
    BY DEF RowFits
  <2>2. \A k \in Job : jobs'[k] = IF k = j THEN row ELSE jobs[k]
    BY <1>0
  <2> QED BY <1>0, <2>1, <2>2, RowsFit
<1> QED BY <1>1, <1>2, FitStep

-----------------------------------------------------------------------------
(* What the operators return.                                              *)

(* The statuses of the two phases.                                         *)
LEMMA PhaseValues ==
  /\ RunningStatus = {"running_plan", "running_implementation"}
  /\ Running["plan"] = "running_plan"
  /\ Running["implementation"] = "running_implementation"
  /\ \A ph \in Phase : Running[ph] \in RunningStatus /\ Running[ph] \in Status
BY DEF RunningStatus, Running, Phase, Status

(* Fields of a row after a trigger and after giving the lease up.          *)
LEMMA MovedRow ==
  ASSUME NEW row \in Row, NEW trigger \in DOMAIN TargetOf
  PROVE  /\ Moved(row, trigger) \in Row
         /\ Unowned(Moved(row, trigger)) \in Row
         /\ Moved(row, trigger).status = TargetOf[trigger]
         /\ Moved(row, trigger).owner = row.owner
         /\ Moved(row, trigger).live = row.live
         /\ Moved(row, trigger).retryPhase = row.retryPhase
         /\ Moved(row, trigger).pinned = row.pinned
         /\ Moved(row, trigger).approval = row.approval
         /\ Unowned(Moved(row, trigger)).status = TargetOf[trigger]
         /\ Unowned(Moved(row, trigger)).owner = NoWorker
         /\ Unowned(Moved(row, trigger)).live = FALSE
         /\ Unowned(Moved(row, trigger)).retryPhase = row.retryPhase
         /\ Unowned(Moved(row, trigger)).pinned = row.pinned
         /\ Unowned(Moved(row, trigger)).approval = row.approval
<1>1. TargetOf[trigger] \in Status
  BY DEF TargetOf, Status
<1>2. NoWorker \in Worker \cup {NoWorker}
  OBVIOUS
<1> QED BY <1>1, <1>2 DEF Moved, Unowned, Row

(* A row that is neither running nor waiting for a retry, that nobody owns *)
(* and that keeps plan and approval, fits if its phase allows it.          *)
LEMMA SettledRow ==
  ASSUME IInv, NEW j \in Job, NEW row \in Row,
         row.pinned = jobs[j].pinned, row.approval = jobs[j].approval,
         row.owner = NoWorker, row.live = FALSE,
         row.status \notin RunningStatus, row.status # "retry_wait",
         row.status \in Implementing => Approved(jobs[j], evidence[j])
  PROVE  \A slot : RowFits(j, row, slot)
<1>1. row.pinned <= Len(evidence[j].plans)
  BY DEF IInv, TypeOK
<1>2. row.status \in Implementing => Approved(row, evidence[j])
  BY DEF Approved
<1> QED BY <1>1, <1>2 DEF RowFits, RowInv

(* A job that leaves its status for one where nobody runs it.              *)
LEMMA MovedFits ==
  ASSUME IInv, NEW j \in Job, NEW trigger \in DOMAIN TargetOf,
         TargetOf[trigger] \notin RunningStatus \cup {"retry_wait"},
         TargetOf[trigger] \in Implementing => Approved(jobs[j], evidence[j])
  PROVE  /\ \A slot : RowFits(j, Unowned(Moved(jobs[j], trigger)), slot)
         /\ jobs[j].status \notin RunningStatus =>
              \A slot : RowFits(j, Moved(jobs[j], trigger), slot)
<1>1. /\ jobs[j] \in Row
      /\ jobs[j].live => jobs[j].owner # NoWorker
      /\ jobs[j].owner # NoWorker <=> jobs[j].status \in RunningStatus
  BY DEF IInv, TypeOK, RowInv
<1>2. \A slot : RowFits(j, Unowned(Moved(jobs[j], trigger)), slot)
  <2> DEFINE row == Unowned(Moved(jobs[j], trigger))
  <2>1. /\ row \in Row
        /\ row.status = TargetOf[trigger]
        /\ row.owner = NoWorker
        /\ row.live = FALSE
        /\ row.pinned = jobs[j].pinned
        /\ row.approval = jobs[j].approval
    BY <1>1, MovedRow
  <2> HIDE DEF row
  <2>2. \A slot : RowFits(j, row, slot)
    BY <2>1, SettledRow
  <2> QED BY <2>2 DEF row
<1>3. ASSUME jobs[j].status \notin RunningStatus
      PROVE  \A slot : RowFits(j, Moved(jobs[j], trigger), slot)
  <2> DEFINE row == Moved(jobs[j], trigger)
  <2>1. /\ row \in Row
        /\ row.status = TargetOf[trigger]
        /\ row.owner = jobs[j].owner
        /\ row.live = jobs[j].live
        /\ row.pinned = jobs[j].pinned
        /\ row.approval = jobs[j].approval
    BY <1>1, MovedRow
  <2>2. row.owner = NoWorker /\ row.live = FALSE
    BY <1>1, <1>3, <2>1 DEF Row
  <2> HIDE DEF row
  <2>3. \A slot : RowFits(j, row, slot)
    BY <2>1, <2>2, SettledRow
  <2> QED BY <2>3 DEF row
<1> QED BY <1>2, <1>3

(* What the invariant says of the row of one job.                          *)
LEMMA RowFacts ==
  ASSUME IInv, NEW j \in Job
  PROVE  /\ jobs[j] \in Row
         /\ evidence[j] \in Evidence
         /\ jobs[j].pinned <= Len(evidence[j].plans)
         /\ jobs[j].owner # NoWorker <=> jobs[j].status \in RunningStatus
         /\ jobs[j].live => jobs[j].owner # NoWorker
         /\ jobs[j].status \in Implementing => Approved(jobs[j], evidence[j])
         /\ jobs[j].status = "retry_wait" =>
              /\ jobs[j].retryPhase \in Phase
              /\ jobs[j].retryPhase = "implementation" =>
                   Approved(jobs[j], evidence[j])
         /\ jobs[j].owner # NoWorker =>
              claimant[j] \in Slots /\ jobs[j].owner = WorkerOf[claimant[j]]
BY DEF IInv, TypeOK, RowInv

(* What the invariant says of a process, and of its job if it has one.     *)
LEMMA ProcessFacts ==
  ASSUME IInv, NEW p \in Process
  PROVE  /\ proc[p] \in ProcessState(p)
         /\ ActsOn(p, proc[p], RowOf(p))
         /\ proc[p].pc \notin {"idle", "down"} => proc[p].job \in Job
BY DEF IInv, TypeOK, CheckedIsCurrent, ProcessState, Job

(* A process that rests fits everything.                                   *)
LEMMA RestFits ==
  ASSUME NEW p \in Process
  PROVE  /\ Rest \in ProcessState(p)
         /\ Rest.fresh = FALSE /\ Rest.event = NoEvent
         /\ \A row : ActsOn(p, Rest, row)
BY ConstantsAssumption
DEF Rest, ProcessState, LabelOf, SlotLabel, DeskLabel, DispatcherLabel, ActsOn

(* The process at the next step of its code, with or without the version.  *)
Stepped(p, label, version) ==
  [proc[p] EXCEPT !.pc = label, !.fresh = version]

(* A busy slot may be anywhere in its code.                                *)
LEMMA SlotState ==
  ASSUME IInv, NEW s \in Slots, proc[s].pc \notin {"idle", "down"},
         NEW label \in SlotLabel, NEW version \in BOOLEAN
  PROVE  /\ Stepped(s, label, version) \in ProcessState(s)
         /\ Stepped(s, label, version).job = proc[s].job
         /\ Stepped(s, label, version).pc = label
         /\ Stepped(s, label, version).fresh = version
<1>1. s \in Process
  BY DEF Process
<1>2. proc[s] \in ProcessState(s) /\ proc[s].job # 0
  BY <1>1 DEF IInv, TypeOK, ProcessState
<1>3. /\ proc[s] \in [pc : SlotLabel, job : 0 .. NumJobs, fresh : BOOLEAN,
                      event : Event \cup {NoEvent}]
      /\ LabelOf(s) = SlotLabel
  BY <1>2 DEF ProcessState, LabelOf
<1> DEFINE next == Stepped(s, label, version)
<1>4. /\ next \in [pc : SlotLabel, job : 0 .. NumJobs, fresh : BOOLEAN,
                   event : Event \cup {NoEvent}]
      /\ next.job = proc[s].job
      /\ next.pc = label
      /\ next.fresh = version
  BY <1>3 DEF Stepped
<1>5. label \notin {"preparing", "prepared", "verify", "push", "settle"}
  BY DEF SlotLabel
<1> HIDE DEF next
<1>6. next \in ProcessState(s)
  BY <1>2, <1>3, <1>4, <1>5 DEF ProcessState
<1> QED BY <1>4, <1>6 DEF next

(* A busy dispatcher that keeps its event.                                 *)
LEMMA DispatcherState ==
  ASSUME IInv, proc[Dispatcher].pc # "idle",
         NEW label \in {"prepared", "push", "settle"},
         label = "prepared" => At(Dispatcher, "preparing"),
         NEW version \in BOOLEAN
  PROVE  /\ Stepped(Dispatcher, label, version) \in ProcessState(Dispatcher)
         /\ Stepped(Dispatcher, label, version).job = proc[Dispatcher].job
         /\ Stepped(Dispatcher, label, version).pc = label
         /\ Stepped(Dispatcher, label, version).fresh = version
<1>1. proc[Dispatcher] \in ProcessState(Dispatcher)
  BY DEF IInv, TypeOK, Process
<1>2. LabelOf(Dispatcher) = DispatcherLabel
  BY ConstantsAssumption DEF LabelOf
<1>3. PrepareEvent \subseteq Event /\ NoEvent \notin PrepareEvent
  BY DEF PrepareEvent, Event, NoEvent
<1> DEFINE next == Stepped(Dispatcher, label, version)
<1>4. /\ proc[Dispatcher] \in [pc : DispatcherLabel, job : 0 .. NumJobs,
                               fresh : BOOLEAN, event : Event \cup {NoEvent}]
      /\ proc[Dispatcher].job # 0
      /\ proc[Dispatcher].event # NoEvent
      /\ label = "prepared" => proc[Dispatcher].event \in PrepareEvent
  BY <1>1, <1>2, <1>3 DEF ProcessState, DispatcherLabel, At
<1>5. label \in DispatcherLabel /\ label # "preparing"
  BY DEF DispatcherLabel
<1>6. /\ next \in [pc : DispatcherLabel, job : 0 .. NumJobs,
                   fresh : BOOLEAN, event : Event \cup {NoEvent}]
      /\ next.job = proc[Dispatcher].job
      /\ next.event = proc[Dispatcher].event
      /\ next.pc = label
      /\ next.fresh = version
  BY <1>4, <1>5 DEF Stepped
<1> HIDE DEF next
<1>7. next \in ProcessState(Dispatcher)
  BY <1>2, <1>4, <1>5, <1>6 DEF ProcessState
<1> QED BY <1>6, <1>7 DEF next

(* An event of the outbox that is inserted or settled keeps it typed.      *)
LEMMA OutboxTyped ==
  ASSUME IInv, NEW j \in Job, NEW e \in Event, NEW st \in EventStatus,
         outbox' = [outbox EXCEPT ![j][e] = st],
         UNCHANGED <<claimant, faults>>
  PROVE  TablesTyped
<1>1. outbox \in [Job -> [Event -> EventStatus]]
  BY DEF IInv, TypeOK
<1>2. outbox' \in [Job -> [Event -> EventStatus]]
  BY <1>1
<1> QED BY <1>2 DEF IInv, TypeOK, TablesTyped

(* The tables a step leaves alone keep their types.                        *)
LEMMA SameTables ==
  ASSUME IInv, UNCHANGED <<outbox, claimant, faults>>
  PROVE  TablesTyped
BY DEF IInv, TypeOK, TablesTyped

(* A slot goes on without a version.                                       *)
LEMMA GotoStep ==
  ASSUME IInv, EvidenceGrows, UNCHANGED <<jobs, outbox, claimant, faults>>,
         NEW s \in Slots, proc[s].pc \notin {"idle", "down"},
         NEW label \in SlotLabel, Goto(s, label)
  PROVE  IInv'
<1> DEFINE next == Stepped(s, label, FALSE)
<1>1. next \in ProcessState(s) /\ ~next.fresh
  BY SlotState
<1>2. proc' = [proc EXCEPT ![s] = next]
  BY DEF Goto, Stepped
<1>3. ActsOn(s, next, jobs[next.job])
  BY <1>1 DEF ActsOn
<1>4. s \in Process
  BY DEF Process
<1> HIDE DEF next
<1> QED BY <1>1, <1>2, <1>3, <1>4, SameTables, ProcessStep

(* A slot reads its row and goes where this row takes it.                  *)
LEMMA ReadStep ==
  ASSUME IInv, EvidenceGrows, UNCHANGED <<jobs, outbox, claimant, faults>>,
         NEW s \in Slots, proc[s].pc \notin {"idle", "down"},
         NEW label \in SlotLabel \ {"exhaust"}, ReadThen(s, label),
         label = "finish" => RowOf(s).status = Running[PhaseOf[s]],
         label \in {"retry", "bury"} => RowOf(s).status \in RunningStatus
  PROVE  IInv'
<1> DEFINE next == Stepped(s, label, TRUE)
<1>1. /\ next \in ProcessState(s)
      /\ next.pc = label
      /\ next.job = proc[s].job
  BY SlotState
<1>2. proc' = [proc EXCEPT ![s] = next]
  BY DEF ReadThen, Stepped
<1> HIDE DEF next
<1>3. ActsOn(s, next, jobs[next.job])
  BY <1>1 DEF ActsOn, SlotLabel, RowOf
<1>4. s \in Process
  BY DEF Process
<1> QED BY <1>1, <1>2, <1>3, <1>4, SameTables, ProcessStep

(* A process is done with its job.                                         *)
LEMMA LeaveStep ==
  ASSUME IInv, EvidenceGrows, TablesTyped, UNCHANGED <<jobs, claimant>>,
         NEW p \in Process, Leave(p)
  PROVE  IInv'
BY RestFits, ProcessStep DEF Leave

(* The read that decides whether there is still something to finish.       *)
LEMMA ReadToFinishStep ==
  ASSUME IInv, UNCHANGED <<jobs, outbox, evidence, claimant, faults>>,
         NEW s \in Slots, proc[s].pc \notin {"idle", "down"}, ReadToFinish(s)
  PROVE  IInv'
<1>1. EvidenceGrows
  BY SameEvidence
<1>2. CASE RowOf(s).status # Running[PhaseOf[s]]
  BY <1>1, <1>2, SameTables, LeaveStep DEF ReadToFinish, Process
<1>3. CASE RowOf(s).status = Running[PhaseOf[s]]
  <2>1. "finish" \in SlotLabel \ {"exhaust"}
    BY DEF SlotLabel
  <2> QED BY <1>1, <1>3, <2>1, ReadStep DEF ReadToFinish
<1> QED BY <1>2, <1>3

-----------------------------------------------------------------------------
(* The steps of a slot that leave the rows alone.                          *)

(* The evidence of one job changes, and its plans stay.                    *)
LEMMA EvidenceStep ==
  ASSUME IInv, NEW j \in Job, NEW e \in Evidence, e.plans = evidence[j].plans,
         evidence' = [evidence EXCEPT ![j] = e]
  PROVE  EvidenceGrows
<1>1. /\ evidence \in [Job -> Evidence]
      /\ \A k \in Job : /\ Len(evidence[k].plans) \in Nat
                        /\ Len(evidence[k].plans) <= MaxPlans
  BY DEF IInv, TypeOK, Evidence
<1>2. /\ evidence' \in [Job -> Evidence]
      /\ \A k \in Job : evidence'[k].plans = evidence[k].plans
  BY <1>1
<1> QED BY <1>1, <1>2, ConstantsAssumption DEF EvidenceGrows

(* A refused run fails.                                                    *)
LEMMA RejectStep ==
  ASSUME IInv, NEW s \in Slots, Reject(s)
  PROVE  IInv'
<1>1. PICK label \in {"failing", "mismatch"} : Goto(s, label)
  BY DEF Reject
<1> QED BY <1>1, SameEvidence, GotoStep DEF Reject, SlotLabel

(* A run begins, or finishes at once what an earlier run produced.         *)
LEMMA BeginStep ==
  ASSUME IInv, NEW s \in Slots, Begin(s)
  PROVE  IInv'
<1>1. /\ proc[s].pc \notin {"idle", "down"}
      /\ UNCHANGED <<jobs, outbox, claimant, faults>>
  BY DEF Begin
<1>2. CASE AlreadyProduced(s)
  BY <1>1, <1>2, ReadToFinishStep DEF Begin
<1>3. CASE ~AlreadyProduced(s) /\ At(s, "claimed")
  BY <1>1, <1>3, SameEvidence, ReadStep DEF Begin, SlotLabel
<1>4. CASE ~AlreadyProduced(s) /\ ~At(s, "claimed")
  <2> DEFINE j == proc[s].job
             e == [evidence[j] EXCEPT !.reply = @ /\ PhaseOf[s] # "plan"]
  <2>1. j \in Job
    BY <1>1, ProcessFacts DEF Process
  <2>2. evidence[j] \in Evidence
    BY <2>1, RowFacts
  <2>3. e \in Evidence /\ e.plans = evidence[j].plans
    BY <2>2 DEF Evidence
  <2>4. evidence' = [evidence EXCEPT ![j] = e] /\ Goto(s, "running")
    BY <1>4, Zenon DEF Begin
  <2>5. EvidenceGrows
    BY <2>1, <2>3, <2>4, EvidenceStep
  <2> QED BY <1>1, <2>4, <2>5, GotoStep DEF SlotLabel
<1> QED BY <1>2, <1>3, <1>4

(* The polls, the policy callback, the end of the stream and the failure   *)
(* handler only move the slot.                                             *)
LEMMA SlotMoves ==
  ASSUME IInv, NEW s \in Slots,
         \/ Abandon(s) \/ Poll(s) \/ ViolatePolicy(s) \/ PolicyConflict(s)
         \/ EndRun(s) \/ Conclude(s) \/ RunConflict(s) \/ HandleFailure(s)
  PROVE  IInv'
<1>1. /\ UNCHANGED <<jobs, outbox, evidence, claimant, faults>>
      /\ EvidenceGrows
      /\ TablesTyped
  BY SameEvidence, SameTables
  DEF Abandon, Poll, ViolatePolicy, PolicyConflict, EndRun, Conclude,
      RunConflict, HandleFailure
<1>2. /\ proc[s].pc \notin {"idle", "down"}
      /\ s \in Process
  BY DEF Abandon, Poll, ViolatePolicy, PolicyConflict, EndRun, Conclude,
         RunConflict, HandleFailure, At, Process
<1>3. {"beat", "progress", "policy", "finish", "retry", "bury", "running",
       "ended", "failing"} \subseteq SlotLabel \ {"exhaust"}
  BY DEF SlotLabel
<1>4. CASE Abandon(s)
  BY <1>1, <1>2, <1>4, LeaveStep DEF Abandon
<1>5. CASE Poll(s)
  <2>1. PICK label \in {"beat", "progress"} : ReadThen(s, label)
    BY <1>5 DEF Poll
  <2> QED BY <1>1, <1>2, <1>3, <2>1, ReadStep
<1>6. CASE ViolatePolicy(s)
  BY <1>1, <1>2, <1>3, <1>6, ReadStep DEF ViolatePolicy
<1>7. CASE PolicyConflict(s)
  BY <1>1, <1>2, <1>3, <1>7, GotoStep DEF PolicyConflict
<1>8. CASE EndRun(s)
  <2>1. PICK label \in {"ended", "failing"} : Goto(s, label)
    BY <1>8 DEF EndRun
  <2> QED BY <1>1, <1>2, <1>3, <2>1, GotoStep
<1>9. CASE Conclude(s)
  <2>1. CASE HasProduct(s)
    BY <1>1, <1>2, <1>9, <2>1, ReadToFinishStep DEF Conclude
  <2>2. CASE ~HasProduct(s)
    BY <1>1, <1>2, <1>3, <1>9, <2>2, GotoStep DEF Conclude
  <2> QED BY <2>1, <2>2
<1>10. CASE RunConflict(s)
  BY <1>1, <1>2, <1>3, <1>10, GotoStep DEF RunConflict
<1>11. CASE HandleFailure(s)
  <2>1. CASE RowOf(s).owner = WorkerOf[s] /\ RowOf(s).status \in RunningStatus
    <3>1. PICK label \in {"retry", "bury"} : ReadThen(s, label)
      BY <1>11, <2>1 DEF HandleFailure
    <3> QED BY <1>1, <1>2, <1>3, <2>1, <3>1, ReadStep
  <2>2. CASE ~(/\ RowOf(s).owner = WorkerOf[s]
               /\ RowOf(s).status \in RunningStatus)
    BY <1>1, <1>2, <1>11, <2>2, LeaveStep DEF HandleFailure
  <2> QED BY <2>1, <2>2
<1> QED BY <1>4, <1>5, <1>6, <1>7, <1>8, <1>9, <1>10, <1>11

(* A slot dies on a conflict of its failure handler.                       *)
LEMMA HandlerConflictStep ==
  ASSUME IInv, NEW s \in Slots, HandlerConflict(s)
  PROVE  IInv'
<1> DEFINE next == [Rest EXCEPT !.pc = "down"]
<1>1. next \in ProcessState(s) /\ ~next.fresh
  <2>1. Rest \in ProcessState(s) /\ Rest.fresh = FALSE
    BY RestFits DEF Process
  <2> QED BY <2>1 DEF ProcessState, LabelOf, SlotLabel
<1>2. ActsOn(s, next, jobs[next.job])
  BY <1>1 DEF ActsOn
<1>3. /\ proc' = [proc EXCEPT ![s] = next]
      /\ UNCHANGED <<jobs, outbox, evidence, claimant, faults>>
  BY DEF HandlerConflict
<1>4. s \in Process
  BY DEF Process
<1> HIDE DEF next
<1> QED BY <1>1, <1>2, <1>3, <1>4, SameEvidence, SameTables, ProcessStep

(* Artifacts arrive: a plan is appended, a draft or the end of a Session   *)
(* recorded.                                                               *)
LEMMA ArtifactStep ==
  ASSUME IInv, NEW s \in Slots,
         \/ \E kind \in PlanStatus : SubmitPlan(s, kind)
         \/ SubmitDraft(s) \/ CompleteSession(s)
  PROVE  IInv'
<1> DEFINE j == proc[s].job
<1>1. /\ UNCHANGED <<jobs, proc, outbox, claimant, faults>>
      /\ At(s, "running")
  BY DEF SubmitPlan, SubmitDraft, CompleteSession
<1>2. j \in Job
  BY <1>1, ProcessFacts DEF At, Process
<1>3. evidence[j] \in Evidence /\ evidence \in [Job -> Evidence]
  BY <1>2, RowFacts DEF IInv, TypeOK
<1>4. EvidenceGrows
  <2>1. CASE SubmitDraft(s)
    <3> DEFINE e == [evidence[j] EXCEPT !.draft = TRUE]
    <3>1. e \in Evidence /\ e.plans = evidence[j].plans
      BY <1>3 DEF Evidence
    <3> QED BY <1>2, <2>1, <3>1, EvidenceStep DEF SubmitDraft
  <2>2. CASE CompleteSession(s)
    <3> DEFINE e == [evidence[j] EXCEPT !.done = TRUE]
    <3>1. e \in Evidence /\ e.plans = evidence[j].plans
      BY <1>3 DEF Evidence
    <3> QED BY <1>2, <2>2, <3>1, EvidenceStep DEF CompleteSession
  <2>3. ASSUME NEW kind \in PlanStatus, SubmitPlan(s, kind)
        PROVE  EvidenceGrows
    <3> DEFINE old  == evidence[j].plans
               next == [evidence[j] EXCEPT !.plans = Append(old, kind)]
    <3>1. old \in Seq(PlanStatus) /\ Len(old) < MaxPlans
      BY <1>3, <2>3 DEF SubmitPlan, Evidence
    <3>2. /\ Append(old, kind) \in Seq(PlanStatus)
          /\ Len(Append(old, kind)) = Len(old) + 1
          /\ \A i \in 1 .. Len(old) : Append(old, kind)[i] = old[i]
      BY <3>1
    <3>3. next \in Evidence /\ next.plans = Append(old, kind)
      BY <1>3, <3>2 DEF Evidence
    <3>4. evidence' = [evidence EXCEPT ![j] = next]
      BY <2>3 DEF SubmitPlan
    <3> HIDE DEF next
    <3>5. /\ evidence' \in [Job -> Evidence]
          /\ evidence'[j].plans = Append(old, kind)
          /\ \A k \in Job \ {j} : evidence'[k].plans = evidence[k].plans
      BY <1>2, <1>3, <3>3, <3>4
    <3>6. \A k \in Job : /\ Len(evidence[k].plans) \in Nat
                         /\ Len(evidence[k].plans) <= MaxPlans
      BY DEF IInv, TypeOK, Evidence
    <3>7. Len(old) \in Nat /\ MaxPlans \in Nat
      BY <1>2, <3>6, ConstantsAssumption
    <3>8. ASSUME NEW k \in Job
          PROVE  /\ Len(evidence'[k].plans) \in Len(evidence[k].plans) .. MaxPlans
                 /\ \A i \in 1 .. Len(evidence[k].plans) :
                      evidence'[k].plans[i] = evidence[k].plans[i]
      <4>1. CASE k = j
        <5> DEFINE new == Append(old, kind)
        <5>1. evidence'[k].plans = new /\ evidence[k].plans = old
          BY <3>5, <4>1
        <5>2. /\ Len(new) = Len(old) + 1
              /\ \A i \in 1 .. Len(old) : new[i] = old[i]
          BY <3>2
        <5> HIDE DEF old, new
        <5> QED BY <3>1, <3>7, <5>1, <5>2
      <4>2. CASE k # j
        BY <3>5, <3>6, <3>7, <4>2
      <4> QED BY <4>1, <4>2
    <3> QED BY <3>5, <3>8 DEF EvidenceGrows
  <2> QED BY <2>1, <2>2, <2>3
<1>5. ProcessesFit
  BY <1>1 DEF IInv, TypeOK, CheckedIsCurrent, RowOf, ProcessesFit
<1> QED BY <1>1, <1>4, <1>5, SameTables, QuietStep

-----------------------------------------------------------------------------
(* The writes of a slot.                                                   *)

(* A process writes its row; the row fits its job.                         *)
LEMMA WriteStep ==
  ASSUME IInv, EvidenceGrows, TablesTyped, claimant' = claimant,
         NEW p \in Process, NEW row, NEW next \in ProcessState(p),
         proc[p].job \in Job, RowFits(proc[p].job, row, claimant[proc[p].job]),
         next.fresh => next.job = proc[p].job /\ ActsOn(p, next, row),
         Write(p, row, next)
  PROVE  IInv'
BY RowStep DEF Write

(* A row that is still run by its owner, with what no invariant is about   *)
(* changed.                                                                *)
LEMMA OwnedRow ==
  ASSUME IInv, NEW j \in Job, NEW row \in Row,
         row.status = jobs[j].status, row.owner = jobs[j].owner,
         row.live => jobs[j].owner # NoWorker,
         row.retryPhase = jobs[j].retryPhase,
         row.pinned = jobs[j].pinned, row.approval = jobs[j].approval
  PROVE  RowFits(j, row, claimant[j])
<1>1. Approved(row, evidence[j]) <=> Approved(jobs[j], evidence[j])
  BY DEF Approved
<1> QED BY <1>1, RowFacts DEF RowFits, RowInv

(* Where a busy slot is, and that its job has a row.                       *)
LEMMA SlotFacts ==
  ASSUME IInv, NEW s \in Slots, proc[s].pc \notin {"idle", "down"}
  PROVE  /\ s \in Process
         /\ proc[s].job \in Job
         /\ RowOf(s) = jobs[proc[s].job]
         /\ RowOf(s) \in Row
         /\ PhaseOf[s] \in Phase
         /\ ActsOn(s, proc[s], RowOf(s))
<1>1. s \in Process
  BY DEF Process
<1> QED BY <1>1, ProcessFacts, RowFacts, ConstantsAssumption DEF RowOf

(* The Session of the phase is recorded in the row.                        *)
LEMMA OpenSessionStep ==
  ASSUME IInv, NEW s \in Slots, OpenSession(s)
  PROVE  IInv'
<1> DEFINE j    == proc[s].job
           row  == [RowOf(s) EXCEPT !.session = @ \cup {PhaseOf[s]}]
           next == Stepped(s, "running", FALSE)
           e    == [evidence[j] EXCEPT !.reply = @ /\ PhaseOf[s] # "plan"]
<1>1. proc[s].pc \notin {"idle", "down"}
  BY DEF OpenSession, At
<1>2. j \in Job /\ s \in Process /\ RowOf(s) = jobs[j] /\ PhaseOf[s] \in Phase
  BY <1>1, SlotFacts
<1>3. EvidenceGrows
  <2>1. evidence[j] \in Evidence
    BY <1>2, RowFacts
  <2>2. e \in Evidence /\ e.plans = evidence[j].plans
    BY <2>1 DEF Evidence
  <2>3. evidence' = [evidence EXCEPT ![j] = e]
    BY Zenon DEF OpenSession
  <2> QED BY <1>2, <2>2, <2>3, EvidenceStep
<1>4. RowFits(j, row, claimant[j])
  <2>1. jobs[j] \in Row
    BY <1>2, RowFacts
  <2>2. row \in Row
    BY <1>2, <2>1 DEF Row
  <2>3. /\ row.status = jobs[j].status
        /\ row.owner = jobs[j].owner
        /\ row.live = jobs[j].live
        /\ row.retryPhase = jobs[j].retryPhase
        /\ row.pinned = jobs[j].pinned
        /\ row.approval = jobs[j].approval
    BY <1>2, <2>1 DEF Row
  <2> HIDE DEF row
  <2> QED BY <1>2, <2>2, <2>3, RowFacts, OwnedRow
<1>5. next \in ProcessState(s) /\ ~next.fresh
  <2>1. "running" \in SlotLabel
    BY DEF SlotLabel
  <2> QED BY <1>1, <2>1, SlotState
<1>6. Write(s, row, next) /\ UNCHANGED <<outbox, claimant, faults>>
  BY DEF OpenSession, Stepped
<1> HIDE DEF next, row
<1> QED BY <1>2, <1>3, <1>4, <1>5, <1>6, SameTables, WriteStep

(* The writes of a run that goes on.                                       *)
LEMMA RunWriteStep ==
  ASSUME IInv, NEW s \in Slots,
         \/ Heartbeat(s) \/ RecordProgress(s) \/ TerminateForPolicy(s)
  PROVE  IInv'
<1> DEFINE j    == proc[s].job
           next == Stepped(s, "running", FALSE)
<1>1. /\ proc[s].pc \notin {"idle", "down"}
      /\ UNCHANGED <<outbox, evidence, claimant, faults>>
      /\ Fenced(s)
  BY DEF Heartbeat, RecordProgress, TerminateForPolicy, At
<1>2. j \in Job /\ s \in Process /\ RowOf(s) = jobs[j]
  BY <1>1, SlotFacts
<1>3. /\ jobs[j] \in Row
      /\ jobs[j].owner # NoWorker
  BY <1>1, <1>2, RowFacts, ConstantsAssumption DEF Fenced, Worker
<1>4. next \in ProcessState(s) /\ ~next.fresh
  <2>1. "running" \in SlotLabel
    BY DEF SlotLabel
  <2> QED BY <1>1, <2>1, SlotState
<1>5. EvidenceGrows /\ TablesTyped
  BY <1>1, SameEvidence, SameTables
<1> HIDE DEF next
<1>6. CASE Heartbeat(s)
  <2> DEFINE row == [jobs[j] EXCEPT !.live = TRUE]
  <2>1. row \in Row
    BY <1>3 DEF Row
  <2>2. /\ row.status = jobs[j].status
        /\ row.owner = jobs[j].owner
        /\ row.retryPhase = jobs[j].retryPhase
        /\ row.pinned = jobs[j].pinned
        /\ row.approval = jobs[j].approval
    BY <1>3 DEF Row
  <2>3. Write(s, row, next)
    BY <1>2, <1>6 DEF Heartbeat, next, Stepped
  <2> HIDE DEF row
  <2>4. RowFits(j, row, claimant[j])
    BY <1>2, <1>3, <2>1, <2>2, OwnedRow
  <2> QED BY <1>1, <1>2, <1>4, <1>5, <2>3, <2>4, WriteStep
<1>7. CASE RecordProgress(s)
  <2>1. Write(s, jobs[j], next)
    BY <1>2, <1>7 DEF RecordProgress, next, Stepped
  <2>2. RowFits(j, jobs[j], claimant[j])
    BY <1>2, RowsFit
  <2> QED BY <1>1, <1>2, <1>4, <1>5, <2>1, <2>2, WriteStep
<1>8. CASE TerminateForPolicy(s)
  <2> DEFINE row == Unowned(Moved(jobs[j], "cancel"))
  <2>1. Write(s, row, next)
    BY <1>2, <1>8 DEF TerminateForPolicy, next, Stepped
  <2>2. "cancel" \in DOMAIN TargetOf /\ TargetOf["cancel"] = "cancelled"
    BY DEF TargetOf
  <2>3. RowFits(j, row, claimant[j])
    BY <1>2, <2>2, PhaseValues, MovedFits DEF Implementing
  <2> QED BY <1>1, <1>2, <1>4, <1>5, <2>1, <2>3, WriteStep
<1> QED BY <1>6, <1>7, <1>8

(* The end of a planning run pins the latest plan.                         *)
LEMMA FinishPlanStep ==
  ASSUME IInv, NEW s \in Slots, FinishPlan(s)
  PROVE  IInv'
<1> DEFINE j       == proc[s].job
           latest  == Len(evidence[j].plans)
           trigger == IF evidence[j].plans[latest] = "ready" THEN "plan_ready"
                      ELSE "plan_blocked"
           moved   == Unowned(Moved(jobs[j], trigger))
           row     == [moved EXCEPT !.pinned = latest]
<1>1. proc[s].pc \notin {"idle", "down"}
  BY DEF FinishPlan, At
<1>2. j \in Job /\ s \in Process /\ RowOf(s) = jobs[j] /\ jobs[j] \in Row
  BY <1>1, SlotFacts
<1>3. /\ trigger \in DOMAIN TargetOf
      /\ TargetOf[trigger] \in {"waiting_approval", "blocked_plan"}
  BY DEF TargetOf
<1>4. latest \in 0 .. MaxPlans
  BY <1>2, ConstantsAssumption DEF IInv, TypeOK, Evidence
<1>5. /\ moved \in Row
      /\ moved.status = TargetOf[trigger]
      /\ moved.owner = NoWorker
      /\ moved.live = FALSE
  BY <1>2, <1>3, MovedRow
<1>6. /\ Write(s, row, Rest)
      /\ outbox' = [outbox EXCEPT ![j]["comment_plan"] = "due"]
      /\ UNCHANGED <<evidence, claimant, faults>>
  BY <1>2 DEF FinishPlan
<1>7. TablesTyped
  BY <1>2, <1>6, OutboxTyped DEF Event, EventStatus
<1>8. latest <= Len(evidence[j].plans)
  BY <1>4, ConstantsAssumption
<1> HIDE DEF trigger, moved, latest
<1>9. /\ row \in Row
      /\ row.status \in {"waiting_approval", "blocked_plan"}
      /\ row.owner = NoWorker
      /\ row.live = FALSE
      /\ row.pinned = latest
  BY <1>3, <1>4, <1>5 DEF Row
<1> HIDE DEF row
<1>10. RowFits(j, row, claimant[j])
  BY <1>8, <1>9, PhaseValues DEF RowFits, RowInv, Implementing
<1> QED BY <1>2, <1>6, <1>7, <1>10, SameEvidence, RestFits, WriteStep

(* The end of an implementation run, and a retry given up.                 *)
LEMMA RunOverStep ==
  ASSUME IInv, NEW s \in Slots, FinishImplementation(s) \/ ExhaustRetries(s)
  PROVE  IInv'
<1> DEFINE j == proc[s].job
<1>1. proc[s].pc \in {"finish", "exhaust"} /\ proc[s].fresh
  BY DEF FinishImplementation, ExhaustRetries, At, MayFinish, Fenced, Unchanged
<1>2. /\ j \in Job /\ s \in Process /\ RowOf(s) = jobs[j]
      /\ ActsOn(s, proc[s], jobs[j])
  BY <1>1, SlotFacts
<1>3. CASE FinishImplementation(s)
  <2> DEFINE row == Unowned(Moved(jobs[j], "implementation_ready"))
  <2>1. /\ Write(s, row, Rest)
        /\ outbox' = [outbox EXCEPT ![j]["publish"] = "due"]
        /\ UNCHANGED <<evidence, claimant, faults>>
    BY <1>2, <1>3 DEF FinishImplementation
  <2>2. TablesTyped
    BY <1>2, <2>1, OutboxTyped DEF Event, EventStatus
  <2>3. Approved(jobs[j], evidence[j])
    BY <1>1, <1>2, <1>3, PhaseValues, RowFacts
    DEF ActsOn, FinishImplementation, At, Implementing
  <2>4. /\ "implementation_ready" \in DOMAIN TargetOf
        /\ TargetOf["implementation_ready"] = "ready_to_publish"
    BY DEF TargetOf
  <2>5. RowFits(j, row, claimant[j])
    BY <1>2, <2>3, <2>4, PhaseValues, MovedFits
  <2> QED BY <1>2, <2>1, <2>2, <2>5, SameEvidence, RestFits, WriteStep
<1>4. CASE ExhaustRetries(s)
  <2> DEFINE row == Moved(jobs[j], "exhaust_retries")
  <2>1. Write(s, row, Rest) /\ UNCHANGED <<outbox, evidence, claimant, faults>>
    BY <1>2, <1>4 DEF ExhaustRetries
  <2>2. jobs[j].status = "retry_wait"
    BY <1>1, <1>2, <1>4 DEF ActsOn, ExhaustRetries, At
  <2>3. /\ "exhaust_retries" \in DOMAIN TargetOf
        /\ TargetOf["exhaust_retries"] = "dead_letter"
    BY DEF TargetOf
  <2>4. RowFits(j, row, claimant[j])
    BY <1>2, <2>2, <2>3, PhaseValues, MovedFits DEF Implementing
  <2> QED BY <1>2, <2>1, <2>4, SameEvidence, SameTables, RestFits, WriteStep
<1> QED BY <1>3, <1>4

(* The failure handler leaves a row that remembers the phase of its run.   *)
LEMMA ScheduleRetryStep ==
  ASSUME IInv, NEW s \in Slots, ScheduleRetry(s)
  PROVE  IInv'
<1> DEFINE j     == proc[s].job
           phase == PhaseOfRunning[jobs[j].status]
           last  == jobs[j].attempts[phase] >= AttemptLimit
           moved == Unowned(Moved(jobs[j], "schedule_retry"))
           row   == [moved EXCEPT !.retryPhase = phase]
           dying == Stepped(s, "exhaust", TRUE)
           next  == IF last \/ At(s, "bury") THEN dying ELSE Rest
<1>1. proc[s].pc \in {"retry", "bury"} /\ proc[s].fresh
  BY DEF ScheduleRetry, Fenced
<1>2. /\ j \in Job /\ s \in Process
      /\ RowOf(s) = jobs[j]
      /\ jobs[j] \in Row
      /\ jobs[j].status \in RunningStatus
  BY <1>1, SlotFacts DEF ActsOn
<1>3. Write(s, row, next) /\ UNCHANGED <<outbox, evidence, claimant, faults>>
  BY <1>2, Zenon DEF ScheduleRetry, Stepped
<1>4. /\ phase \in Phase
      /\ phase = "implementation" => Approved(jobs[j], evidence[j])
  BY <1>2, PhaseValues, RowFacts DEF PhaseOfRunning, Phase, Implementing
<1>5. /\ moved \in Row
      /\ moved.status = "retry_wait"
      /\ moved.owner = NoWorker
      /\ moved.live = FALSE
      /\ moved.pinned = jobs[j].pinned
      /\ moved.approval = jobs[j].approval
  <2>1. /\ "schedule_retry" \in DOMAIN TargetOf
        /\ TargetOf["schedule_retry"] = "retry_wait"
    BY DEF TargetOf
  <2> QED BY <1>2, <2>1, MovedRow
<1>6. /\ row \in Row
      /\ row.status = "retry_wait"
      /\ row.retryPhase = phase
      /\ row.owner = NoWorker
      /\ row.live = FALSE
      /\ row.pinned = jobs[j].pinned
      /\ row.approval = jobs[j].approval
  <2> HIDE DEF moved, phase
  <2> QED BY <1>4, <1>5 DEF Row
<1>7. /\ dying \in ProcessState(s)
      /\ dying.job = j
      /\ dying.pc = "exhaust"
  <2>1. "exhaust" \in SlotLabel
    BY DEF SlotLabel
  <2> QED BY <1>1, <2>1, SlotState
<1> HIDE DEF row, phase, dying, last
<1>8. RowFits(j, row, claimant[j])
  <2>1. row.pinned <= Len(evidence[j].plans)
    BY <1>2, <1>6, RowFacts
  <2>2. phase = "implementation" => Approved(row, evidence[j])
    BY <1>4, <1>6 DEF Approved
  <2> QED BY <1>4, <1>6, <2>1, <2>2, PhaseValues
          DEF RowFits, RowInv, Implementing
<1>9. /\ next \in ProcessState(s)
      /\ next.fresh => next.job = j /\ ActsOn(s, next, row)
  BY <1>2, <1>6, <1>7, RestFits DEF ActsOn
<1> HIDE DEF next
<1> QED BY <1>2, <1>3, <1>8, <1>9, SameEvidence, SameTables, WriteStep

(* A claim makes the slot the owner of the row.                            *)
LEMMA ClaimStep ==
  ASSUME IInv, NEW s \in Slots, NEW j \in Job, Claim(s, j)
  PROVE  IInv'
<1> DEFINE row  == ClaimedRow(s, jobs[j])
           next == [Rest EXCEPT !.job = j,
                                !.pc = IF PhaseOf[s] \in jobs[j].session
                                       THEN "reclaimed" ELSE "claimed"]
<1>1. /\ jobs' = [jobs EXCEPT ![j] = row]
      /\ proc' = [Outdated(proc, j) EXCEPT ![s] = next]
      /\ claimant' = [claimant EXCEPT ![j] = s]
      /\ UNCHANGED <<outbox, evidence, faults>>
      /\ Claimable(s, j)
  BY DEF Claim
<1>2. /\ s \in Process /\ PhaseOf[s] \in Phase
      /\ WorkerOf[s] \in Worker /\ WorkerOf[s] # NoWorker
  BY ConstantsAssumption DEF Process, Worker
<1>3. next \in ProcessState(s) /\ ~next.fresh
  <2>1. Rest \in ProcessState(s) /\ Rest.fresh = FALSE
    BY <1>2, RestFits
  <2>2. j \in 0 .. NumJobs /\ j # 0
    BY ConstantsAssumption DEF Job
  <2> QED BY <2>1, <2>2 DEF ProcessState, LabelOf, SlotLabel
<1>4. /\ claimant \in [Job -> Slots \cup {NoSlot}]
      /\ outbox \in [Job -> [Event -> EventStatus]]
      /\ faults \in 0 .. MaxFaults
  BY DEF IInv, TypeOK
<1>5. /\ claimant'[j] = s
      /\ \A k \in Job \ {j} : claimant'[k] = claimant[k]
      /\ TablesTyped
  BY <1>1, <1>4 DEF TablesTyped
<1>6. jobs[j] \in Row
  BY RowFacts
<1>7. /\ row \in Row
      /\ row.status = Running[PhaseOf[s]]
      /\ row.owner = WorkerOf[s]
      /\ row.pinned = jobs[j].pinned
      /\ row.approval = jobs[j].approval
  <2>1. \A n \in 0 .. AttemptLimit : NextAttempt(n) \in 0 .. AttemptLimit
    BY DEF NextAttempt, AttemptLimit
  <2>2. Running[PhaseOf[s]] \in Status
    BY <1>2, PhaseValues
  <2> QED BY <1>2, <1>6, <2>1, <2>2 DEF ClaimedRow, Row
<1>8. RowFits(j, row, s)
  <2>1. row.pinned <= Len(evidence[j].plans)
    BY <1>7, RowFacts
  <2>2. row.status \in Implementing => Approved(jobs[j], evidence[j])
    BY <1>1, <1>2, <1>7, RowFacts
    DEF Claimable, Phase, Queued, Running, Implementing
  <2>3. row.status \in Implementing => Approved(row, evidence[j])
    BY <1>7, <2>2 DEF Approved
  <2>4. row.status \in RunningStatus /\ row.status # "retry_wait"
    BY <1>2, <1>7, PhaseValues
  <2> HIDE DEF row
  <2> QED BY <1>2, <1>7, <2>1, <2>3, <2>4 DEF RowFits, RowInv
<1> HIDE DEF row, next
<1>9. EvidenceGrows
  BY <1>1, SameEvidence
<1> QED BY <1>1, <1>2, <1>3, <1>5, <1>8, <1>9, RowStep

-----------------------------------------------------------------------------
(* The commands of the maintainers.                                        *)

(* A new job, a reply, a retry and a cancellation write one row.           *)
LEMMA PlanCommandStep ==
  ASSUME IInv, NEW j \in Job, PlanCommand(j)
  PROVE  IInv'
<1> DEFINE row == [NewRow EXCEPT !.status = "queued_plan"]
<1>1. /\ Command(j, row)
      /\ outbox' = [outbox EXCEPT ![j]["prepare_plan"] = "due"]
      /\ UNCHANGED <<evidence, claimant, faults>>
  BY DEF PlanCommand, Command
<1>2. /\ NewRow \in Row
      /\ NewRow.owner = NoWorker
      /\ NewRow.live = FALSE
      /\ NewRow.pinned = 0
  BY ConstantsAssumption DEF NewRow, Row, AttemptLimit
<1>3. /\ row \in Row
      /\ row.status = "queued_plan"
      /\ row.owner = NoWorker
      /\ row.live = FALSE
      /\ row.pinned = 0
  BY <1>2 DEF Row, Status
<1>4. Len(evidence[j].plans) \in Nat
  BY RowFacts DEF Evidence
<1> HIDE DEF row
<1>5. RowFits(j, row, claimant[j])
  BY <1>3, <1>4, PhaseValues DEF RowFits, RowInv, Implementing
<1>6. TablesTyped
  BY <1>1, OutboxTyped DEF Event, PrepareEvent, EventStatus
<1> QED BY <1>1, <1>5, <1>6, SameEvidence, CommandStep

(* A reply queues the plan again.                                          *)
LEMMA ReplyCommandStep ==
  ASSUME IInv, NEW j \in Job, ReplyCommand(j)
  PROVE  IInv'
<1> DEFINE moved == Unowned(Moved(jobs[j], "reply_received"))
           row   == [moved EXCEPT !.ready = @ \ {"plan"}]
           e     == [evidence[j] EXCEPT !.reply = TRUE]
<1>1. /\ Command(j, row)
      /\ outbox' = [outbox EXCEPT ![j]["prepare_reply"] = "due"]
      /\ evidence' = [evidence EXCEPT ![j] = e]
      /\ UNCHANGED <<claimant, faults>>
  BY DEF ReplyCommand, Command
<1>2. moved \in Row /\ moved.status = "queued_plan" /\ moved.owner = NoWorker
      /\ moved.live = FALSE /\ moved.pinned = jobs[j].pinned
      /\ moved.approval = jobs[j].approval
  <2>1. /\ "reply_received" \in DOMAIN TargetOf
        /\ TargetOf["reply_received"] = "queued_plan"
    BY DEF TargetOf
  <2> QED BY <2>1, RowFacts, MovedRow
<1> HIDE DEF moved
<1>3. /\ row \in Row
      /\ row.status = "queued_plan"
      /\ row.owner = NoWorker
      /\ row.live = FALSE
      /\ row.pinned = jobs[j].pinned
      /\ row.approval = jobs[j].approval
  BY <1>2 DEF Row
<1> HIDE DEF row
<1>4. RowFits(j, row, claimant[j])
  BY <1>3, PhaseValues, SettledRow DEF Implementing
<1>5. EvidenceGrows
  <2>1. e \in Evidence /\ e.plans = evidence[j].plans
    BY RowFacts DEF Evidence
  <2> QED BY <1>1, <2>1, EvidenceStep
<1>6. TablesTyped
  BY <1>1, OutboxTyped DEF Event, PrepareEvent, EventStatus
<1> QED BY <1>1, <1>4, <1>5, <1>6, CommandStep

(* A retry resumes the phase that failed, still approved if it was.        *)
LEMMA RetryCommandStep ==
  ASSUME IInv, NEW j \in Job, RetryCommand(j)
  PROVE  IInv'
<1> DEFINE trigger == ResumeTrigger[jobs[j].retryPhase]
           moved   == Moved(jobs[j], trigger)
           row     == [moved EXCEPT !.retryPhase = NoPhase]
<1>1. /\ Command(j, row)
      /\ jobs[j].status = "retry_wait"
      /\ jobs[j].retryPhase \in Phase
      /\ UNCHANGED <<outbox, evidence, claimant, faults>>
  BY DEF RetryCommand, Command
<1>2. /\ trigger \in DOMAIN TargetOf
      /\ TargetOf[trigger] \in {"queued_plan", "queued_implementation"}
      /\ TargetOf[trigger] = "queued_implementation" =>
           Approved(jobs[j], evidence[j])
  <2>1. CASE jobs[j].retryPhase = "plan"
    BY <2>1 DEF ResumeTrigger, TargetOf
  <2>2. CASE jobs[j].retryPhase = "implementation"
    BY <1>1, <2>2, RowFacts DEF ResumeTrigger, TargetOf
  <2> QED BY <1>1, <2>1, <2>2 DEF Phase
<1>3. /\ moved \in Row
      /\ moved.status = TargetOf[trigger]
      /\ moved.owner = NoWorker
      /\ moved.live = FALSE
      /\ moved.pinned = jobs[j].pinned
      /\ moved.approval = jobs[j].approval
  <2>1. jobs[j] \in Row /\ jobs[j].owner = NoWorker /\ jobs[j].live = FALSE
    BY <1>1, RowFacts, PhaseValues DEF Row
  <2> QED BY <1>2, <2>1, MovedRow
<1> HIDE DEF moved, trigger
<1>4. /\ row \in Row
      /\ row.status = TargetOf[trigger]
      /\ row.owner = NoWorker
      /\ row.live = FALSE
      /\ row.pinned = jobs[j].pinned
      /\ row.approval = jobs[j].approval
  BY <1>3 DEF Row
<1> HIDE DEF row
<1>5. RowFits(j, row, claimant[j])
  BY <1>2, <1>4, PhaseValues, SettledRow DEF Implementing
<1> QED BY <1>1, <1>5, SameEvidence, SameTables, CommandStep

(* A cancellation takes the lease away.                                    *)
LEMMA CancelCommandStep ==
  ASSUME IInv, NEW j \in Job, CancelCommand(j)
  PROVE  IInv'
<1>1. /\ Command(j, Unowned(Moved(jobs[j], "cancel")))
      /\ UNCHANGED <<outbox, evidence, claimant, faults>>
  BY DEF CancelCommand, Command
<1>2. "cancel" \in DOMAIN TargetOf /\ TargetOf["cancel"] = "cancelled"
  BY DEF TargetOf
<1>3. RowFits(j, Unowned(Moved(jobs[j], "cancel")), claimant[j])
  BY <1>2, PhaseValues, MovedFits DEF Implementing
<1> QED BY <1>1, <1>3, SameEvidence, SameTables, CommandStep

(* The state and the job of the desk while it awaits the head.             *)
LEMMA DeskFacts ==
  ASSUME IInv
  PROVE  /\ Desk \in Process
         /\ proc[Desk] \in ProcessState(Desk)
         /\ At(Desk, "implement") =>
              /\ proc[Desk].job \in Job
              /\ RowOf(Desk) = jobs[proc[Desk].job]
              /\ ActsOn(Desk, proc[Desk], jobs[proc[Desk].job])
<1>1. Desk \in Process
  BY DEF Process
<1> QED BY <1>1, ProcessFacts DEF At, RowOf

(* The desk reads a job that waits for approval, or gives it up.           *)
LEMMA DeskReadStep ==
  ASSUME IInv, (\E j \in Job : ImplementCommand(j)) \/ ImplementConflict
  PROVE  IInv'
<1>1. CASE ImplementConflict
  BY <1>1, DeskFacts, SameEvidence, SameTables, LeaveStep DEF ImplementConflict
<1>2. ASSUME NEW j \in Job, ImplementCommand(j)
      PROVE  IInv'
  <2> DEFINE next == [Rest EXCEPT !.pc = "implement", !.job = j, !.fresh = TRUE]
  <2>1. /\ proc' = [proc EXCEPT ![Desk] = next]
        /\ jobs[j].status = "waiting_approval" /\ jobs[j].pinned # 0
        /\ UNCHANGED <<jobs, outbox, evidence, claimant, faults>>
    BY <1>2 DEF ImplementCommand
  <2>2. next \in ProcessState(Desk) /\ next.pc = "implement" /\ next.job = j
    <3>0. j \in 0 .. NumJobs /\ j # 0
      BY ConstantsAssumption DEF Job
    <3>1. Rest \in ProcessState(Desk)
      BY DeskFacts, RestFits
    <3>2. LabelOf(Desk) = DeskLabel
      BY ConstantsAssumption DEF LabelOf
    <3> QED BY <3>0, <3>1, <3>2 DEF ProcessState, DeskLabel
  <2> HIDE DEF next
  <2>3. ActsOn(Desk, next, jobs[next.job])
    BY <2>1, <2>2 DEF ActsOn
  <2> QED BY <2>1, <2>2, <2>3, DeskFacts, SameEvidence, SameTables, ProcessStep
<1> QED BY <1>1, <1>2

(* The approval names the pinned plan, which is ready.                     *)
LEMMA ApproveStep ==
  ASSUME IInv, Approve
  PROVE  IInv'
<1> DEFINE j     == proc[Desk].job
           moved == Moved(jobs[j], "implementation_approved")
           row   == [moved EXCEPT !.approval = jobs[j].pinned,
                                  !.ready = @ \ {"implementation"}]
<1>1. At(Desk, "implement") /\ proc[Desk].fresh
  BY DEF Approve, Unchanged
<1>2. /\ j \in Job /\ RowOf(Desk) = jobs[j]
      /\ jobs[j].status = "waiting_approval"
      /\ jobs[j].pinned # 0
  BY <1>1, DeskFacts DEF At, ActsOn
<1>3. /\ Write(Desk, row, Rest)
      /\ evidence[j].plans[jobs[j].pinned] = "ready"
      /\ outbox' = [outbox EXCEPT ![j]["prepare_implementation"] = "due"]
      /\ UNCHANGED <<evidence, claimant, faults>>
  BY <1>2 DEF Approve
<1>4. /\ jobs[j] \in Row
      /\ jobs[j].owner = NoWorker /\ jobs[j].live = FALSE
      /\ jobs[j].pinned <= Len(evidence[j].plans)
  BY <1>2, RowFacts, PhaseValues DEF Row
<1>5. /\ moved \in Row
      /\ moved.status = "queued_implementation"
      /\ moved.owner = NoWorker /\ moved.live = FALSE
      /\ moved.pinned = jobs[j].pinned
  <2>1. /\ "implementation_approved" \in DOMAIN TargetOf
        /\ TargetOf["implementation_approved"] = "queued_implementation"
    BY DEF TargetOf
  <2> QED BY <1>4, <2>1, MovedRow
<1> HIDE DEF moved
<1>6. /\ row \in Row
      /\ row.status = "queued_implementation"
      /\ row.owner = NoWorker /\ row.live = FALSE
      /\ row.pinned = jobs[j].pinned
      /\ row.approval = jobs[j].pinned
  BY <1>4, <1>5 DEF Row
<1> HIDE DEF row
<1>7. RowFits(j, row, claimant[j])
  <2>1. Approved(row, evidence[j])
    BY <1>2, <1>3, <1>6 DEF Approved
  <2> QED BY <1>4, <1>6, <2>1, PhaseValues DEF RowFits, RowInv
<1>8. TablesTyped
  BY <1>2, <1>3, OutboxTyped DEF Event, PrepareEvent, EventStatus
<1> QED BY <1>2, <1>3, <1>7, <1>8, DeskFacts, RestFits, SameEvidence, WriteStep

(* A plan whose base moved becomes stale.                                  *)
LEMMA BaseMovedStep ==
  ASSUME IInv, BaseMoved
  PROVE  IInv'
<1> DEFINE j   == proc[Desk].job
           row == Moved(jobs[j], "mark_stale")
<1>1. At(Desk, "implement") /\ proc[Desk].fresh
  BY DEF BaseMoved, Unchanged
<1>2. /\ j \in Job /\ RowOf(Desk) = jobs[j]
      /\ jobs[j].status = "waiting_approval"
  BY <1>1, DeskFacts DEF At, ActsOn
<1>3. Write(Desk, row, Rest) /\ UNCHANGED <<outbox, evidence, claimant, faults>>
  BY <1>2 DEF BaseMoved
<1>4. "mark_stale" \in DOMAIN TargetOf /\ TargetOf["mark_stale"] = "stale"
  BY DEF TargetOf
<1>5. RowFits(j, row, claimant[j])
  BY <1>2, <1>4, PhaseValues, MovedFits DEF Implementing
<1> QED BY <1>2, <1>3, <1>5, DeskFacts, RestFits, SameEvidence, SameTables,
           WriteStep

-----------------------------------------------------------------------------
(* The dispatcher.                                                         *)

(* The state and the job of the dispatcher while it delivers.              *)
LEMMA DispatcherFacts ==
  ASSUME IInv
  PROVE  /\ Dispatcher \in Process
         /\ proc[Dispatcher] \in ProcessState(Dispatcher)
         /\ LabelOf(Dispatcher) = DispatcherLabel
         /\ proc[Dispatcher].pc # "idle" =>
              /\ proc[Dispatcher].job \in Job
              /\ RowOf(Dispatcher) = jobs[proc[Dispatcher].job]
              /\ jobs[proc[Dispatcher].job] \in Row
              /\ ActsOn(Dispatcher, proc[Dispatcher], RowOf(Dispatcher))
<1>1. /\ Dispatcher \in Process
      /\ LabelOf(Dispatcher) = DispatcherLabel
  BY ConstantsAssumption DEF Process, LabelOf
<1>2. proc[Dispatcher] \in ProcessState(Dispatcher)
  BY <1>1, ProcessFacts
<1>3. proc[Dispatcher].pc # "down"
  BY <1>1, <1>2 DEF ProcessState, DispatcherLabel
<1> QED BY <1>1, <1>2, <1>3, ProcessFacts, RowFacts DEF RowOf

(* The dispatcher takes an event up.                                       *)
LEMMA StartStep ==
  ASSUME IInv, NEW j \in Job,
         (\E e \in Event : StartPrepare(j, e)) \/ StartPublish(j)
  PROVE  IInv'
<1>0. j \in 0 .. NumJobs /\ j # 0
  BY ConstantsAssumption DEF Job
<1>1. /\ Dispatcher \in Process
      /\ Rest \in ProcessState(Dispatcher)
      /\ Rest.fresh = FALSE
      /\ LabelOf(Dispatcher) = DispatcherLabel
  BY DispatcherFacts, RestFits
<1>2. EvidenceGrows /\ TablesTyped /\ UNCHANGED <<jobs, claimant>>
  BY SameEvidence, SameTables DEF StartPrepare, StartPublish
<1>3. PrepareEvent \subseteq Event /\ "publish" \in Event /\ "publish" # NoEvent
  BY DEF Event, NoEvent
<1>4. ASSUME NEW e \in Event, StartPrepare(j, e)
      PROVE  IInv'
  <2> DEFINE next == [Rest EXCEPT !.pc = "preparing", !.job = j, !.event = e]
  <2>1. proc' = [proc EXCEPT ![Dispatcher] = next] /\ e \in PrepareEvent
    BY <1>4 DEF StartPrepare
  <2>2. next \in ProcessState(Dispatcher) /\ ~next.fresh
    BY <1>0, <1>1, <1>3, <2>1 DEF ProcessState, DispatcherLabel
  <2> HIDE DEF next
  <2>3. ActsOn(Dispatcher, next, jobs[next.job])
    BY <2>2 DEF ActsOn
  <2> QED BY <1>1, <1>2, <2>1, <2>2, <2>3, ProcessStep
<1>5. CASE StartPublish(j)
  <2> DEFINE next == [Rest EXCEPT !.pc = "verify", !.job = j, !.fresh = TRUE,
                                  !.event = "publish"]
  <2>1. /\ proc' = [proc EXCEPT ![Dispatcher] = next]
        /\ jobs[j].status \in {"ready_to_publish", "publishing"}
    BY <1>5 DEF StartPublish
  <2>2. /\ next \in ProcessState(Dispatcher)
        /\ next.pc = "verify"
        /\ next.job = j
    BY <1>0, <1>1, <1>3 DEF ProcessState, DispatcherLabel
  <2> HIDE DEF next
  <2>3. ActsOn(Dispatcher, next, jobs[next.job])
    BY <2>1, <2>2 DEF ActsOn
  <2> QED BY <1>1, <1>2, <2>1, <2>2, <2>3, ProcessStep
<1> QED BY <1>4, <1>5

(* The dispatcher reads the job again, or resumes a publication.           *)
LEMMA DispatcherReadStep ==
  ASSUME IInv, ReadPrepared \/ ResumePublish
  PROVE  IInv'
<1>1. EvidenceGrows /\ TablesTyped /\ UNCHANGED <<jobs, claimant>>
  BY SameEvidence, SameTables DEF ReadPrepared, ResumePublish
<1>2. /\ Dispatcher \in Process
      /\ proc[Dispatcher].pc # "idle"
      /\ proc[Dispatcher] \in ProcessState(Dispatcher)
      /\ RowOf(Dispatcher) = jobs[proc[Dispatcher].job]
  BY DispatcherFacts DEF ReadPrepared, ResumePublish, At
<1>3. CASE ReadPrepared
  <2> DEFINE next == Stepped(Dispatcher, "prepared", TRUE)
  <2>1. proc' = [proc EXCEPT ![Dispatcher] = next]
    BY <1>3 DEF ReadPrepared, ReadThen, Stepped
  <2>2. next \in ProcessState(Dispatcher) /\ next.pc = "prepared"
    BY <1>2, <1>3, DispatcherState DEF ReadPrepared
  <2> HIDE DEF next
  <2>3. ActsOn(Dispatcher, next, jobs[next.job])
    BY <2>2 DEF ActsOn
  <2> QED BY <1>1, <1>2, <2>1, <2>2, <2>3, ProcessStep
<1>4. CASE ResumePublish
  <2> DEFINE next == Stepped(Dispatcher, "push", proc[Dispatcher].fresh)
  <2>1. proc[Dispatcher].fresh \in BOOLEAN
    BY <1>2 DEF ProcessState
  <2>2. /\ next \in ProcessState(Dispatcher)
        /\ next.pc = "push"
        /\ next.job = proc[Dispatcher].job
    BY <1>2, <2>1, DispatcherState
  <2>3. proc' = [proc EXCEPT ![Dispatcher] = next]
    <3>1. next = [proc[Dispatcher] EXCEPT !.pc = "push"]
      BY <1>2 DEF ProcessState, Stepped
    <3> QED BY <1>4, <3>1 DEF ResumePublish
  <2> HIDE DEF next
  <2>4. ActsOn(Dispatcher, next, jobs[next.job])
    BY <1>2, <1>4, <2>2 DEF ActsOn, ResumePublish
  <2> QED BY <1>1, <1>2, <2>2, <2>3, <2>4, ProcessStep
<1> QED BY <1>3, <1>4

(* The workspace of a phase is marked ready in the row, whatever the       *)
(* status of the job.                                                      *)
LEMMA MarkReadyStep ==
  ASSUME IInv, MarkReady
  PROVE  IInv'
<1> DEFINE j    == proc[Dispatcher].job
           row  == [jobs[j] EXCEPT
                      !.ready = @ \cup {EventPhase[proc[Dispatcher].event]}]
           next == Stepped(Dispatcher, "settle", FALSE)
<1>1. proc[Dispatcher].pc = "prepared"
  BY DEF MarkReady, At
<1>2. /\ Dispatcher \in Process
      /\ j \in Job
      /\ RowOf(Dispatcher) = jobs[j]
      /\ jobs[j] \in Row
      /\ proc[Dispatcher].event \in PrepareEvent
  BY <1>1, DispatcherFacts DEF ProcessState
<1>3. Write(Dispatcher, row, next) /\ UNCHANGED <<outbox, evidence, claimant, faults>>
  BY <1>2 DEF MarkReady, Stepped
<1>4. EventPhase[proc[Dispatcher].event] \in Phase
  BY <1>2 DEF EventPhase, PrepareEvent, Phase
<1>5. /\ row \in Row
      /\ row.status = jobs[j].status
      /\ row.owner = jobs[j].owner
      /\ row.live = jobs[j].live
      /\ row.retryPhase = jobs[j].retryPhase
      /\ row.pinned = jobs[j].pinned
      /\ row.approval = jobs[j].approval
  BY <1>2, <1>4 DEF Row
<1>6. next \in ProcessState(Dispatcher) /\ ~next.fresh
  BY <1>1, DispatcherState
<1> HIDE DEF row, next
<1>7. RowFits(j, row, claimant[j])
  BY <1>2, <1>5, RowFacts, OwnedRow
<1> QED BY <1>2, <1>3, <1>6, <1>7, SameEvidence, SameTables, WriteStep

(* The dispatcher moves a job that no slot runs.                           *)
LEMMA PublicationStep ==
  ASSUME IInv, BeginPublish \/ MarkStale \/ PublishComplete
  PROVE  IInv'
<1> DEFINE j == proc[Dispatcher].job
<1>1. /\ proc[Dispatcher].pc \in {"verify", "push"}
      /\ proc[Dispatcher].fresh
      /\ UNCHANGED <<outbox, evidence, claimant, faults>>
  BY DEF BeginPublish, MarkStale, PublishComplete, At, Unchanged
<1>2. /\ Dispatcher \in Process
      /\ proc[Dispatcher] \in ProcessState(Dispatcher)
      /\ j \in Job
      /\ RowOf(Dispatcher) = jobs[j]
      /\ jobs[j].status \in {"ready_to_publish", "publishing"}
  BY <1>1, DispatcherFacts DEF ActsOn
<1>3. /\ Approved(jobs[j], evidence[j])
      /\ jobs[j].status \notin RunningStatus
  BY <1>2, RowFacts, PhaseValues DEF Implementing
<1>4. EvidenceGrows /\ TablesTyped
  BY <1>1, SameEvidence, SameTables
<1>5. CASE BeginPublish
  <2> DEFINE row  == Moved(jobs[j], "begin_publish")
             next == Stepped(Dispatcher, "push", TRUE)
  <2>1. /\ "begin_publish" \in DOMAIN TargetOf
        /\ TargetOf["begin_publish"] = "publishing"
    BY DEF TargetOf
  <2>2. /\ RowFits(j, row, claimant[j])
        /\ row.status = "publishing"
    BY <1>2, <1>3, <2>1, PhaseValues, MovedFits, MovedRow, RowFacts
  <2>3. /\ next \in ProcessState(Dispatcher)
        /\ next.pc = "push"
        /\ next.job = j
    BY <1>1, DispatcherState
  <2>4. Write(Dispatcher, row, next)
    <3>1. next = [proc[Dispatcher] EXCEPT !.pc = "push"]
      BY <1>1, <1>2 DEF ProcessState, Stepped
    <3> QED BY <1>2, <1>5, <3>1 DEF BeginPublish
  <2> HIDE DEF row, next
  <2>5. ActsOn(Dispatcher, next, row)
    BY <2>2, <2>3 DEF ActsOn
  <2> QED BY <1>1, <1>2, <1>4, <2>2, <2>3, <2>4, <2>5, WriteStep
<1> DEFINE settle == Stepped(Dispatcher, "settle", FALSE)
<1>6. settle \in ProcessState(Dispatcher) /\ ~settle.fresh
  BY <1>1, DispatcherState
<1> HIDE DEF settle
<1>7. CASE MarkStale
  <2> DEFINE row == Moved(jobs[j], "mark_stale")
  <2>1. "mark_stale" \in DOMAIN TargetOf /\ TargetOf["mark_stale"] = "stale"
    BY DEF TargetOf
  <2>2. RowFits(j, row, claimant[j])
    BY <1>2, <1>3, <2>1, PhaseValues, MovedFits DEF Implementing
  <2>3. Write(Dispatcher, row, settle)
    BY <1>2, <1>7 DEF MarkStale, settle, Stepped
  <2> QED BY <1>1, <1>2, <1>4, <1>6, <2>2, <2>3, WriteStep
<1>8. CASE PublishComplete
  <2> DEFINE row == Unowned(Moved(jobs[j], "publish_complete"))
  <2>1. /\ "publish_complete" \in DOMAIN TargetOf
        /\ TargetOf["publish_complete"] = "completed"
    BY DEF TargetOf
  <2>2. RowFits(j, row, claimant[j])
    BY <1>2, <1>3, <2>1, PhaseValues, MovedFits
  <2>3. Write(Dispatcher, row, settle)
    BY <1>2, <1>8 DEF PublishComplete, settle, Stepped
  <2> QED BY <1>1, <1>2, <1>4, <1>6, <2>2, <2>3, WriteStep
<1> QED BY <1>5, <1>7, <1>8

(* An event of the outbox is settled.                                      *)
LEMMA SettleStep ==
  ASSUME IInv,
         \/ \E j \in Job : RefusePublish(j)
         \/ CompleteEvent
         \/ \E j \in Job, e \in Event : GiveUp(j, e)
  PROVE  IInv'
<1>1. /\ UNCHANGED <<jobs, evidence, claimant>>
      /\ EvidenceGrows
  BY SameEvidence DEF RefusePublish, CompleteEvent, GiveUp
<1>2. proc' = proc => ProcessesFit
  BY <1>1 DEF IInv, TypeOK, CheckedIsCurrent, RowOf, ProcessesFit
<1>3. ASSUME NEW j \in Job, RefusePublish(j)
      PROVE  IInv'
  <2>1. PICK st \in EventStatus : outbox' = [outbox EXCEPT ![j]["publish"] = st]
    BY <1>3 DEF RefusePublish, Deliver, EventStatus
  <2>2. proc' = proc /\ UNCHANGED faults
    BY <1>3 DEF RefusePublish
  <2>3. TablesTyped
    BY <1>1, <2>1, <2>2, OutboxTyped DEF Event
  <2> QED BY <1>1, <1>2, <2>2, <2>3, QuietStep
<1>4. CASE CompleteEvent
  <2> DEFINE j == proc[Dispatcher].job
             e == proc[Dispatcher].event
  <2>1. proc[Dispatcher].pc = "settle"
    BY <1>4 DEF CompleteEvent, At
  <2>2. j \in Job /\ e \in Event /\ Dispatcher \in Process
    BY <2>1, DispatcherFacts DEF ProcessState
  <2>3. /\ outbox' = [outbox EXCEPT ![j][e] = "sent"]
        /\ Leave(Dispatcher)
        /\ UNCHANGED faults
    BY <1>4 DEF CompleteEvent, Deliver
  <2>4. TablesTyped
    BY <1>1, <2>2, <2>3, OutboxTyped DEF EventStatus
  <2> QED BY <1>1, <2>2, <2>3, <2>4, LeaveStep
<1>5. ASSUME NEW j \in Job, NEW e \in Event, GiveUp(j, e)
      PROVE  IInv'
  <2>1. /\ outbox' = [outbox EXCEPT ![j][e] = "dead"]
        /\ proc' = proc
        /\ faults < MaxFaults /\ faults' = faults + 1
    BY <1>5 DEF GiveUp, Deliver
  <2>2. outbox' \in [Job -> [Event -> EventStatus]]
    BY <2>1 DEF IInv, TypeOK, EventStatus
  <2>3. faults' \in 0 .. MaxFaults
    BY <2>1, ConstantsAssumption DEF IInv, TypeOK
  <2>4. TablesTyped
    BY <1>1, <2>2, <2>3 DEF IInv, TypeOK, TablesTyped
  <2> QED BY <1>1, <1>2, <2>1, <2>4, QuietStep
<1> QED BY <1>3, <1>4, <1>5

-----------------------------------------------------------------------------
(* Crashes, restarts and time.                                             *)

(* A stop leaves every process as it is or at rest.                        *)
LEMMA StopStep ==
  ASSUME IInv, UNCHANGED <<jobs, outbox, evidence, claimant>>,
         faults' \in 0 .. MaxFaults,
         proc' = ControlStopped \/ \E w \in Worker : proc' = Stopped(w)
  PROVE  IInv'
<1>1. \A p \in Process : proc'[p] \in {proc[p], Rest}
  BY DEF ControlStopped, Stopped
<1>2. proc' = [p \in Process |-> proc'[p]]
  BY DEF ControlStopped, Stopped
<1>3. ProcessesFit
  <2>1. \A p \in Process : /\ proc[p] \in ProcessState(p)
                           /\ ActsOn(p, proc[p], jobs[proc[p].job])
    BY DEF IInv, TypeOK, CheckedIsCurrent, RowOf
  <2> QED BY <1>1, <1>2, <2>1, RestFits DEF ProcessesFit
<1>4. TablesTyped
  BY DEF IInv, TypeOK, TablesTyped
<1> QED BY <1>3, <1>4, SameEvidence, QuietStep

(* Conflicts of the dispatcher, crashes and restarts stop a process.       *)
LEMMA CrashStep ==
  ASSUME IInv,
         \/ DispatchConflict \/ CrashControl
         \/ \E w \in Worker : CrashWorker(w) \/ RestartWorker(w)
  PROVE  IInv'
<1>1. /\ UNCHANGED <<jobs, outbox, evidence, claimant>>
      /\ proc' = ControlStopped \/ \E w \in Worker : proc' = Stopped(w)
  BY DEF DispatchConflict, CrashControl, CrashWorker, RestartWorker
<1>2. faults' = faults \/ (faults < MaxFaults /\ faults' = faults + 1)
  BY DEF DispatchConflict, CrashControl, CrashWorker, RestartWorker
<1>3. faults' \in 0 .. MaxFaults
  BY <1>2, ConstantsAssumption DEF IInv, TypeOK
<1> QED BY <1>1, <1>3, StopStep

(* A lease runs out.                                                       *)
LEMMA ExpireStep ==
  ASSUME IInv, NEW j \in Job, Expire(j)
  PROVE  IInv'
<1> DEFINE row == [jobs[j] EXCEPT !.live = FALSE]
<1>1. /\ jobs' = [jobs EXCEPT ![j] = row]
      /\ UNCHANGED <<proc, outbox, evidence, claimant>>
      /\ faults' = faults \/ (faults < MaxFaults /\ faults' = faults + 1)
  BY DEF Expire
<1>2. jobs[j] \in Row /\ jobs \in [Job -> Row]
  BY RowFacts DEF IInv, TypeOK
<1>3. /\ row \in Row
      /\ row.status = jobs[j].status
      /\ row.owner = jobs[j].owner
      /\ row.live = FALSE
      /\ row.retryPhase = jobs[j].retryPhase
      /\ row.pinned = jobs[j].pinned
      /\ row.approval = jobs[j].approval
  BY <1>2 DEF Row
<1>4. TablesTyped
  <2>1. faults' \in 0 .. MaxFaults
    BY <1>1, ConstantsAssumption DEF IInv, TypeOK
  <2> QED BY <1>1, <2>1 DEF IInv, TypeOK, TablesTyped
<1> HIDE DEF row
<1>5. RowFits(j, row, claimant[j])
  BY <1>3, OwnedRow
<1>6. \A k \in Job : jobs'[k] = IF k = j THEN row ELSE jobs[k]
  BY <1>1, <1>2
<1>7. /\ jobs' \in [Job -> Row]
      /\ \A k \in Job : RowFits(k, jobs'[k], claimant'[k])
  BY <1>1, <1>2, <1>3, <1>5, <1>6, RowsFit
<1>8. ProcessesFit
  <2>1. /\ proc = [p \in Process |-> proc[p]]
        /\ \A p \in Process : /\ proc[p] \in ProcessState(p)
                              /\ ActsOn(p, proc[p], jobs[proc[p].job])
    BY DEF IInv, TypeOK, CheckedIsCurrent, RowOf
  <2>2. ASSUME NEW p \in Process
        PROVE  ActsOn(p, proc[p], jobs'[proc[p].job])
    <3>1. CASE proc[p].fresh
      <4>1. proc[p].job \in Job
        BY <2>1, <3>1 DEF ProcessState, Job
      <4>2. /\ jobs'[proc[p].job].status = jobs[proc[p].job].status
            /\ jobs'[proc[p].job].pinned = jobs[proc[p].job].pinned
        BY <1>3, <1>6, <4>1
      <4> QED BY <2>1, <4>2 DEF ActsOn
    <3>2. CASE ~proc[p].fresh
      BY <3>2 DEF ActsOn
    <3> QED BY <3>1, <3>2
  <2> QED BY <1>1, <2>1, <2>2 DEF ProcessesFit
<1> QED BY <1>1, <1>4, <1>7, <1>8, SameEvidence, FitStep

-----------------------------------------------------------------------------
(* The invariant.                                                          *)

(* The empty table fulfils the invariant.                                  *)
LEMMA InitIInv == Init => IInv
<1> SUFFICES ASSUME Init PROVE IInv
  OBVIOUS
<1>1. /\ NewRow \in Row
      /\ NewRow.status = Absent
      /\ NewRow.owner = NoWorker
      /\ NewRow.live = FALSE
      /\ NewRow.pinned = 0
  BY ConstantsAssumption DEF NewRow, Row, AttemptLimit
<1>2. /\ NoEvidence \in Evidence
      /\ Len(NoEvidence.plans) = 0
  BY DEF NoEvidence, Evidence
<1>3. TypeOK
  <2>1. /\ proc = [p \in Process |-> proc[p]]
        /\ \A p \in Process : proc[p] \in ProcessState(p)
    BY RestFits DEF Init
  <2>2. /\ outbox \in [Job -> [Event -> EventStatus]]
        /\ claimant \in [Job -> Slots \cup {NoSlot}]
        /\ faults \in 0 .. MaxFaults
    BY ConstantsAssumption DEF Init, EventStatus
  <2>3. /\ jobs \in [Job -> Row]
        /\ evidence \in [Job -> Evidence]
        /\ \A j \in Job : /\ Len(evidence[j].plans) <= MaxPlans
                          /\ jobs[j].pinned <= Len(evidence[j].plans)
    BY <1>1, <1>2, ConstantsAssumption DEF Init
  <2> QED BY <2>1, <2>2, <2>3 DEF TypeOK
<1>4. CheckedIsCurrent
  BY RestFits DEF Init, CheckedIsCurrent
<1>5. \A j \in Job : RowInv(jobs[j], evidence[j], claimant[j])
  BY <1>1, PhaseValues DEF Init, RowInv, Implementing, Absent
<1> QED BY <1>3, <1>4, <1>5 DEF IInv

(* Every step of the specification preserves it.                           *)
LEMMA NextIInv == IInv /\ [Next]_vars => IInv'
<1> SUFFICES ASSUME IInv, [Next]_vars
             PROVE  IInv'
  OBVIOUS
<1>1. ASSUME NEW s \in Slots, SlotStep(s)
      PROVE  IInv'
  BY <1>1, ClaimStep, RejectStep, BeginStep, OpenSessionStep, SlotMoves,
     RunWriteStep, ArtifactStep, FinishPlanStep, RunOverStep,
     ScheduleRetryStep, HandlerConflictStep, Zenon
  DEF SlotStep
<1>2. CASE DispatcherStep
  BY <1>2, StartStep, DispatcherReadStep, MarkReadyStep, PublicationStep,
     SettleStep, CrashStep, Zenon
  DEF DispatcherStep
<1>3. CASE MaintainerStep
  BY <1>3, PlanCommandStep, ReplyCommandStep, RetryCommandStep,
     CancelCommandStep, DeskReadStep, ApproveStep, BaseMovedStep, Zenon
  DEF MaintainerStep
<1>4. CASE FaultStep
  BY <1>4, CrashStep, SettleStep, Zenon DEF FaultStep
<1>5. CASE \E w \in Worker : RestartWorker(w)
  BY <1>5, CrashStep
<1>6. CASE \E j \in Job : Expire(j)
  BY <1>6, ExpireStep
<1>7. CASE UNCHANGED vars
  BY <1>7 DEF vars, IInv, TypeOK, CheckedIsCurrent, RowOf
<1> QED BY <1>1, <1>2, <1>3, <1>4, <1>5, <1>6, <1>7 DEF Next

(* The invariant holds in every state that can be reached.                 *)
LEMMA Invariance == Spec => []IInv
BY InitIInv, NextIInv, PTL DEF Spec

(* Every variable of the job table keeps its type, and the plans that rows *)
(* pin exist, for any number of slots, jobs, plans and faults.             *)
THEOREM TypeCorrect == Spec => []TypeOK
<1>1. IInv => TypeOK
  BY DEF IInv
<1> QED BY <1>1, Invariance, PTL

(* A versioned write acts on the status it was decided for, however the    *)
(* slots, the commands and the dispatcher interleave.                      *)
THEOREM WritesAreCurrent == Spec => []CheckedIsCurrent
<1>1. IInv => CheckedIsCurrent
  BY DEF IInv
<1> QED BY <1>1, Invariance, PTL

(* What is implemented and published is the plan that was approved.        *)
THEOREM OnlyApprovedPlans == Spec => []ApprovedPlanOnly
<1>1. IInv => ApprovedPlanOnly
  BY DEF IInv, RowInv, ApprovedPlanOnly
<1> QED BY <1>1, Invariance, PTL

(* A waiting retry keeps its phase and its approval.                       *)
THEOREM RetriesKeepApproval == Spec => []RetryKeepsApproval
<1>1. IInv => RetryKeepsApproval
  BY DEF IInv, RowInv, RetryKeepsApproval
<1> QED BY <1>1, Invariance, PTL

(* A job has a lease exactly while it runs.                                *)
THEOREM LeasesEndWithRuns == Spec => []LeasedIffRunning
<1>1. IInv => LeasedIffRunning
  BY DEF IInv, RowInv, LeasedIffRunning
<1> QED BY <1>1, Invariance, PTL

(* The owner check of a write identifies the process of the latest claim,  *)
(* also after stalls and reclaims, and however many slots share a name.    *)
THEOREM LeasesIdentifyWorkers == Spec => []LeaseIdentifiesWorker
<1>1. IInv => LeaseIdentifiesWorker
  <2> SUFFICES ASSUME IInv, NEW s \in Slots, NEW j \in Job,
                      jobs[j].owner = WorkerOf[s]
               PROVE  claimant[j] \in Slots /\ WorkerOf[claimant[j]] = WorkerOf[s]
    BY DEF LeaseIdentifiesWorker
  <2>1. jobs[j].owner # NoWorker
    BY ConstantsAssumption DEF Worker
  <2> QED BY <2>1, RowFacts
<1> QED BY <1>1, Invariance, PTL

-----------------------------------------------------------------------------
(* The lock of a repository.                                               *)

(* A run whose slot still holds the job under its lease has a live lease.  *)
AttendedIsLive ==
  \A s \in Slots, j \in Job :
    proc[s].job = j /\ jobs[j].owner = WorkerOf[s] => jobs[j].live

(* A step that gives no lease: a row loses its owner or keeps its lease,   *)
(* and no slot comes to hold a job.                                        *)
NoNewLease ==
  /\ \A j \in Job :
       \/ jobs'[j].owner = NoWorker
       \/ /\ jobs'[j].status = jobs[j].status
          /\ jobs'[j].owner = jobs[j].owner
          /\ jobs'[j].live = jobs[j].live
  /\ \A s \in Slots : proc'[s].job \in {proc[s].job, 0}

(* Such a step cannot start a second implementation.                       *)
LEMMA NoNewLeaseStep ==
  ASSUME IInv', ~stalled, AttendedIsLive, OneImplementationPerRepo, NoNewLease
  PROVE  AttendedIsLive' /\ OneImplementationPerRepo'
<1>1. \A j \in Job : jobs'[j].live => jobs'[j].owner # NoWorker
  BY DEF IInv, RowInv
<1>2. \A s \in Slots : WorkerOf[s] # NoWorker
  BY ConstantsAssumption DEF Worker
<1>3. 0 \notin Job
  BY DEF Job
<1>4. AttendedIsLive'
  BY <1>2, <1>3 DEF AttendedIsLive, NoNewLease
<1>5. \A j \in Job : jobs'[j].live =>
        /\ jobs'[j].status = jobs[j].status
        /\ jobs[j].live
  BY <1>1 DEF NoNewLease
<1>6. OneImplementationPerRepo'
  BY <1>5 DEF OneImplementationPerRepo
<1> QED BY <1>4, <1>6

(* One process writes its row, and the new row is as a quiet step wants.   *)
LEMMA QuietWrite ==
  ASSUME IInv, NEW p \in Process, proc[p].job \in Job, NEW row, NEW next,
         Write(p, row, next), p \in Slots => next.job \in {proc[p].job, 0},
         \/ row.owner = NoWorker
         \/ /\ row.status = RowOf(p).status
            /\ row.owner = RowOf(p).owner
            /\ row.live = RowOf(p).live
  PROVE  NoNewLease
<1> DEFINE j == proc[p].job
<1>1. \A k \in Job : jobs'[k] = IF k = j THEN row ELSE jobs[k]
  BY DEF IInv, TypeOK, Write
<1>2. \A q \in Process : proc'[q] = IF q = p THEN next ELSE Outdated(proc, j)[q]
  BY DEF Write, Outdated
<1>3. ASSUME NEW s \in Slots
      PROVE  proc'[s].job \in {proc[s].job, 0}
  <2>1. s \in Process
    BY DEF Process
  <2>2. proc[s] \in ProcessState(s)
    BY <2>1, ProcessFacts
  <2>3. Outdated(proc, j)[s].job = proc[s].job
    BY <2>1, <2>2 DEF Outdated, ProcessState
  <2> QED BY <1>2, <2>1, <2>3
<1> QED BY <1>1, <1>3 DEF NoNewLease, RowOf

(* One slot moves while the rows stay as they are.                         *)
LEMMA QuietMove ==
  ASSUME IInv, UNCHANGED jobs, NEW s \in Slots, NEW next \in ProcessState(s),
         next.job \in {proc[s].job, 0}, proc' = [proc EXCEPT ![s] = next]
  PROVE  NoNewLease
<1>1. \A q \in Process : proc'[q] = IF q = s THEN next ELSE proc[q]
  BY DEF IInv, TypeOK
<1> QED BY <1>1 DEF NoNewLease, Process

(* A slot leaves its job, or goes on with it.                              *)
LEMMA QuietGoto ==
  ASSUME IInv, UNCHANGED jobs, NEW s \in Slots,
         proc[s].pc \notin {"idle", "down"}, NEW label \in SlotLabel,
         Leave(s) \/ Goto(s, label) \/ ReadThen(s, label)
  PROVE  NoNewLease
<1>1. CASE Leave(s)
  <2>1. Rest.job = 0 /\ Rest \in ProcessState(s)
    BY RestFits DEF Rest, Process
  <2> QED BY <1>1, <2>1, QuietMove DEF Leave
<1>2. CASE Goto(s, label) \/ ReadThen(s, label)
  <2>1. PICK version \in BOOLEAN :
          proc' = [proc EXCEPT ![s] = Stepped(s, label, version)]
    BY <1>2 DEF Goto, ReadThen, Stepped
  <2> QED BY <2>1, SlotState, QuietMove
<1> QED BY <1>1, <1>2

(* A slot writes the row of its job and leaves it, or goes on with it.     *)
LEMMA QuietSlotWrite ==
  ASSUME IInv, NEW s \in Slots, proc[s].pc \notin {"idle", "down"}, NEW row,
         NEW label, NEW version, NEW next \in {Rest, Stepped(s, label, version)},
         Write(s, row, next),
         \/ row.owner = NoWorker
         \/ /\ row.status = RowOf(s).status
            /\ row.owner = RowOf(s).owner
            /\ row.live = RowOf(s).live
  PROVE  NoNewLease
<1>1. s \in Process /\ proc[s].job \in Job
  BY SlotFacts
<1>2. Rest.job = 0 /\ Stepped(s, label, version).job = proc[s].job
  BY <1>1, ProcessFacts DEF ProcessState, Stepped, Rest
<1> QED BY <1>1, <1>2, QuietWrite

(* The steps of a slot after its claim give no lease.  A heartbeat finds   *)
(* the lease it renews still live.                                         *)
LEMMA SlotNoNewLease ==
  ASSUME IInv, AttendedIsLive, NEW s \in Slots, SlotStep(s),
         ~ \E j \in Job : Claim(s, j)
  PROVE  NoNewLease
<1>1. ASSUME UNCHANGED jobs, proc[s].pc \notin {"idle", "down"},
             ReadToFinish(s)
      PROVE  NoNewLease
  BY <1>1, QuietGoto DEF ReadToFinish, SlotLabel
<1>8. CASE Reject(s) \/ Begin(s)
  BY <1>1, <1>8, QuietGoto DEF SlotLabel, Reject, Begin
<1>9. CASE Abandon(s) \/ Poll(s) \/ ViolatePolicy(s) \/ PolicyConflict(s)
  BY <1>9, QuietGoto DEF At, SlotLabel, Abandon, Poll, ViolatePolicy, PolicyConflict
<1>10. CASE EndRun(s) \/ Conclude(s) \/ RunConflict(s) \/ HandleFailure(s)
  BY <1>1, <1>10, QuietGoto DEF At, SlotLabel, EndRun, Conclude, RunConflict, HandleFailure
<1>11. CASE HandlerConflict(s)
  <2> DEFINE next == [Rest EXCEPT !.pc = "down"]
  <2>1. next.job = 0 /\ next \in ProcessState(s)
    <3>1. Rest \in ProcessState(s) /\ Rest.fresh = FALSE /\ Rest.job = 0
      BY RestFits DEF Process, Rest
    <3> QED BY <3>1 DEF ProcessState, LabelOf, SlotLabel
  <2>2. proc' = [proc EXCEPT ![s] = next] /\ UNCHANGED jobs
    BY <1>11 DEF HandlerConflict
  <2> HIDE DEF next
  <2> QED BY <2>1, <2>2, QuietMove
<1>12. CASE \/ \E kind \in PlanStatus : SubmitPlan(s, kind)
            \/ SubmitDraft(s) \/ CompleteSession(s)
  BY <1>12 DEF SubmitPlan, SubmitDraft, CompleteSession, NoNewLease
<1>16. CASE OpenSession(s) \/ Heartbeat(s) \/ RecordProgress(s)
  <2> DEFINE next == Stepped(s, "running", FALSE)
  <2>1. /\ proc[s].pc \notin {"idle", "down"}
        /\ Fenced(s)
    BY <1>16 DEF OpenSession, Heartbeat, RecordProgress, At
  <2>2. RowOf(s) \in Row /\ RowOf(s).live
    BY <2>1, SlotFacts DEF Fenced, AttendedIsLive
  <2>3. \E row : /\ Write(s, row, next)
                 /\ row.status = RowOf(s).status
                 /\ row.owner = RowOf(s).owner
                 /\ row.live = RowOf(s).live
    <3>1. CASE OpenSession(s)
      <4> DEFINE row == [RowOf(s) EXCEPT !.session = @ \cup {PhaseOf[s]}]
      <4>1. /\ row.status = RowOf(s).status
            /\ row.owner = RowOf(s).owner
            /\ row.live = RowOf(s).live
        BY <2>2 DEF Row
      <4>2. Write(s, row, next)
        BY <3>1 DEF OpenSession, Stepped
      <4> QED BY <4>1, <4>2
    <3>2. CASE Heartbeat(s)
      <4> DEFINE row == [RowOf(s) EXCEPT !.live = TRUE]
      <4>1. /\ row.status = RowOf(s).status
            /\ row.owner = RowOf(s).owner
            /\ row.live = RowOf(s).live
        BY <2>2 DEF Row
      <4>2. Write(s, row, next)
        BY <3>2 DEF Heartbeat, Stepped
      <4> QED BY <4>1, <4>2
    <3>3. CASE RecordProgress(s)
      BY <3>3 DEF RecordProgress, Stepped
    <3> QED BY <1>16, <3>1, <3>2, <3>3
  <2> HIDE DEF next
  <2>4. next = Stepped(s, "running", FALSE)
    BY DEF next
  <2>5. PICK row : /\ Write(s, row, next)
                   /\ row.status = RowOf(s).status
                   /\ row.owner = RowOf(s).owner
                   /\ row.live = RowOf(s).live
    BY <2>3
  <2> QED BY QuietSlotWrite, <2>1, <2>4, <2>5
<1>17. \A trigger \in DOMAIN TargetOf :
         /\ RowOf(s) \in Row => Unowned(Moved(RowOf(s), trigger)) \in Row
         /\ RowOf(s) \in Row => Unowned(Moved(RowOf(s), trigger)).owner = NoWorker
  BY MovedRow
<1>18. {"cancel", "implementation_ready", "plan_ready", "plan_blocked",
        "schedule_retry", "exhaust_retries"} \subseteq DOMAIN TargetOf
  BY DEF TargetOf
<1>19. CASE TerminateForPolicy(s)
  <2>1. proc[s].pc \notin {"idle", "down"}
    BY <1>19 DEF TerminateForPolicy, At
  <2> DEFINE row  == Unowned(Moved(RowOf(s), "cancel"))
             next == Stepped(s, "running", FALSE)
  <2>2. Write(s, row, next)
    BY <1>19 DEF TerminateForPolicy, Stepped
  <2>3. row.owner = NoWorker
    BY <1>17, <1>18, <2>1, SlotFacts
  <2> HIDE DEF row
  <2> QED BY QuietSlotWrite, <2>1, <2>2, <2>3
<1>20. CASE FinishImplementation(s)
  <2>1. proc[s].pc \notin {"idle", "down"}
    BY <1>20 DEF FinishImplementation, At
  <2> DEFINE row  == Unowned(Moved(RowOf(s), "implementation_ready"))
             next == Rest
  <2>2. Write(s, row, next)
    BY <1>20 DEF FinishImplementation
  <2>3. row.owner = NoWorker
    BY <1>17, <1>18, <2>1, SlotFacts
  <2> HIDE DEF row
  <2> QED BY QuietSlotWrite, <2>1, <2>2, <2>3
<1>21. CASE FinishPlan(s)
  <2>1. proc[s].pc \notin {"idle", "down"}
    BY <1>21 DEF FinishPlan, At
  <2>2. PICK trigger \in {"plan_ready", "plan_blocked"},
             n \in {Len(evidence[proc[s].job].plans)} :
          Write(s, [Unowned(Moved(RowOf(s), trigger)) EXCEPT !.pinned = n], Rest)
    BY <1>21 DEF FinishPlan
  <2> DEFINE old == Unowned(Moved(RowOf(s), trigger))
             row == [old EXCEPT !.pinned = n]
  <2>3. old \in Row /\ old.owner = NoWorker
    BY <1>17, <1>18, <2>1, SlotFacts
  <2> HIDE DEF old
  <2>4. row.owner = NoWorker
    BY <2>3 DEF Row
  <2>5. Write(s, row, Rest)
    BY <2>2 DEF old
  <2> HIDE DEF row
  <2> QED BY QuietSlotWrite, <2>1, <2>4, <2>5
<1>22. CASE ScheduleRetry(s)
  <2>1. proc[s].pc \notin {"idle", "down"}
    BY <1>22 DEF ScheduleRetry
  <2>2. PICK phase : \E next \in {Rest, Stepped(s, "exhaust", TRUE)} :
          Write(s, [Unowned(Moved(RowOf(s), "schedule_retry"))
                      EXCEPT !.retryPhase = phase], next)
    BY <1>22 DEF ScheduleRetry, Stepped
  <2> DEFINE old == Unowned(Moved(RowOf(s), "schedule_retry"))
             row == [old EXCEPT !.retryPhase = phase]
  <2>3. old \in Row /\ old.owner = NoWorker
    BY <1>17, <1>18, <2>1, SlotFacts
  <2> HIDE DEF old
  <2>4. row.owner = NoWorker
    BY <2>3 DEF Row
  <2>5. PICK next \in {Rest, Stepped(s, "exhaust", TRUE)} : Write(s, row, next)
    BY <2>2 DEF old
  <2> HIDE DEF row
  <2> QED BY QuietSlotWrite, <2>1, <2>4, <2>5
<1>23. CASE ExhaustRetries(s)
  <2>1. proc[s].pc \notin {"idle", "down"} /\ At(s, "exhaust") /\ proc[s].fresh
    BY <1>23 DEF ExhaustRetries, At, Unchanged
  <2>2. RowOf(s) \in Row /\ RowOf(s).status = "retry_wait"
    BY <2>1, SlotFacts DEF ActsOn, At
  <2>3. RowOf(s).owner = NoWorker
    BY <2>1, <2>2, SlotFacts, RowFacts, PhaseValues
  <2>4. Moved(RowOf(s), "exhaust_retries").owner = NoWorker
    BY <1>18, <2>2, <2>3, MovedRow
  <2>5. Write(s, Moved(RowOf(s), "exhaust_retries"), Rest)
    BY <1>23 DEF ExhaustRetries
  <2> QED BY QuietSlotWrite, <2>1, <2>4, <2>5
<1> QED BY <1>8, <1>9, <1>10, <1>11, <1>12, <1>16, <1>19, <1>20, <1>21, <1>22,
           <1>23 DEF SlotStep

(* A command leaves its row without an owner.                              *)
LEMMA QuietCommand ==
  ASSUME IInv, NEW j \in Job, NEW row, Command(j, row), row.owner = NoWorker
  PROVE  NoNewLease
<1>1. \A k \in Job : jobs'[k] = IF k = j THEN row ELSE jobs[k]
  BY DEF IInv, TypeOK, Command
<1>2. ASSUME NEW s \in Slots
      PROVE  proc'[s].job \in {proc[s].job, 0}
  <2>1. s \in Process /\ proc[s] \in ProcessState(s)
    BY ProcessFacts DEF Process
  <2>2. Outdated(proc, j)[s].job = proc[s].job
    BY <2>1 DEF Outdated, ProcessState
  <2> QED BY <2>2 DEF Command
<1> QED BY <1>1, <1>2 DEF NoNewLease

(* The commands of the maintainers give no lease.                          *)
LEMMA MaintainerNoNewLease ==
  ASSUME IInv, MaintainerStep
  PROVE  NoNewLease
<1>1. \A j \in Job : /\ jobs[j] \in Row
                     /\ jobs[j].status \notin RunningStatus =>
                          jobs[j].owner = NoWorker
  BY RowFacts
<1>2. {"reply_received", "cancel", "implementation_approved", "mark_stale",
       "resume_plan", "resume_implementation"} \subseteq DOMAIN TargetOf
  BY DEF TargetOf
<1>3. Desk \in Process /\ Desk \notin Slots
  BY ConstantsAssumption DEF Process
<1>4. ASSUME NEW j \in Job, PlanCommand(j)
      PROVE  NoNewLease
  <2> DEFINE row == [NewRow EXCEPT !.status = "queued_plan"]
  <2>1. Command(j, row) /\ row.owner = NoWorker
    BY <1>4 DEF PlanCommand, NewRow
  <2> HIDE DEF row
  <2> QED BY <2>1, QuietCommand
<1>5. ASSUME NEW j \in Job, ReplyCommand(j)
      PROVE  NoNewLease
  <2> DEFINE old == Unowned(Moved(jobs[j], "reply_received"))
             row == [old EXCEPT !.ready = @ \ {"plan"}]
  <2>1. old \in Row /\ old.owner = NoWorker
    BY <1>1, <1>2, MovedRow
  <2>2. Command(j, row)
    BY <1>5 DEF ReplyCommand
  <2> HIDE DEF old
  <2>3. row.owner = NoWorker
    BY <2>1 DEF Row
  <2> HIDE DEF row
  <2> QED BY <2>2, <2>3, QuietCommand
<1>6. ASSUME NEW j \in Job, RetryCommand(j)
      PROVE  NoNewLease
  <2> DEFINE trigger == ResumeTrigger[jobs[j].retryPhase]
             old     == Moved(jobs[j], trigger)
             row     == [old EXCEPT !.retryPhase = NoPhase]
  <2>1. trigger \in DOMAIN TargetOf
    BY <1>2, <1>6 DEF RetryCommand, Phase, ResumeTrigger
  <2>2. jobs[j].owner = NoWorker
    BY <1>1, <1>6, PhaseValues DEF RetryCommand
  <2>3. Command(j, row)
    BY <1>6 DEF RetryCommand
  <2> HIDE DEF trigger
  <2>4. old \in Row /\ old.owner = NoWorker
    BY <1>1, <2>1, <2>2, MovedRow
  <2> HIDE DEF old
  <2>5. row.owner = NoWorker
    BY <2>4 DEF Row
  <2> HIDE DEF row
  <2> QED BY <2>3, <2>5, QuietCommand
<1>7. ASSUME NEW j \in Job, CancelCommand(j)
      PROVE  NoNewLease
  <2> DEFINE row == Unowned(Moved(jobs[j], "cancel"))
  <2>1. Command(j, row) /\ row.owner = NoWorker
    BY <1>1, <1>2, <1>7, MovedRow DEF CancelCommand
  <2> HIDE DEF row
  <2> QED BY <2>1, QuietCommand
<1>8. ASSUME (\E j \in Job : ImplementCommand(j)) \/ ImplementConflict
      PROVE  NoNewLease
  <2>1. jobs' = jobs /\ \E st : proc' = [proc EXCEPT ![Desk] = st]
    BY <1>8 DEF ImplementCommand, ImplementConflict, Leave
  <2>2. \A s \in Slots : proc'[s] = proc[s]
    BY <1>3, <2>1
  <2> QED BY <2>1, <2>2 DEF NoNewLease
<1>9. CASE Approve
  <2> DEFINE old == Moved(RowOf(Desk), "implementation_approved")
             row == [old EXCEPT !.approval = RowOf(Desk).pinned,
                                !.ready = @ \ {"implementation"}]
  <2>1. At(Desk, "implement") /\ proc[Desk].fresh
    BY <1>9 DEF Approve, Unchanged
  <2>2. /\ proc[Desk].job \in Job
        /\ RowOf(Desk) \in Row
        /\ RowOf(Desk).owner = NoWorker
    BY <1>1, <2>1, DeskFacts, PhaseValues DEF ActsOn, At
  <2>3. Write(Desk, row, Rest)
    BY <1>9 DEF Approve
  <2>4. old \in Row /\ old.owner = NoWorker
    BY <1>2, <2>2, MovedRow
  <2> HIDE DEF old
  <2>5. row.owner = NoWorker
    BY <2>4 DEF Row
  <2> HIDE DEF row
  <2> QED BY <1>3, <2>2, <2>3, <2>5, QuietWrite
<1>10. CASE BaseMoved
  <2> DEFINE row == Moved(RowOf(Desk), "mark_stale")
  <2>1. At(Desk, "implement") /\ proc[Desk].fresh
    BY <1>10 DEF BaseMoved, Unchanged
  <2>2. /\ proc[Desk].job \in Job
        /\ RowOf(Desk) \in Row
        /\ RowOf(Desk).owner = NoWorker
    BY <1>1, <2>1, DeskFacts, PhaseValues DEF ActsOn, At
  <2>3. Write(Desk, row, Rest)
    BY <1>10 DEF BaseMoved
  <2>4. row.owner = NoWorker
    BY <1>2, <2>2, MovedRow
  <2> HIDE DEF row
  <2> QED BY <1>3, <2>2, <2>3, <2>4, QuietWrite
<1> QED BY <1>4, <1>5, <1>6, <1>7, <1>8, <1>9, <1>10 DEF MaintainerStep

(* Neither does the dispatcher: the jobs it publishes are not leased.      *)
LEMMA DispatcherNoNewLease ==
  ASSUME IInv, DispatcherStep
  PROVE  NoNewLease
<1>1. Dispatcher \in Process /\ Dispatcher \notin Slots
  BY ConstantsAssumption DEF Process
<1>2. ASSUME jobs' = jobs, \A s \in Slots : proc'[s] = proc[s]
      PROVE  NoNewLease
  BY <1>2 DEF NoNewLease
<1>3. CASE DispatchConflict
  BY <1>2, <1>3 DEF DispatchConflict, ControlStopped, Process
<1>4. ASSUME \/ \E j \in Job, e \in Event : StartPrepare(j, e)
             \/ \E j \in Job : StartPublish(j)
             \/ ReadPrepared \/ CompleteEvent
      PROVE  NoNewLease
  <2>1. jobs' = jobs /\ \E st : proc' = [proc EXCEPT ![Dispatcher] = st]
    BY <1>4 DEF StartPrepare, StartPublish, ReadPrepared, CompleteEvent,
                ReadThen, Leave
  <2> QED BY <1>1, <1>2, <2>1
<1>5. CASE ResumePublish
  <2>1. \A s \in Slots : proc'[s] = proc[s]
    BY <1>1, <1>5 DEF ResumePublish
  <2> QED BY <1>2, <1>5, <2>1 DEF ResumePublish
<1>6. ASSUME NEW j \in Job, RefusePublish(j)
      PROVE  NoNewLease
  BY <1>2, <1>6 DEF RefusePublish
<1>7. CASE MarkReady
  <2> DEFINE row  == [RowOf(Dispatcher) EXCEPT
                        !.ready = @ \cup {EventPhase[proc[Dispatcher].event]}]
             next == [proc[Dispatcher] EXCEPT !.pc = "settle", !.fresh = FALSE]
  <2>1. proc[Dispatcher].pc # "idle" /\ Write(Dispatcher, row, next)
    BY <1>7 DEF MarkReady, At
  <2>2. RowOf(Dispatcher) \in Row
    BY <2>1, DispatcherFacts
  <2>3. /\ row.status = RowOf(Dispatcher).status
        /\ row.owner = RowOf(Dispatcher).owner
        /\ row.live = RowOf(Dispatcher).live
    BY <2>2 DEF Row
  <2> HIDE DEF row, next
  <2> QED BY <1>1, <2>1, <2>3, DispatcherFacts, QuietWrite
<1>8. ASSUME BeginPublish \/ MarkStale \/ PublishComplete
      PROVE  NoNewLease
  <2>1. /\ proc[Dispatcher].pc \in {"verify", "push"}
        /\ proc[Dispatcher].fresh
    BY <1>8 DEF BeginPublish, MarkStale, PublishComplete, At, Unchanged
  <2>2. /\ RowOf(Dispatcher) \in Row
        /\ RowOf(Dispatcher).owner = NoWorker
    BY <2>1, DispatcherFacts, RowFacts, PhaseValues DEF ActsOn
  <2>3. {"begin_publish", "mark_stale", "publish_complete"} \subseteq
          DOMAIN TargetOf
    BY DEF TargetOf
  <2>4. PICK trigger \in {"begin_publish", "mark_stale", "publish_complete"} :
          \E next : \/ Write(Dispatcher, Moved(RowOf(Dispatcher), trigger), next)
                   \/ Write(Dispatcher,
                            Unowned(Moved(RowOf(Dispatcher), trigger)), next)
    BY <1>8 DEF BeginPublish, MarkStale, PublishComplete
  <2> DEFINE row == Moved(RowOf(Dispatcher), trigger)
  <2>5. row.owner = NoWorker /\ Unowned(row).owner = NoWorker
    BY <2>2, <2>3, MovedRow
  <2>6. PICK next : \/ Write(Dispatcher, row, next)
                    \/ Write(Dispatcher, Unowned(row), next)
    BY <2>4
  <2> HIDE DEF row
  <2> QED BY <1>1, <2>1, <2>5, <2>6, DispatcherFacts, QuietWrite
<1> QED BY <1>3, <1>4, <1>5, <1>6, <1>7, <1>8 DEF DispatcherStep

(* Crashes, restarts and given-up events give no lease.                    *)
LEMMA StopNoNewLease ==
  ASSUME IInv, FaultStep \/ \E w \in Worker : RestartWorker(w)
  PROVE  NoNewLease
<1>1. Rest.job = 0
  BY DEF Rest
<1>2. /\ jobs' = jobs
      /\ \A s \in Slots : proc'[s] \in {proc[s], Rest}
  BY DEF FaultStep, RestartWorker, CrashWorker, CrashControl, GiveUp, Stopped,
         ControlStopped, Process
<1> QED BY <1>1, <1>2 DEF NoNewLease

(* A claim gives a live lease, and none of the repository was live before. *)
LEMMA ClaimLeases ==
  ASSUME IInv, ~stalled, AttendedIsLive, OneImplementationPerRepo,
         NEW s \in Slots, NEW j \in Job, Claim(s, j)
  PROVE  AttendedIsLive' /\ OneImplementationPerRepo'
<1> DEFINE row == ClaimedRow(s, jobs[j])
<1>1. /\ jobs' = [jobs EXCEPT ![j] = row]
      /\ Claimable(s, j)
      /\ PhaseOf[s] \in Phase
  BY ConstantsAssumption DEF Claim
<1>2. /\ row.live = TRUE
      /\ row.status = Running[PhaseOf[s]]
  <2>1. jobs[j] \in Row
    BY RowFacts
  <2> QED BY <2>1 DEF ClaimedRow, Row
<1> HIDE DEF row
<1>3. \A k \in Job : jobs'[k] = IF k = j THEN row ELSE jobs[k]
  BY <1>1 DEF IInv, TypeOK
<1>4. AttendedIsLive'
  <2>1. ASSUME NEW t \in Slots, t # s
        PROVE  proc'[t].job = proc[t].job
    <3>1. t \in Process /\ proc[t] \in ProcessState(t)
      BY ProcessFacts DEF Process
    <3>2. proc'[t] = Outdated(proc, j)[t]
      BY <2>1, <3>1 DEF Claim, Outdated
    <3> QED BY <3>1, <3>2 DEF Outdated, ProcessState
  <2>2. proc'[s].job = j
    BY DEF Claim, Rest, Outdated, Process
  <2> QED BY <1>2, <1>3, <2>1, <2>2 DEF AttendedIsLive
<1>5. OneImplementationPerRepo'
  <2>1. row.status = "running_implementation" => RepositoryFree(j)
    BY <1>1, <1>2, PhaseValues DEF Claimable, Phase
  <2> QED BY <1>3, <2>1 DEF OneImplementationPerRepo, RepositoryFree
<1> QED BY <1>4, <1>5

(* A lease that runs out gives none.  It runs out under a slot that still  *)
(* holds the job only when a process stalls.                               *)
LEMMA ExpireLeases ==
  ASSUME IInv, ~stalled, AttendedIsLive, OneImplementationPerRepo,
         NEW j \in Job, Expire(j)
  PROVE  stalled' \/ (AttendedIsLive' /\ OneImplementationPerRepo')
<1>1. CASE \E s \in Slots : proc[s].job = j /\ WorkerOf[s] = jobs[j].owner
  BY <1>1 DEF Expire
<1>2. CASE ~ \E s \in Slots : proc[s].job = j /\ WorkerOf[s] = jobs[j].owner
  <2>1. jobs' = [jobs EXCEPT ![j].live = FALSE] /\ proc' = proc
    BY DEF Expire
  <2>2. \A k \in Job : /\ jobs'[k].status = jobs[k].status
                       /\ jobs'[k].owner = jobs[k].owner
                       /\ jobs'[k].live => jobs[k].live
                       /\ k # j => jobs'[k].live = jobs[k].live
    BY <2>1 DEF IInv, TypeOK, Row
  <2> QED BY <1>2, <2>1, <2>2 DEF AttendedIsLive, OneImplementationPerRepo
<1> QED BY <1>1, <1>2

(* A process that stalled once has stalled.                                *)
LEMMA StallsStay ==
  ASSUME [Next]_vars, stalled
  PROVE  stalled'
<1>1. ASSUME NEW s \in Slots, SlotStep(s)
      PROVE  stalled' = stalled
  <2>1. CASE (\E j \in Job : Claim(s, j)) \/ Reject(s) \/ Begin(s) \/ OpenSession(s)
    BY <2>1 DEF Claim, Reject, Begin, OpenSession
  <2>2. CASE Abandon(s) \/ Poll(s) \/ Heartbeat(s) \/ RecordProgress(s)
    BY <2>2 DEF Abandon, Poll, Heartbeat, RecordProgress
  <2>3. CASE \/ \E kind \in PlanStatus : SubmitPlan(s, kind)
             \/ SubmitDraft(s) \/ CompleteSession(s)
    BY <2>3 DEF SubmitPlan, SubmitDraft, CompleteSession
  <2>4. CASE ViolatePolicy(s) \/ TerminateForPolicy(s) \/ PolicyConflict(s) \/ EndRun(s)
    BY <2>4 DEF ViolatePolicy, TerminateForPolicy, PolicyConflict, EndRun
  <2>5. CASE Conclude(s) \/ FinishPlan(s) \/ FinishImplementation(s) \/ RunConflict(s)
    BY <2>5 DEF Conclude, FinishPlan, FinishImplementation, RunConflict
  <2>6. CASE HandleFailure(s) \/ ScheduleRetry(s) \/ ExhaustRetries(s) \/ HandlerConflict(s)
    BY <2>6 DEF HandleFailure, ScheduleRetry, ExhaustRetries, HandlerConflict
  <2> QED BY <1>1, <2>1, <2>2, <2>3, <2>4, <2>5, <2>6 DEF SlotStep
<1>2. CASE DispatcherStep
  <2>1. CASE \/ \E j \in Job, e \in Event : StartPrepare(j, e)
             \/ \E j \in Job : StartPublish(j) \/ RefusePublish(j)
    BY <2>1 DEF StartPrepare, StartPublish, RefusePublish
  <2>2. CASE \/ ReadPrepared \/ MarkReady \/ BeginPublish \/ ResumePublish \/ MarkStale
             \/ PublishComplete \/ CompleteEvent \/ DispatchConflict
    BY <2>2 DEF ReadPrepared, MarkReady, BeginPublish, ResumePublish, MarkStale,
                PublishComplete, CompleteEvent, DispatchConflict
  <2> QED BY <1>2, <2>1, <2>2 DEF DispatcherStep
<1>3. CASE MaintainerStep
  BY <1>3 DEF MaintainerStep, PlanCommand, ReplyCommand, RetryCommand, CancelCommand,
              Command, ImplementCommand, Approve, BaseMoved, ImplementConflict
<1>4. CASE FaultStep \/ \E w \in Worker : RestartWorker(w)
  BY <1>4 DEF FaultStep, RestartWorker, CrashWorker, CrashControl, GiveUp
<1>5. CASE \E j \in Job : Expire(j)
  BY <1>5 DEF Expire
<1>6. CASE UNCHANGED vars
  BY <1>6 DEF vars
<1> QED BY <1>1, <1>2, <1>3, <1>4, <1>5, <1>6 DEF Next

(* Until a process stalls for longer than a lease, two jobs of a           *)
(* repository are never implemented at the same time under live leases:    *)
(* through crashes, reclaims, retries and cancellations, for any number of *)
(* slots and jobs, and whether slots share a worker_id or not.  After a    *)
(* stall a heartbeat revives a lease that ran out, and the claim ends.     *)
THEOREM RepositoryIsLocked == Spec => []OneImplementationPerRepo
<1> DEFINE Locked == AttendedIsLive /\ OneImplementationPerRepo
           Inv == IInv /\ (stalled \/ Locked)
<1>1. Init => Inv
  <2> SUFFICES ASSUME Init PROVE Locked
    BY InitIInv
  <2>1. \A j \in Job : jobs[j].owner = NoWorker /\ jobs[j].live = FALSE
    BY DEF Init, NewRow
  <2>2. \A s \in Slots : WorkerOf[s] # NoWorker
    BY ConstantsAssumption DEF Worker
  <2> QED BY <2>1, <2>2 DEF AttendedIsLive, OneImplementationPerRepo
<1>2. Inv /\ [Next]_vars => Inv'
  <2> SUFFICES ASSUME Inv, [Next]_vars
               PROVE  Inv'
    OBVIOUS
  <2>1. IInv'
    BY NextIInv
  <2>2. CASE stalled
    BY <2>1, <2>2, StallsStay
  <2>3. CASE ~stalled
    <3>1. Locked
      BY <2>3
    <3>2. NoNewLease => Inv'
      BY <2>1, <2>3, <3>1, NoNewLeaseStep
    <3>3. CASE \E s \in Slots, j \in Job : Claim(s, j)
      BY <2>1, <2>3, <3>1, <3>3, ClaimLeases
    <3>4. CASE \E s \in Slots : SlotStep(s)
      BY <3>1, <3>2, <3>3, <3>4, SlotNoNewLease
    <3>5. CASE DispatcherStep
      BY <3>2, <3>5, DispatcherNoNewLease
    <3>6. CASE MaintainerStep
      BY <3>2, <3>6, MaintainerNoNewLease
    <3>7. CASE FaultStep \/ \E w \in Worker : RestartWorker(w)
      BY <3>2, <3>7, StopNoNewLease
    <3>8. CASE \E j \in Job : Expire(j)
      BY <2>1, <2>3, <3>1, <3>8, ExpireLeases
    <3>9. CASE UNCHANGED vars
      BY <3>2, <3>9 DEF vars, NoNewLease
    <3> QED BY <3>4, <3>5, <3>6, <3>7, <3>8, <3>9 DEF Next
  <2> QED BY <2>2, <2>3
<1>3. Inv => OneImplementationPerRepo
  BY DEF OneImplementationPerRepo
<1> QED BY <1>1, <1>2, <1>3, PTL DEF Spec

-----------------------------------------------------------------------------
(***************************************************************************)
(* The second part: what the job table and the outbox owe each other.  A   *)
(* delivery has a draft, work that waits has its event, and the            *)
(* idempotency keys of later stages are unused.  None of the three is      *)
(* inductive alone: a claim relies on the workspace being ready, the       *)
(* completion of an event on its work being done, a retry on the keys of   *)
(* the stages it has not reached.  WorkInv says all of it, per job, per    *)
(* slot that finishes and for the dispatcher.                              *)
(***************************************************************************)

(* The statuses a job has before it is approved, and before it is          *)
(* delivered.  A waiting retry belongs where its phase does.               *)
BeforeApproval(row) ==
  \/ row.status \in {Absent, "queued_plan", "running_plan", "blocked_plan",
                     "waiting_approval"}
  \/ row.status = "retry_wait" /\ row.retryPhase = "plan"

BeforeDelivery(row) ==
  \/ BeforeApproval(row)
  \/ row.status \in {"queued_implementation", "running_implementation",
                     "retry_wait"}

Awaited(box, e) == box[e] \in {"due", "dead"}

(* One job: whatever runs or waits for a retry has its workspace; whatever *)
(* lacks something has an event that brings it; the keys of the two events *)
(* of a later stage are unused; what is delivered has a draft.             *)
JobWork(row, e, box) ==
  /\ row.status = Absent => row.pinned = 0 /\ row.approval = 0
  /\ row.status \in RunningStatus => PhaseOfRunning[row.status] \in row.ready
  /\ row.status = "retry_wait" => row.retryPhase \in row.ready
  /\ row.status = "queued_plan" /\ "plan" \notin row.ready =>
       Awaited(box, "prepare_plan") \/ Awaited(box, "prepare_reply")
  /\ row.status = "queued_implementation" /\ "implementation" \notin row.ready =>
       Awaited(box, "prepare_implementation")
  /\ row.status \in {"ready_to_publish", "publishing"} => Awaited(box, "publish")
  /\ BeforeApproval(row) => box["prepare_implementation"] = "absent"
  /\ BeforeDelivery(row) => box["publish"] = "absent"
  /\ row.status \in {"ready_to_publish", "publishing", "completed"} => e.draft

(* A slot that finishes its phase has what the phase produces.             *)
FinishWork(s, st, e) ==
  st.pc = "finish" =>
    IF PhaseOf[s] = "plan" THEN e.plans # <<>> ELSE e.draft

(* The dispatcher works on an event of the outbox; when it is about to     *)
(* complete the event, what the event asks for is done.                    *)
DispatcherWork(st, row, box) ==
  /\ st.pc # "idle" => box[st.event] # "absent"
  /\ st.pc \in {"verify", "push"} => st.event = "publish"
  /\ st.pc = "settle" =>
       IF st.event \in PrepareEvent THEN EventPhase[st.event] \in row.ready
       ELSE st.event = "publish" /\ row.status \in {"stale", "completed"}

WorkInv ==
  /\ \A j \in Job : JobWork(jobs[j], evidence[j], outbox[j])
  /\ \A s \in Slots : FinishWork(s, proc[s], evidence[proc[s].job])
  /\ DispatcherWork(proc[Dispatcher], RowOf(Dispatcher),
                    outbox[proc[Dispatcher].job])

-----------------------------------------------------------------------------
(* How a step changes the variables.                                       *)

(* Artifacts stay.                                                         *)
EvidenceKept ==
  \A j \in Job : /\ evidence[j].draft => evidence'[j].draft
                 /\ evidence[j].plans # <<>> => evidence'[j].plans # <<>>

(* A process stays where it is, with or without its version.               *)
Waits(q) ==
  /\ proc'[q].pc = proc[q].pc
  /\ proc'[q].job = proc[q].job
  /\ proc'[q].event = proc[q].event

(* Nothing a dispatcher has done for its event is undone.                  *)
DeliveryKept ==
  /\ Waits(Dispatcher)
  /\ \A j \in Job :
       /\ jobs[j].ready \subseteq jobs'[j].ready \/ ~At(Dispatcher, "settle")
       /\ jobs[j].status \in {"stale", "completed"} =>
            jobs'[j].status = jobs[j].status
       /\ \A e \in Event : outbox[j][e] # "absent" => outbox'[j][e] # "absent"

(* The work of a job is looked at through five columns of its row, and the *)
(* draft.                                                                  *)
LEMMA SameWork ==
  ASSUME NEW row, NEW old, NEW e, NEW before, NEW box,
         row.status = old.status, row.ready = old.ready,
         row.retryPhase = old.retryPhase, row.pinned = old.pinned,
         row.approval = old.approval,
         before.draft => e.draft, JobWork(old, before, box)
  PROVE  JobWork(row, e, box)
BY DEF JobWork, BeforeApproval, BeforeDelivery

(* The job that a step is about, the slot that takes it and the dispatcher *)
(* are looked at; everything else keeps its work.                          *)
LEMMA WorkStep ==
  ASSUME IInv, WorkInv, EvidenceKept,
         \A j \in Job : \/ jobs'[j] = jobs[j] /\ outbox'[j] = outbox[j]
                        \/ JobWork(jobs'[j], evidence'[j], outbox'[j]),
         \A s \in Slots : \/ Waits(s)
                          \/ FinishWork(s, proc'[s], evidence'[proc'[s].job]),
         \/ DeliveryKept
         \/ DispatcherWork(proc'[Dispatcher], jobs'[proc'[Dispatcher].job],
                           outbox'[proc'[Dispatcher].job])
  PROVE  WorkInv'
<1>1. \A j \in Job : JobWork(jobs'[j], evidence'[j], outbox'[j])
  <2> TAKE j \in Job
  <2>1. JobWork(jobs[j], evidence[j], outbox[j])
    BY DEF WorkInv
  <2>2. evidence[j].draft => evidence'[j].draft
    BY DEF EvidenceKept
  <2>3. CASE jobs'[j] = jobs[j] /\ outbox'[j] = outbox[j]
    BY <2>1, <2>2, <2>3, SameWork
  <2> QED BY <2>3
<1>2. \A s \in Slots : FinishWork(s, proc'[s], evidence'[proc'[s].job])
  <2> TAKE s \in Slots
  <2>1. CASE Waits(s)
    <3>1. SUFFICES ASSUME proc[s].pc = "finish"
                   PROVE  FinishWork(s, proc'[s], evidence'[proc'[s].job])
      BY <2>1 DEF Waits, FinishWork
    <3>2. proc[s].job \in Job
      BY <3>1, ProcessFacts DEF Process
    <3> QED BY <2>1, <3>1, <3>2 DEF WorkInv, Waits, FinishWork, EvidenceKept
  <2> QED BY <2>1
<1>3. DispatcherWork(proc'[Dispatcher], jobs'[proc'[Dispatcher].job],
                     outbox'[proc'[Dispatcher].job])
  <2>1. CASE DeliveryKept
    <3> DEFINE st == proc[Dispatcher]
    <3>1. /\ proc'[Dispatcher].pc = st.pc
          /\ proc'[Dispatcher].job = st.job
          /\ proc'[Dispatcher].event = st.event
      BY <2>1 DEF DeliveryKept, Waits
    <3>2. CASE st.pc = "idle"
      BY <3>1, <3>2 DEF DispatcherWork
    <3>3. CASE st.pc # "idle"
      <4>1. /\ st.job \in Job
            /\ st.event \in Event
        BY <3>3, DispatcherFacts
        DEF ProcessState, DispatcherLabel, PrepareEvent, Event
      <4>2. DispatcherWork(st, jobs[st.job], outbox[st.job])
        BY DEF WorkInv, RowOf
      <4> QED BY <2>1, <3>1, <4>1, <4>2 DEF DeliveryKept, DispatcherWork, At
    <3> QED BY <3>2, <3>3
  <2> QED BY <2>1
<1> QED BY <1>1, <1>2, <1>3 DEF WorkInv, RowOf

(* A step that touches neither table.                                      *)
LEMMA QuietWork ==
  ASSUME IInv, WorkInv, EvidenceKept, UNCHANGED <<jobs, outbox>>,
         \A s \in Slots : \/ Waits(s)
                          \/ FinishWork(s, proc'[s], evidence'[proc'[s].job]),
         \/ Waits(Dispatcher)
         \/ DispatcherWork(proc'[Dispatcher], jobs[proc'[Dispatcher].job],
                           outbox[proc'[Dispatcher].job])
  PROVE  WorkInv'
BY WorkStep DEF DeliveryKept

(* Whoever does not take a step waits, also when it loses its version.     *)
LEMMA OthersWait ==
  ASSUME IInv, NEW p \in Process, NEW next, NEW j,
         \/ proc' = [proc EXCEPT ![p] = next]
         \/ proc' = [Outdated(proc, j) EXCEPT ![p] = next]
         \/ proc' = Outdated(proc, j)
  PROVE  \A q \in Process \ {p} : Waits(q)
<1> SUFFICES ASSUME NEW q \in Process \ {p}
             PROVE  Waits(q)
  OBVIOUS
<1>1. proc[q] \in ProcessState(q)
  BY ProcessFacts
<1>2. proc'[q] \in {proc[q], [proc[q] EXCEPT !.fresh = FALSE]}
  BY DEF Outdated, IInv, TypeOK
<1> QED BY <1>1, <1>2 DEF Waits, ProcessState

(* Without an effect on the evidence it is kept.                           *)
LEMMA SameIsKept == evidence' = evidence => EvidenceKept
BY DEF EvidenceKept

-----------------------------------------------------------------------------
(* The steps of a slot that leave the rows alone.                          *)

(* Where a slot is after it went on, or left its job.                      *)
LEMMA SlotGoes ==
  ASSUME IInv, NEW s \in Slots, NEW label,
         Goto(s, label) \/ ReadThen(s, label) \/ Leave(s)
  PROVE  /\ \A q \in Process \ {s} : Waits(q)
         /\ \/ proc'[s].pc = label /\ proc'[s].job = proc[s].job
            \/ proc'[s].pc = "idle"
<1>1. s \in Process /\ proc[s] \in ProcessState(s)
  BY ProcessFacts DEF Process
<1>2. CASE Leave(s)
  <2>1. proc'[s] = Rest
    BY <1>1, <1>2 DEF Leave, IInv, TypeOK
  <2>2. \A q \in Process \ {s} : Waits(q)
    BY <1>1, <1>2, OthersWait DEF Leave
  <2> QED BY <2>1, <2>2 DEF Rest
<1>3. CASE Goto(s, label) \/ ReadThen(s, label)
  <2>1. PICK version \in BOOLEAN :
          proc' = [proc EXCEPT ![s] = Stepped(s, label, version)]
    BY <1>3 DEF Goto, ReadThen, Stepped
  <2>2. proc'[s] = Stepped(s, label, version)
    BY <1>1, <2>1 DEF IInv, TypeOK
  <2>3. \A q \in Process \ {s} : Waits(q)
    BY <1>1, <2>1, OthersWait
  <2> QED BY <1>1, <2>2, <2>3 DEF Stepped, ProcessState
<1> QED BY <1>2, <1>3

(* A slot moves; if it goes on to finish, the product is there.            *)
LEMMA SlotQuietWork ==
  ASSUME IInv, WorkInv, EvidenceKept, UNCHANGED <<jobs, outbox>>,
         NEW s \in Slots, NEW label,
         Goto(s, label) \/ ReadThen(s, label) \/ Leave(s),
         label = "finish" =>
           IF PhaseOf[s] = "plan" THEN evidence'[proc[s].job].plans # <<>>
           ELSE evidence'[proc[s].job].draft
  PROVE  WorkInv'
<1>1. Dispatcher \in Process /\ s # Dispatcher
  BY ConstantsAssumption DEF Process
<1>2. /\ \A q \in Process \ {s} : Waits(q)
      /\ \/ proc'[s].pc = label /\ proc'[s].job = proc[s].job
         \/ proc'[s].pc = "idle"
  BY SlotGoes
<1>3. FinishWork(s, proc'[s], evidence'[proc'[s].job])
  BY <1>2 DEF FinishWork
<1> QED BY <1>1, <1>2, <1>3, QuietWork DEF Process

(* The read that decides whether to finish comes after the product.        *)
LEMMA ReadToFinishWork ==
  ASSUME IInv, WorkInv, UNCHANGED <<jobs, outbox, evidence>>,
         NEW s \in Slots, ReadToFinish(s),
         AlreadyProduced(s) \/ HasProduct(s)
  PROVE  WorkInv'
<1>1. IF PhaseOf[s] = "plan" THEN evidence'[proc[s].job].plans # <<>>
      ELSE evidence'[proc[s].job].draft
  BY DEF AlreadyProduced, HasProduct
<1>2. Leave(s) \/ ReadThen(s, "finish")
  BY DEF ReadToFinish
<1> QED BY <1>1, <1>2, SameIsKept, SlotQuietWork

(* A run begins; what was produced before is kept.                         *)
LEMMA BeginWork ==
  ASSUME IInv, WorkInv, NEW s \in Slots, Begin(s) \/ Reject(s)
  PROVE  WorkInv'
<1>1. proc[s].pc \notin {"idle", "down"} /\ UNCHANGED <<jobs, outbox>>
  BY DEF Begin, Reject
<1>2. CASE Reject(s)
  <2>1. PICK label \in {"failing", "mismatch"} : Goto(s, label)
    BY <1>2 DEF Reject
  <2> QED BY <1>1, <1>2, <2>1, SameIsKept, SlotQuietWork DEF Reject
<1>3. CASE Begin(s) /\ AlreadyProduced(s)
  BY <1>1, <1>3, ReadToFinishWork DEF Begin
<1>4. CASE Begin(s) /\ ~AlreadyProduced(s) /\ At(s, "claimed")
  BY <1>1, <1>4, SameIsKept, SlotQuietWork DEF Begin
<1>5. CASE Begin(s) /\ ~AlreadyProduced(s) /\ ~At(s, "claimed")
  <2>1. /\ Goto(s, "running")
        /\ evidence' = [evidence EXCEPT ![proc[s].job].reply =
                          @ /\ PhaseOf[s] # "plan"]
    BY <1>5, Zenon DEF Begin
  <2>2. EvidenceKept
    BY <2>1 DEF IInv, TypeOK, Evidence, EvidenceKept
  <2> QED BY <1>1, <2>1, <2>2, SlotQuietWork
<1> QED BY <1>2, <1>3, <1>4, <1>5

(* The polls, the policy callback, the end of the stream, conflicts and    *)
(* the failure handler.                                                    *)
LEMMA SlotMovesWork ==
  ASSUME IInv, WorkInv, NEW s \in Slots,
         \/ Abandon(s) \/ Poll(s) \/ ViolatePolicy(s) \/ PolicyConflict(s)
         \/ EndRun(s) \/ Conclude(s) \/ RunConflict(s) \/ HandleFailure(s)
         \/ HandlerConflict(s)
  PROVE  WorkInv'
<1>1. UNCHANGED <<jobs, outbox, evidence>> /\ EvidenceKept
  BY SameIsKept
  DEF Abandon, Poll, ViolatePolicy, PolicyConflict, EndRun, Conclude,
      RunConflict, HandleFailure, HandlerConflict
<1>2. CASE Conclude(s)
  <2>1. CASE HasProduct(s)
    BY <1>1, <1>2, <2>1, ReadToFinishWork DEF Conclude
  <2>2. CASE ~HasProduct(s)
    BY <1>1, <1>2, <2>2, SlotQuietWork DEF Conclude
  <2> QED BY <2>1, <2>2
<1>3. CASE HandlerConflict(s)
  <2>1. /\ s \in Process /\ Dispatcher \in Process /\ s # Dispatcher
        /\ proc' = [proc EXCEPT ![s] = [Rest EXCEPT !.pc = "down"]]
    BY <1>3, ConstantsAssumption DEF Process, HandlerConflict
  <2>2. proc'[s].pc = "down"
    BY <2>1 DEF IInv, TypeOK, Rest
  <2>3. FinishWork(s, proc'[s], evidence'[proc'[s].job])
    BY <2>2 DEF FinishWork
  <2>4. \A q \in Process \ {s} : Waits(q)
    BY <2>1, OthersWait
  <2> QED BY <1>1, <2>1, <2>3, <2>4, QuietWork DEF Process
<1>4. ASSUME ~Conclude(s), ~HandlerConflict(s)
      PROVE  \/ Leave(s)
             \/ \E label \in {"beat", "progress", "policy", "running", "ended",
                              "failing", "retry", "bury"} :
                  Goto(s, label) \/ ReadThen(s, label)
  BY <1>4 DEF Abandon, Poll, ViolatePolicy, PolicyConflict, EndRun, RunConflict,
              HandleFailure
<1>5. CASE ~Conclude(s) /\ ~HandlerConflict(s)
  BY <1>1, <1>4, <1>5, SlotQuietWork
<1> QED BY <1>2, <1>3, <1>5

(* A submission or the end of a Session adds to the evidence.              *)
LEMMA ArtifactWork ==
  ASSUME IInv, WorkInv, NEW s \in Slots,
         \/ \E kind \in PlanStatus : SubmitPlan(s, kind)
         \/ SubmitDraft(s) \/ CompleteSession(s)
  PROVE  WorkInv'
<1>1. UNCHANGED <<jobs, proc, outbox>>
  BY DEF SubmitPlan, SubmitDraft, CompleteSession
<1>2. evidence \in [Job -> Evidence]
  BY DEF IInv, TypeOK
<1>3. EvidenceKept
  <2>1. CASE SubmitDraft(s) \/ CompleteSession(s)
    <3>1. \/ evidence' = [evidence EXCEPT ![proc[s].job].draft = TRUE]
          \/ evidence' = [evidence EXCEPT ![proc[s].job].done = TRUE]
      BY <2>1 DEF SubmitDraft, CompleteSession
    <3>2. ASSUME NEW j \in Job
          PROVE  /\ evidence'[j].plans = evidence[j].plans
                 /\ evidence'[j].draft \in {evidence[j].draft, TRUE}
      <4>1. evidence[j] \in Evidence
        BY <1>2
      <4>2. evidence'[j] \in {evidence[j], [evidence[j] EXCEPT !.draft = TRUE],
                              [evidence[j] EXCEPT !.done = TRUE]}
        BY <1>2, <3>1
      <4> QED BY <4>1, <4>2 DEF Evidence
    <3> QED BY <3>2 DEF EvidenceKept
  <2>2. ASSUME NEW kind \in PlanStatus, SubmitPlan(s, kind)
        PROVE  EvidenceKept
    <3>1. evidence' = [evidence EXCEPT ![proc[s].job].plans = Append(@, kind)]
      BY <2>2 DEF SubmitPlan
    <3>2. \A j \in Job : /\ evidence'[j].draft = evidence[j].draft
                         /\ evidence'[j].plans \in
                              {evidence[j].plans, Append(evidence[j].plans, kind)}
      BY <1>2, <3>1 DEF Evidence
    <3>3. ASSUME NEW j \in Job
          PROVE  Append(evidence[j].plans, kind) # <<>>
      <4> DEFINE old == evidence[j].plans
      <4>1. old \in Seq(PlanStatus)
        BY <1>2 DEF Evidence
      <4> HIDE DEF old
      <4>2. Len(Append(old, kind)) = Len(old) + 1 /\ Len(old) \in Nat
        BY <2>2, <4>1
      <4>3. Append(old, kind) # <<>>
        BY <4>2
      <4> QED BY <4>3 DEF old
    <3> QED BY <3>2, <3>3 DEF EvidenceKept
  <2> QED BY <2>1, <2>2
<1> QED BY <1>1, <1>3, QuietWork DEF Waits

-----------------------------------------------------------------------------
(* The writes of a slot.                                                   *)

(* A row that keeps its workspaces, with the row it replaces.              *)
LEMMA MovedKeeps ==
  ASSUME NEW row \in Row, NEW trigger \in DOMAIN TargetOf
  PROVE  /\ Moved(row, trigger).ready = row.ready
         /\ Unowned(Moved(row, trigger)).ready = row.ready
BY DEF Moved, Unowned, Row

(* A job that is over needs nothing any more.                              *)
LEMMA OverWork ==
  ASSUME NEW row, NEW e, NEW box,
         row.status \in {"cancelled", "stale", "dead_letter"}
  PROVE  JobWork(row, e, box)
BY DEF JobWork, BeforeApproval, BeforeDelivery, RunningStatus, Running, Phase,
       Absent

(* What a step that writes row j of process p has to show.                 *)
LEMMA RowWork ==
  ASSUME IInv, WorkInv, EvidenceKept, NEW p \in Process \ {Dispatcher},
         NEW j \in Job, NEW row,
         jobs' = [jobs EXCEPT ![j] = row],
         \A q \in Process \ {p} : Waits(q),
         Waits(p) \/ proc'[p].pc # "finish",
         \A k \in Job \ {j} : outbox'[k] = outbox[k],
         \A e \in Event : outbox[j][e] # "absent" => outbox'[j][e] # "absent",
         JobWork(row, evidence'[j], outbox'[j]),
         jobs[j].ready \subseteq row.ready \/ ~At(Dispatcher, "settle"),
         jobs[j].status \notin {"stale", "completed"} \/ row.status = jobs[j].status
  PROVE  WorkInv'
<1>1. \A k \in Job : jobs'[k] = IF k = j THEN row ELSE jobs[k]
  BY DEF IInv, TypeOK
<1>2. DeliveryKept
  BY <1>1 DEF DeliveryKept, Process
<1>3. \A s \in Slots : \/ Waits(s)
                       \/ FinishWork(s, proc'[s], evidence'[proc'[s].job])
  BY DEF FinishWork, Process
<1> QED BY <1>1, <1>2, <1>3, WorkStep

(* A slot writes the row of its job.                                       *)
LEMMA SlotRowWork ==
  ASSUME IInv, WorkInv, EvidenceKept, NEW s \in Slots,
         proc[s].pc \notin {"idle", "down"}, NEW row,
         NEW label \in SlotLabel \ {"finish"}, NEW version \in BOOLEAN,
         NEW next \in {Rest, Stepped(s, label, version)},
         Write(s, row, next),
         \A k \in Job \ {proc[s].job} : outbox'[k] = outbox[k],
         \A e \in Event : outbox[proc[s].job][e] # "absent" =>
                          outbox'[proc[s].job][e] # "absent",
         JobWork(row, evidence'[proc[s].job], outbox'[proc[s].job]),
         RowOf(s).ready \subseteq row.ready,
         RowOf(s).status \notin {"stale", "completed"}
  PROVE  WorkInv'
<1>1. /\ s \in Process \ {Dispatcher}
      /\ proc[s].job \in Job
      /\ proc[s] \in ProcessState(s)
  BY SlotFacts, ProcessFacts, ConstantsAssumption
<1>2. \A q \in Process \ {s} : Waits(q)
  BY <1>1, OthersWait DEF Write
<1>3. proc'[s] = next
  BY <1>1 DEF Write, Outdated
<1>4. next.pc # "finish"
  BY SlotState DEF Rest
<1>5. jobs' = [jobs EXCEPT ![proc[s].job] = row]
  BY DEF Write
<1> QED BY <1>1, <1>2, <1>3, <1>4, <1>5, RowWork DEF RowOf

(* A slot writes the row of its job and leaves it.                         *)
LEMMA SlotLeaveWork ==
  ASSUME IInv, WorkInv, EvidenceKept, NEW s \in Slots,
         proc[s].pc \notin {"idle", "down"}, NEW row, Write(s, row, Rest),
         \A k \in Job \ {proc[s].job} : outbox'[k] = outbox[k],
         \A e \in Event : outbox[proc[s].job][e] # "absent" =>
                          outbox'[proc[s].job][e] # "absent",
         JobWork(row, evidence'[proc[s].job], outbox'[proc[s].job]),
         RowOf(s).ready \subseteq row.ready,
         RowOf(s).status \notin {"stale", "completed"}
  PROVE  WorkInv'
<1>1. "idle" \in SlotLabel \ {"finish"}
  BY DEF SlotLabel
<1>2. Rest \in {Rest, Stepped(s, "idle", FALSE)}
  OBVIOUS
<1> QED BY <1>1, <1>2, SlotRowWork

(* The Session of the phase is recorded, the lease renewed, the progress   *)
(* noted.                                                                  *)
LEMMA RunWriteWork ==
  ASSUME IInv, WorkInv, NEW s \in Slots,
         OpenSession(s) \/ Heartbeat(s) \/ RecordProgress(s)
  PROVE  WorkInv'
<1> DEFINE j    == proc[s].job
           next == Stepped(s, "running", FALSE)
<1>1. /\ proc[s].pc \notin {"idle", "down"}
      /\ Fenced(s) /\ UNCHANGED outbox
  BY DEF OpenSession, Heartbeat, RecordProgress, At
<1>2. j \in Job /\ RowOf(s) = jobs[j] /\ RowOf(s) \in Row
  BY <1>1, SlotFacts
<1>3. RowOf(s).status \in RunningStatus
  BY <1>1, <1>2, RowFacts, ConstantsAssumption DEF Fenced, Worker
<1>4. EvidenceKept
  <2>1. CASE OpenSession(s)
    BY <2>1 DEF OpenSession, IInv, TypeOK, Evidence, EvidenceKept
  <2>2. CASE ~OpenSession(s)
    BY <2>2, SameIsKept DEF Heartbeat, RecordProgress
  <2> QED BY <2>1, <2>2
<1>5. PICK row \in {RowOf(s), [RowOf(s) EXCEPT !.live = TRUE],
                   [RowOf(s) EXCEPT !.session = @ \cup {PhaseOf[s]}]} :
        Write(s, row, next)
  BY DEF OpenSession, Heartbeat, RecordProgress, Stepped
<1>6. /\ row.status = RowOf(s).status /\ row.ready = RowOf(s).ready
      /\ row.retryPhase = RowOf(s).retryPhase
      /\ row.pinned = RowOf(s).pinned /\ row.approval = RowOf(s).approval
  BY <1>2, <1>5 DEF Row
<1>7. JobWork(row, evidence'[j], outbox'[j])
  <2>1. JobWork(jobs[j], evidence[j], outbox[j])
    BY <1>2 DEF WorkInv
  <2>2. evidence[j].draft => evidence'[j].draft
    BY <1>2, <1>4 DEF EvidenceKept
  <2> QED BY <1>1, <1>2, <1>6, <2>1, <2>2, SameWork
<1>8. RowOf(s).status \notin {"stale", "completed"}
  BY <1>3, PhaseValues
<1>9. "running" \in SlotLabel \ {"finish"} /\ next \in {Rest, next}
  BY DEF SlotLabel
<1> QED BY <1>1, <1>4, <1>5, <1>6, <1>7, <1>8, <1>9, SlotRowWork

(* The plan is pinned and offered.                                         *)
LEMMA FinishPlanWork ==
  ASSUME IInv, WorkInv, NEW s \in Slots, FinishPlan(s)
  PROVE  WorkInv'
<1> DEFINE j == proc[s].job
<1>1. /\ proc[s].pc \notin {"idle", "down"} /\ At(s, "finish") /\ proc[s].fresh
      /\ PhaseOf[s] = "plan"
      /\ outbox' = [outbox EXCEPT ![j]["comment_plan"] = "due"]
      /\ UNCHANGED evidence
  BY DEF FinishPlan, At, MayFinish, Fenced
<1>2. /\ j \in Job /\ RowOf(s) = jobs[j] /\ RowOf(s) \in Row
      /\ RowOf(s).status = "running_plan"
  BY <1>1, SlotFacts, PhaseValues DEF ActsOn, At
<1>3. PICK trigger \in {"plan_ready", "plan_blocked"},
           n \in {Len(evidence[j].plans)} :
        Write(s, [Unowned(Moved(RowOf(s), trigger)) EXCEPT !.pinned = n], Rest)
  BY DEF FinishPlan
<1> DEFINE old == Unowned(Moved(RowOf(s), trigger))
           row == [old EXCEPT !.pinned = n]
<1>4. /\ trigger \in DOMAIN TargetOf
      /\ TargetOf[trigger] \in {"waiting_approval", "blocked_plan"}
  BY DEF TargetOf
<1>5. /\ old \in Row /\ old.status \in {"waiting_approval", "blocked_plan"}
      /\ old.ready = RowOf(s).ready
  BY <1>2, <1>4, MovedRow, MovedKeeps
<1> HIDE DEF old
<1>6. /\ row.status \in {"waiting_approval", "blocked_plan"}
      /\ row.ready = RowOf(s).ready
  BY <1>5 DEF Row
<1>7. Write(s, row, Rest)
  BY <1>3 DEF old
<1> HIDE DEF row
<1>8. /\ \A k \in Job \ {j} : outbox'[k] = outbox[k]
      /\ \A e \in Event : outbox'[j][e] =
           IF e = "comment_plan" THEN "due" ELSE outbox[j][e]
  BY <1>1, <1>2 DEF IInv, TypeOK
<1>9. JobWork(row, evidence'[j], outbox'[j])
  <2>1. /\ outbox[j]["prepare_implementation"] = "absent"
        /\ outbox[j]["publish"] = "absent"
    BY <1>2 DEF WorkInv, JobWork, BeforeApproval, BeforeDelivery
  <2>2. /\ outbox'[j]["prepare_implementation"] = "absent"
        /\ outbox'[j]["publish"] = "absent"
    BY <1>8, <2>1 DEF Event, PrepareEvent
  <2> QED BY <1>6, <2>2, PhaseValues DEF JobWork, Absent
<1>10. EvidenceKept
  BY <1>1, SameIsKept
<1>11. \A e \in Event : outbox[j][e] # "absent" => outbox'[j][e] # "absent"
  BY <1>8
<1>12. RowOf(s).ready \subseteq row.ready
  BY <1>6
<1> QED BY <1>1, <1>2, <1>7, <1>8, <1>9, <1>10, <1>11, <1>12, SlotLeaveWork

(* The implementation is delivered with the draft the slot found.          *)
LEMMA FinishImplementationWork ==
  ASSUME IInv, WorkInv, NEW s \in Slots, FinishImplementation(s)
  PROVE  WorkInv'
<1> DEFINE j   == proc[s].job
           row == Unowned(Moved(RowOf(s), "implementation_ready"))
<1>1. /\ proc[s].pc \notin {"idle", "down"} /\ At(s, "finish") /\ proc[s].fresh
      /\ PhaseOf[s] = "implementation"
      /\ outbox' = [outbox EXCEPT ![j]["publish"] = "due"]
      /\ Write(s, row, Rest)
      /\ UNCHANGED evidence
  BY DEF FinishImplementation, At, MayFinish, Fenced
<1>2. /\ j \in Job /\ RowOf(s) = jobs[j] /\ RowOf(s) \in Row
      /\ RowOf(s).status = "running_implementation"
  BY <1>1, SlotFacts, PhaseValues DEF ActsOn, At
<1>3. evidence[j].draft
  BY <1>1 DEF WorkInv, FinishWork, At
<1>4. /\ "implementation_ready" \in DOMAIN TargetOf
      /\ TargetOf["implementation_ready"] = "ready_to_publish"
  BY DEF TargetOf
<1>5. row.status = "ready_to_publish" /\ row.ready = RowOf(s).ready
  BY <1>2, <1>4, MovedRow, MovedKeeps
<1> HIDE DEF row
<1>6. /\ \A k \in Job \ {j} : outbox'[k] = outbox[k]
      /\ \A e \in Event : outbox'[j][e] =
           IF e = "publish" THEN "due" ELSE outbox[j][e]
  BY <1>1, <1>2 DEF IInv, TypeOK
<1>7. JobWork(row, evidence'[j], outbox'[j])
  <2>1. Awaited(outbox'[j], "publish")
    BY <1>6 DEF Event, Awaited
  <2> QED BY <1>1, <1>3, <1>5, <2>1, PhaseValues
      DEF JobWork, BeforeApproval, BeforeDelivery, Absent
<1>8. EvidenceKept
  BY <1>1, SameIsKept
<1>9. \A e \in Event : outbox[j][e] # "absent" => outbox'[j][e] # "absent"
  BY <1>6
<1>10. RowOf(s).ready \subseteq row.ready
  BY <1>5
<1> QED BY <1>1, <1>2, <1>6, <1>7, <1>8, <1>9, <1>10, SlotLeaveWork

(* A job that its slot cancels or buries needs nothing any more.           *)
LEMMA RunOverWork ==
  ASSUME IInv, WorkInv, NEW s \in Slots, TerminateForPolicy(s) \/ ExhaustRetries(s)
  PROVE  WorkInv'
<1>1. /\ proc[s].pc \notin {"idle", "down"} /\ proc[s].fresh
      /\ UNCHANGED <<outbox, evidence>>
  BY DEF TerminateForPolicy, ExhaustRetries, At, Fenced, Unchanged
<1>2. /\ proc[s].job \in Job /\ RowOf(s) = jobs[proc[s].job] /\ RowOf(s) \in Row
  BY <1>1, SlotFacts
<1>3. EvidenceKept
  BY <1>1, SameIsKept
<1>4. CASE TerminateForPolicy(s)
  <2> DEFINE row  == Unowned(Moved(RowOf(s), "cancel"))
             next == Stepped(s, "running", FALSE)
  <2>1. Write(s, row, next) /\ Fenced(s)
    BY <1>4 DEF TerminateForPolicy, Stepped
  <2>2. RowOf(s).status \notin {"stale", "completed"}
    BY <1>2, <2>1, RowFacts, PhaseValues, ConstantsAssumption DEF Fenced, Worker
  <2>3. "cancel" \in DOMAIN TargetOf /\ TargetOf["cancel"] = "cancelled"
    BY DEF TargetOf
  <2>4. row.status = "cancelled" /\ row.ready = RowOf(s).ready
    BY <1>2, <2>3, MovedRow, MovedKeeps
  <2> HIDE DEF row
  <2>5. JobWork(row, evidence'[proc[s].job], outbox'[proc[s].job])
    BY <2>4, OverWork
  <2>6. "running" \in SlotLabel \ {"finish"} /\ next \in {Rest, next}
    BY DEF SlotLabel
  <2> QED BY <1>1, <1>2, <1>3, <2>1, <2>2, <2>4, <2>5, <2>6, SlotRowWork
<1>5. CASE ExhaustRetries(s)
  <2> DEFINE row == Moved(RowOf(s), "exhaust_retries")
  <2>1. Write(s, row, Rest) /\ At(s, "exhaust")
    BY <1>5 DEF ExhaustRetries
  <2>2. RowOf(s).status = "retry_wait"
    BY <1>1, <2>1, SlotFacts DEF ActsOn, At
  <2>3. /\ "exhaust_retries" \in DOMAIN TargetOf
        /\ TargetOf["exhaust_retries"] = "dead_letter"
    BY DEF TargetOf
  <2>4. row.status = "dead_letter" /\ row.ready = RowOf(s).ready
    BY <1>2, <2>3, MovedRow, MovedKeeps
  <2> HIDE DEF row
  <2>5. JobWork(row, evidence'[proc[s].job], outbox'[proc[s].job])
    BY <2>4, OverWork
  <2> QED BY <1>1, <1>2, <1>3, <2>1, <2>2, <2>4, <2>5, SlotLeaveWork
<1> QED BY <1>4, <1>5

(* A waiting retry keeps the workspace of the phase that failed.           *)
LEMMA ScheduleRetryWork ==
  ASSUME IInv, WorkInv, NEW s \in Slots, ScheduleRetry(s)
  PROVE  WorkInv'
<1> DEFINE j     == proc[s].job
           phase == PhaseOfRunning[RowOf(s).status]
           old   == Unowned(Moved(RowOf(s), "schedule_retry"))
           row   == [old EXCEPT !.retryPhase = phase]
<1>1. /\ proc[s].pc \in {"retry", "bury"} /\ proc[s].fresh
      /\ UNCHANGED <<outbox, evidence>>
  BY DEF ScheduleRetry, Fenced
<1>2. /\ j \in Job /\ RowOf(s) = jobs[j] /\ RowOf(s) \in Row
      /\ RowOf(s).status \in RunningStatus
  BY <1>1, SlotFacts DEF ActsOn
<1>3. PICK next \in {Rest, Stepped(s, "exhaust", TRUE)} : Write(s, row, next)
  BY DEF ScheduleRetry, Stepped
<1>4. /\ "schedule_retry" \in DOMAIN TargetOf
      /\ TargetOf["schedule_retry"] = "retry_wait"
  BY DEF TargetOf
<1>5. /\ old \in Row /\ old.status = "retry_wait"
      /\ old.ready = RowOf(s).ready
  BY <1>2, <1>4, MovedRow, MovedKeeps
<1>6. /\ phase = "plan" => RowOf(s).status = "running_plan"
      /\ phase \in RowOf(s).ready
  BY <1>2, PhaseValues DEF PhaseOfRunning, WorkInv, JobWork
<1> HIDE DEF old, phase
<1>7. /\ row.status = "retry_wait" /\ row.retryPhase = phase
      /\ row.ready = RowOf(s).ready
  BY <1>5 DEF Row
<1> HIDE DEF row
<1>8. JobWork(row, evidence'[j], outbox'[j])
  <2>1. /\ phase = "plan" => outbox[j]["prepare_implementation"] = "absent"
        /\ outbox[j]["publish"] = "absent"
    BY <1>2, <1>6, PhaseValues DEF WorkInv, JobWork, BeforeApproval, BeforeDelivery
  <2> QED BY <1>1, <1>6, <1>7, <2>1, PhaseValues
      DEF JobWork, BeforeApproval, BeforeDelivery, Absent
<1>9. EvidenceKept
  BY <1>1, SameIsKept
<1>10. RowOf(s).status \notin {"stale", "completed"}
  BY <1>2, PhaseValues
<1>11. "exhaust" \in SlotLabel \ {"finish"}
  BY DEF SlotLabel
<1>12. RowOf(s).ready \subseteq row.ready
  BY <1>7
<1> QED BY <1>1, <1>2, <1>3, <1>8, <1>9, <1>10, <1>11, <1>12, SlotRowWork

(* A claim takes a job whose workspace is ready.                           *)
LEMMA ClaimWork ==
  ASSUME IInv, WorkInv, NEW s \in Slots, NEW j \in Job, Claim(s, j)
  PROVE  WorkInv'
<1> DEFINE row  == ClaimedRow(s, jobs[j])
           next == [Rest EXCEPT !.job = j,
                                !.pc = IF PhaseOf[s] \in jobs[j].session
                                       THEN "reclaimed" ELSE "claimed"]
<1>1. /\ jobs' = [jobs EXCEPT ![j] = row]
      /\ proc' = [Outdated(proc, j) EXCEPT ![s] = next]
      /\ UNCHANGED <<outbox, evidence>>
      /\ Claimable(s, j)
  BY DEF Claim
<1>2. /\ s \in Process \ {Dispatcher}
      /\ PhaseOf[s] \in Phase
  BY ConstantsAssumption DEF Process
<1>3. \A q \in Process \ {s} : Waits(q)
  BY <1>1, <1>2, OthersWait
<1>4. proc'[s].pc # "finish"
  BY <1>1, <1>2 DEF Outdated, Rest
<1>5. /\ row.status = Running[PhaseOf[s]] /\ row.ready = jobs[j].ready
      /\ jobs[j].status \in {Queued[PhaseOf[s]], Running[PhaseOf[s]]}
      /\ PhaseOf[s] \in jobs[j].ready
  <2>1. jobs[j] \in Row
    BY RowFacts
  <2> QED BY <1>1, <2>1 DEF ClaimedRow, Row, Claimable
<1> HIDE DEF row, next
<1>6. JobWork(row, evidence'[j], outbox'[j])
  <2>1. JobWork(jobs[j], evidence[j], outbox[j])
    BY DEF WorkInv
  <2>2. CASE PhaseOf[s] = "plan"
    <3>1. /\ row.status = "running_plan"
          /\ jobs[j].status \in {"queued_plan", "running_plan"}
          /\ PhaseOfRunning["running_plan"] \in row.ready
      BY <1>5, <2>2 DEF Running, Queued, PhaseOfRunning
    <3> QED BY <1>1, <2>1, <3>1
        DEF JobWork, BeforeApproval, BeforeDelivery, Absent
  <2>3. CASE PhaseOf[s] = "implementation"
    <3>1. /\ row.status = "running_implementation"
          /\ jobs[j].status \in {"queued_implementation",
                                 "running_implementation"}
          /\ PhaseOfRunning["running_implementation"] \in row.ready
      BY <1>5, <2>3 DEF Running, Queued, PhaseOfRunning
    <3> QED BY <1>1, <2>1, <3>1
        DEF JobWork, BeforeApproval, BeforeDelivery, Absent
  <2> QED BY <1>2, <2>2, <2>3 DEF Phase
<1>7. jobs[j].status \notin {"stale", "completed"}
  BY <1>2, <1>5 DEF Phase, Queued, Running
<1>8. EvidenceKept
  BY <1>1, SameIsKept
<1> QED BY <1>1, <1>2, <1>3, <1>4, <1>5, <1>6, <1>7, <1>8, RowWork

-----------------------------------------------------------------------------
(* The commands of the maintainers.                                        *)

(* The tasks of Control take turns: no command comes between the work of   *)
(* an event and its completion.                                            *)
LEMMA DeskTurn ==
  ASSUME Turn(Desk)
  PROVE  ~At(Dispatcher, "settle")
BY ConstantsAssumption DEF Turn, SameLoop, Synchronous, At, Process

(* A command writes row j.                                                 *)
LEMMA CommandWork ==
  ASSUME IInv, WorkInv, EvidenceKept, NEW j \in Job, NEW row, Command(j, row),
         \A k \in Job \ {j} : outbox'[k] = outbox[k],
         \A e \in Event : outbox[j][e] # "absent" => outbox'[j][e] # "absent",
         JobWork(row, evidence'[j], outbox'[j]),
         jobs[j].status \notin {"stale", "completed"}
  PROVE  WorkInv'
<1>1. /\ Desk \in Process \ {Dispatcher} /\ Dispatcher \in Process \ {Desk}
  BY ConstantsAssumption DEF Process
<1>2. /\ jobs' = [jobs EXCEPT ![j] = row] /\ proc' = Outdated(proc, j)
      /\ Turn(Desk)
  BY DEF Command
<1>3. \A q \in Process : Waits(q)
  <2>1. \A q \in Process \ {Desk} : Waits(q)
    BY <1>1, <1>2, OthersWait
  <2>2. \A q \in Process \ {Dispatcher} : Waits(q)
    BY <1>1, <1>2, OthersWait
  <2> QED BY <1>1, <2>1, <2>2
<1> QED BY <1>1, <1>2, <1>3, DeskTurn, RowWork

(* A new job has the event that prepares its workspace.                    *)
LEMMA PlanCommandWork ==
  ASSUME IInv, WorkInv, NEW j \in Job, PlanCommand(j)
  PROVE  WorkInv'
<1> DEFINE row == [NewRow EXCEPT !.status = "queued_plan"]
<1>1. /\ Command(j, row) /\ jobs[j].status = Absent /\ UNCHANGED evidence
      /\ outbox' = [outbox EXCEPT ![j]["prepare_plan"] = "due"]
  BY DEF PlanCommand
<1>2. row.status = "queued_plan"
  BY DEF NewRow
<1> HIDE DEF row
<1>3. /\ \A k \in Job \ {j} : outbox'[k] = outbox[k]
      /\ \A e \in Event : outbox'[j][e] =
           IF e = "prepare_plan" THEN "due" ELSE outbox[j][e]
  BY <1>1 DEF IInv, TypeOK
<1>4. JobWork(row, evidence'[j], outbox'[j])
  <2>1. /\ outbox[j]["prepare_implementation"] = "absent"
        /\ outbox[j]["publish"] = "absent"
    BY <1>1 DEF WorkInv, JobWork, BeforeApproval, BeforeDelivery
  <2>2. /\ outbox'[j]["prepare_implementation"] = "absent"
        /\ outbox'[j]["publish"] = "absent"
        /\ outbox'[j]["prepare_plan"] = "due"
    BY <1>3, <2>1 DEF Event, PrepareEvent
  <2> QED BY <1>2, <2>2, PhaseValues DEF JobWork, Awaited, Absent
<1>5. EvidenceKept
  BY <1>1, SameIsKept
<1>6. \A e \in Event : outbox[j][e] # "absent" => outbox'[j][e] # "absent"
  BY <1>3
<1> QED BY <1>1, <1>3, <1>4, <1>5, <1>6, CommandWork DEF Absent

(* A reply takes the workspace of the Plan away and asks for a new one.    *)
LEMMA ReplyCommandWork ==
  ASSUME IInv, WorkInv, NEW j \in Job, ReplyCommand(j)
  PROVE  WorkInv'
<1> DEFINE old == Unowned(Moved(jobs[j], "reply_received"))
           row == [old EXCEPT !.ready = @ \ {"plan"}]
<1>1. /\ Command(j, row) /\ jobs[j].status = "blocked_plan"
      /\ outbox' = [outbox EXCEPT ![j]["prepare_reply"] = "due"]
      /\ evidence' = [evidence EXCEPT ![j].reply = TRUE]
  BY DEF ReplyCommand, Allowed, Sources
<1>2. /\ "reply_received" \in DOMAIN TargetOf
      /\ TargetOf["reply_received"] = "queued_plan"
  BY DEF TargetOf
<1>3. old \in Row /\ old.status = "queued_plan"
  BY <1>2, RowFacts, MovedRow
<1> HIDE DEF old
<1>4. row.status = "queued_plan"
  BY <1>3 DEF Row
<1> HIDE DEF row
<1>5. /\ \A k \in Job \ {j} : outbox'[k] = outbox[k]
      /\ \A e \in Event : outbox'[j][e] =
           IF e = "prepare_reply" THEN "due" ELSE outbox[j][e]
  BY <1>1 DEF IInv, TypeOK
<1>6. JobWork(row, evidence'[j], outbox'[j])
  <2>1. /\ outbox[j]["prepare_implementation"] = "absent"
        /\ outbox[j]["publish"] = "absent"
    BY <1>1 DEF WorkInv, JobWork, BeforeApproval, BeforeDelivery
  <2>2. /\ outbox'[j]["prepare_implementation"] = "absent"
        /\ outbox'[j]["publish"] = "absent"
        /\ outbox'[j]["prepare_reply"] = "due"
    BY <1>5, <2>1 DEF Event, PrepareEvent
  <2> QED BY <1>4, <2>2, PhaseValues DEF JobWork, Awaited, Absent
<1>7. EvidenceKept
  BY <1>1 DEF IInv, TypeOK, Evidence, EvidenceKept
<1>8. \A e \in Event : outbox[j][e] # "absent" => outbox'[j][e] # "absent"
  BY <1>5
<1> QED BY <1>1, <1>5, <1>6, <1>7, <1>8, CommandWork

(* A retry resumes a phase whose workspace is there.                       *)
LEMMA RetryCommandWork ==
  ASSUME IInv, WorkInv, NEW j \in Job, RetryCommand(j)
  PROVE  WorkInv'
<1> DEFINE phase == jobs[j].retryPhase
           old   == Moved(jobs[j], ResumeTrigger[phase])
           row   == [old EXCEPT !.retryPhase = NoPhase]
<1>1. /\ Command(j, row) /\ jobs[j].status = "retry_wait"
      /\ phase \in Phase /\ UNCHANGED <<outbox, evidence>>
  BY DEF RetryCommand
<1>2. /\ ResumeTrigger[phase] \in DOMAIN TargetOf
      /\ TargetOf[ResumeTrigger[phase]] = Queued[phase]
  BY <1>1 DEF ResumeTrigger, TargetOf, Phase, Queued
<1>3. old \in Row /\ old.status = Queued[phase] /\ old.ready = jobs[j].ready
  BY <1>2, RowFacts, MovedRow, MovedKeeps
<1> HIDE DEF old
<1>4. row.status = Queued[phase] /\ row.ready = jobs[j].ready
  BY <1>3 DEF Row
<1> HIDE DEF row
<1>5. JobWork(row, evidence'[j], outbox'[j])
  <2>1. /\ phase \in jobs[j].ready
        /\ phase = "plan" => outbox[j]["prepare_implementation"] = "absent"
        /\ outbox[j]["publish"] = "absent"
    BY <1>1 DEF WorkInv, JobWork, BeforeApproval, BeforeDelivery
  <2>2. CASE phase = "plan"
    <3>1. row.status = "queued_plan" /\ "plan" \in row.ready
      BY <1>4, <2>1, <2>2 DEF Queued
    <3> QED BY <1>1, <2>1, <2>2, <3>1, PhaseValues DEF JobWork, Absent
  <2>3. CASE phase = "implementation"
    <3>1. row.status = "queued_implementation" /\ "implementation" \in row.ready
      BY <1>4, <2>1, <2>3 DEF Queued
    <3> QED BY <1>1, <2>1, <3>1, PhaseValues DEF JobWork, BeforeApproval, Absent
  <2> QED BY <1>1, <2>2, <2>3 DEF Phase
<1>6. EvidenceKept
  BY <1>1, SameIsKept
<1> QED BY <1>1, <1>5, <1>6, CommandWork

(* A cancelled job needs nothing any more.                                 *)
LEMMA CancelCommandWork ==
  ASSUME IInv, WorkInv, NEW j \in Job, CancelCommand(j)
  PROVE  WorkInv'
<1> DEFINE row == Unowned(Moved(jobs[j], "cancel"))
<1>1. Command(j, row) /\ jobs[j].status \in Active /\ UNCHANGED <<outbox, evidence>>
  BY DEF CancelCommand
<1>2. "cancel" \in DOMAIN TargetOf /\ TargetOf["cancel"] = "cancelled"
  BY DEF TargetOf
<1>3. row.status = "cancelled"
  BY <1>2, RowFacts, MovedRow
<1> HIDE DEF row
<1>4. JobWork(row, evidence'[j], outbox'[j])
  BY <1>3, OverWork
<1>5. jobs[j].status \notin {"stale", "completed"}
  BY <1>1 DEF Active, Terminal
<1>6. EvidenceKept
  BY <1>1, SameIsKept
<1> QED BY <1>1, <1>4, <1>5, <1>6, CommandWork

(* The approval asks for the workspace of the implementation; before it    *)
(* the desk only waits for GitHub.                                         *)
LEMMA DeskWork ==
  ASSUME IInv, WorkInv,
         \/ \E j \in Job : ImplementCommand(j)
         \/ ImplementConflict \/ Approve \/ BaseMoved
  PROVE  WorkInv'
<1> DEFINE j == proc[Desk].job
<1>1. /\ Desk \in Process \ {Dispatcher} /\ Dispatcher \in Process \ {Desk}
      /\ Desk \notin Slots
  BY ConstantsAssumption DEF Process
<1>2. EvidenceKept
  BY SameIsKept DEF ImplementCommand, ImplementConflict, Approve, BaseMoved
<1>3. CASE (\E k \in Job : ImplementCommand(k)) \/ ImplementConflict
  <2>1. PICK next : proc' = [proc EXCEPT ![Desk] = next]
    BY <1>3 DEF ImplementCommand, ImplementConflict, Leave
  <2>2. \A q \in Process \ {Desk} : Waits(q)
    BY <1>1, <2>1, OthersWait
  <2>3. UNCHANGED <<jobs, outbox>>
    BY <1>3 DEF ImplementCommand, ImplementConflict
  <2> QED BY <1>1, <1>2, <2>2, <2>3, QuietWork DEF Process
<1>4. CASE Approve \/ BaseMoved
  <2>1. /\ At(Desk, "implement") /\ proc[Desk].fresh /\ Turn(Desk)
        /\ UNCHANGED evidence
    BY <1>4 DEF Approve, BaseMoved, Unchanged
  <2>2. /\ j \in Job /\ RowOf(Desk) = jobs[j] /\ jobs[j] \in Row
        /\ jobs[j].status = "waiting_approval"
    BY <2>1, DeskFacts, RowFacts DEF At, ActsOn
  <2>3. ~At(Dispatcher, "settle")
    BY <2>1, DeskTurn
  <2>4. ASSUME NEW row, Write(Desk, row, Rest),
               \A k \in Job \ {j} : outbox'[k] = outbox[k],
               \A e \in Event : outbox[j][e] # "absent" =>
                                outbox'[j][e] # "absent",
               JobWork(row, evidence'[j], outbox'[j])
        PROVE  WorkInv'
    <3>1. /\ jobs' = [jobs EXCEPT ![j] = row]
          /\ proc' = [Outdated(proc, j) EXCEPT ![Desk] = Rest]
      BY <2>4 DEF Write
    <3>2. \A q \in Process \ {Desk} : Waits(q)
      BY <1>1, <3>1, OthersWait
    <3>3. proc'[Desk].pc # "finish"
      BY <1>1, <3>1 DEF Outdated, Rest
    <3> QED BY <1>1, <1>2, <2>2, <2>3, <2>4, <3>1, <3>2, <3>3, RowWork
  <2>5. CASE Approve
    <3> DEFINE old == Moved(jobs[j], "implementation_approved")
               row == [old EXCEPT !.approval = jobs[j].pinned,
                                  !.ready = @ \ {"implementation"}]
    <3>1. /\ Write(Desk, row, Rest)
          /\ outbox' = [outbox EXCEPT ![j]["prepare_implementation"] = "due"]
      BY <2>2, <2>5 DEF Approve
    <3>2. /\ "implementation_approved" \in DOMAIN TargetOf
          /\ TargetOf["implementation_approved"] = "queued_implementation"
      BY DEF TargetOf
    <3>3. old \in Row /\ old.status = "queued_implementation"
      BY <2>2, <3>2, MovedRow
    <3> HIDE DEF old
    <3>4. row.status = "queued_implementation"
      BY <3>3 DEF Row
    <3> HIDE DEF row
    <3>5. /\ \A k \in Job \ {j} : outbox'[k] = outbox[k]
          /\ \A e \in Event : outbox'[j][e] =
               IF e = "prepare_implementation" THEN "due" ELSE outbox[j][e]
      BY <2>2, <3>1 DEF IInv, TypeOK
    <3>6. JobWork(row, evidence'[j], outbox'[j])
      <4>1. outbox[j]["publish"] = "absent"
        BY <2>2 DEF WorkInv, JobWork, BeforeApproval, BeforeDelivery
      <4>2. /\ outbox'[j]["publish"] = "absent"
            /\ outbox'[j]["prepare_implementation"] = "due"
        BY <3>5, <4>1 DEF Event, PrepareEvent
      <4> QED BY <3>4, <4>2, PhaseValues
          DEF JobWork, BeforeApproval, Awaited, Absent
    <3>7. \A e \in Event : outbox[j][e] # "absent" => outbox'[j][e] # "absent"
      BY <3>5
    <3> QED BY <2>4, <3>1, <3>5, <3>6, <3>7
  <2>6. CASE BaseMoved
    <3> DEFINE row == Moved(jobs[j], "mark_stale")
    <3>1. Write(Desk, row, Rest) /\ UNCHANGED outbox
      BY <2>2, <2>6 DEF BaseMoved
    <3>2. "mark_stale" \in DOMAIN TargetOf /\ TargetOf["mark_stale"] = "stale"
      BY DEF TargetOf
    <3>3. row.status = "stale"
      BY <2>2, <3>2, MovedRow
    <3> HIDE DEF row
    <3>4. JobWork(row, evidence'[j], outbox'[j])
      BY <3>3, OverWork
    <3> QED BY <2>4, <3>1, <3>4
  <2> QED BY <1>4, <2>5, <2>6
<1> QED BY <1>3, <1>4

-----------------------------------------------------------------------------
(* The dispatcher.                                                         *)

(* The dispatcher moves while the rows and the events stay as they are.    *)
LEMMA DispatcherQuietWork ==
  ASSUME IInv, WorkInv, UNCHANGED <<jobs, outbox, evidence>>,
         NEW next \in ProcessState(Dispatcher),
         proc' = [proc EXCEPT ![Dispatcher] = next],
         DispatcherWork(next, jobs[next.job], outbox[next.job])
  PROVE  WorkInv'
<1>1. Dispatcher \in Process /\ Dispatcher \notin Slots
  BY ConstantsAssumption DEF Process
<1>2. \A q \in Process \ {Dispatcher} : Waits(q)
  BY <1>1, OthersWait
<1>3. proc'[Dispatcher] = next
  BY <1>1 DEF IInv, TypeOK
<1> QED BY <1>1, <1>2, <1>3, SameIsKept, QuietWork DEF Process

(* An event is taken up while it is due.                                   *)
LEMMA StartWork ==
  ASSUME IInv, WorkInv,
         \/ \E j \in Job, e \in Event : StartPrepare(j, e)
         \/ \E j \in Job : StartPublish(j)
  PROVE  WorkInv'
<1>1. Rest \in ProcessState(Dispatcher) /\ LabelOf(Dispatcher) = DispatcherLabel
  BY RestFits, DispatcherFacts
<1>2. \A j \in Job : j \in 0 .. NumJobs /\ j # 0
  BY ConstantsAssumption DEF Job
<1>3. ASSUME NEW j \in Job, NEW e \in Event, StartPrepare(j, e)
      PROVE  WorkInv'
  <2> DEFINE next == [Rest EXCEPT !.pc = "preparing", !.job = j, !.event = e]
  <2>1. /\ proc' = [proc EXCEPT ![Dispatcher] = next]
        /\ e \in PrepareEvent /\ outbox[j][e] = "due"
        /\ UNCHANGED <<jobs, outbox, evidence>>
    BY <1>3 DEF StartPrepare
  <2>2. /\ next \in ProcessState(Dispatcher)
        /\ next.pc = "preparing" /\ next.job = j /\ next.event = e
    BY <1>1, <1>2, <2>1 DEF ProcessState, DispatcherLabel, Rest
  <2> HIDE DEF next
  <2>3. DispatcherWork(next, jobs[next.job], outbox[next.job])
    BY <2>1, <2>2 DEF DispatcherWork
  <2> QED BY <2>1, <2>2, <2>3, DispatcherQuietWork
<1>4. ASSUME NEW j \in Job, StartPublish(j)
      PROVE  WorkInv'
  <2> DEFINE next == [Rest EXCEPT !.pc = "verify", !.job = j, !.fresh = TRUE,
                                  !.event = "publish"]
  <2>1. /\ proc' = [proc EXCEPT ![Dispatcher] = next]
        /\ outbox[j]["publish"] = "due"
        /\ UNCHANGED <<jobs, outbox, evidence>>
    BY <1>4 DEF StartPublish
  <2>2. /\ next \in ProcessState(Dispatcher)
        /\ next.pc = "verify" /\ next.job = j /\ next.event = "publish"
    BY <1>1, <1>2, <2>1
    DEF ProcessState, DispatcherLabel, Rest, Event, PrepareEvent, NoEvent
  <2> HIDE DEF next
  <2>3. DispatcherWork(next, jobs[next.job], outbox[next.job])
    BY <2>1, <2>2 DEF DispatcherWork
  <2> QED BY <2>1, <2>2, <2>3, DispatcherQuietWork
<1> QED BY <1>3, <1>4

(* It reads the row of its event, or goes on with a publication.           *)
LEMMA DispatcherReadWork ==
  ASSUME IInv, WorkInv, ReadPrepared \/ ResumePublish
  PROVE  WorkInv'
<1> DEFINE st == proc[Dispatcher]
<1>1. /\ st \in ProcessState(Dispatcher) /\ st.fresh \in BOOLEAN
      /\ DispatcherWork(st, jobs[st.job], outbox[st.job])
      /\ UNCHANGED <<jobs, outbox, evidence>>
  BY DispatcherFacts DEF WorkInv, RowOf, ReadPrepared, ResumePublish, ProcessState
<1>2. CASE ReadPrepared
  <2> DEFINE next == Stepped(Dispatcher, "prepared", TRUE)
  <2>1. At(Dispatcher, "preparing") /\ proc' = [proc EXCEPT ![Dispatcher] = next]
    BY <1>2 DEF ReadPrepared, ReadThen, Stepped
  <2>2. /\ next \in ProcessState(Dispatcher)
        /\ next.pc = "prepared" /\ next.job = st.job
    BY <2>1, DispatcherState DEF At
  <2>3. next.event = st.event
    BY <1>1 DEF ProcessState, Stepped
  <2> HIDE DEF next
  <2>4. DispatcherWork(next, jobs[next.job], outbox[next.job])
    BY <1>1, <2>1, <2>2, <2>3 DEF DispatcherWork, At
  <2> QED BY <1>1, <2>1, <2>2, <2>4, DispatcherQuietWork
<1>3. CASE ResumePublish
  <2> DEFINE next == Stepped(Dispatcher, "push", st.fresh)
  <2>1. At(Dispatcher, "verify") /\ proc' = [proc EXCEPT ![Dispatcher].pc = "push"]
    BY <1>3 DEF ResumePublish
  <2>2. proc' = [proc EXCEPT ![Dispatcher] = next]
    BY <1>1, <2>1 DEF ProcessState, Stepped
  <2>3. /\ next \in ProcessState(Dispatcher)
        /\ next.pc = "push" /\ next.job = st.job
    BY <1>1, <2>1, DispatcherState DEF At
  <2>4. next.event = st.event
    BY <1>1 DEF ProcessState, Stepped
  <2> HIDE DEF next
  <2>5. DispatcherWork(next, jobs[next.job], outbox[next.job])
    BY <1>1, <2>1, <2>3, <2>4 DEF DispatcherWork, At
  <2> QED BY <1>1, <2>2, <2>3, <2>5, DispatcherQuietWork
<1> QED BY <1>2, <1>3

(* The dispatcher writes the row of its event.                             *)
LEMMA DispatcherRowWork ==
  ASSUME IInv, WorkInv, UNCHANGED <<outbox, evidence>>,
         proc[Dispatcher].job \in Job, NEW row,
         NEW next \in ProcessState(Dispatcher), next.job = proc[Dispatcher].job,
         Write(Dispatcher, row, next),
         JobWork(row, evidence[proc[Dispatcher].job],
                 outbox[proc[Dispatcher].job]),
         DispatcherWork(next, row, outbox[proc[Dispatcher].job])
  PROVE  WorkInv'
<1> DEFINE j == proc[Dispatcher].job
<1>1. Dispatcher \in Process /\ Dispatcher \notin Slots
  BY ConstantsAssumption DEF Process
<1>2. /\ jobs' = [jobs EXCEPT ![j] = row]
      /\ proc' = [Outdated(proc, j) EXCEPT ![Dispatcher] = next]
  BY DEF Write
<1>3. \A k \in Job : jobs'[k] = IF k = j THEN row ELSE jobs[k]
  BY <1>2 DEF IInv, TypeOK
<1>4. \A s \in Slots : Waits(s)
  BY <1>1, <1>2, OthersWait DEF Process
<1>5. proc'[Dispatcher] = next
  BY <1>1, <1>2 DEF Outdated
<1>6. \A k \in Job : \/ jobs'[k] = jobs[k] /\ outbox'[k] = outbox[k]
                     \/ JobWork(jobs'[k], evidence'[k], outbox'[k])
  BY <1>3
<1>7. DispatcherWork(proc'[Dispatcher], jobs'[proc'[Dispatcher].job],
                     outbox'[proc'[Dispatcher].job])
  BY <1>3, <1>5
<1> QED BY <1>4, <1>6, <1>7, SameIsKept, WorkStep

(* The workspace is ready before the event is completed.                   *)
LEMMA MarkReadyWork ==
  ASSUME IInv, WorkInv, MarkReady
  PROVE  WorkInv'
<1> DEFINE st   == proc[Dispatcher]
           j    == st.job
           row  == [jobs[j] EXCEPT !.ready = @ \cup {EventPhase[st.event]}]
           next == Stepped(Dispatcher, "settle", FALSE)
<1>1. st.pc = "prepared" /\ UNCHANGED <<outbox, evidence>>
  BY DEF MarkReady, At
<1>2. /\ j \in Job /\ jobs[j] \in Row /\ RowOf(Dispatcher) = jobs[j]
      /\ st \in ProcessState(Dispatcher)
      /\ st.event \in PrepareEvent
  BY <1>1, DispatcherFacts DEF ProcessState
<1>3. Write(Dispatcher, row, next)
  BY <1>2 DEF MarkReady, Stepped
<1>4. /\ row.status = jobs[j].status /\ row.retryPhase = jobs[j].retryPhase
      /\ row.pinned = jobs[j].pinned /\ row.approval = jobs[j].approval
      /\ row.ready = jobs[j].ready \cup {EventPhase[st.event]}
  BY <1>2 DEF Row
<1> HIDE DEF row
<1>5. JobWork(row, evidence[j], outbox[j])
  <2>1. JobWork(jobs[j], evidence[j], outbox[j])
    BY <1>2 DEF WorkInv
  <2> QED BY <1>4, <2>1 DEF JobWork, BeforeApproval, BeforeDelivery
<1>6. /\ next \in ProcessState(Dispatcher) /\ next.job = j
      /\ next.pc = "settle"
  BY <1>1, DispatcherState
<1>7. next.event = st.event
  BY <1>2 DEF ProcessState, Stepped
<1> HIDE DEF next
<1>8. DispatcherWork(next, row, outbox[j])
  <2>1. outbox[j][st.event] # "absent"
    BY <1>1 DEF WorkInv, DispatcherWork
  <2> QED BY <1>2, <1>4, <1>6, <1>7, <2>1 DEF DispatcherWork
<1> QED BY <1>1, <1>2, <1>3, <1>5, <1>6, <1>8, DispatcherRowWork

(* A publication ends with the job completed or stale.                     *)
LEMMA PublicationWork ==
  ASSUME IInv, WorkInv, BeginPublish \/ MarkStale \/ PublishComplete
  PROVE  WorkInv'
<1> DEFINE st     == proc[Dispatcher]
           j      == st.job
           settle == Stepped(Dispatcher, "settle", FALSE)
           push   == Stepped(Dispatcher, "push", TRUE)
<1>1. /\ st.pc \in {"verify", "push"} /\ st.fresh = TRUE
      /\ UNCHANGED <<outbox, evidence>>
  <2>1. st.pc \in {"verify", "push"} /\ st.fresh
    BY DEF BeginPublish, MarkStale, PublishComplete, At, Unchanged
  <2>2. st.fresh \in BOOLEAN
    BY DispatcherFacts DEF ProcessState
  <2> QED BY <2>1, <2>2 DEF BeginPublish, MarkStale, PublishComplete
<1>2. /\ j \in Job /\ jobs[j] \in Row /\ RowOf(Dispatcher) = jobs[j]
      /\ st \in ProcessState(Dispatcher)
      /\ jobs[j].status \in {"ready_to_publish", "publishing"}
      /\ st.pc = "push" => jobs[j].status = "publishing"
  BY <1>1, DispatcherFacts DEF ActsOn
<1>3. /\ st.event = "publish" /\ outbox[j]["publish"] # "absent"
      /\ Awaited(outbox[j], "publish") /\ evidence[j].draft
  BY <1>1, <1>2 DEF WorkInv, DispatcherWork, JobWork
<1>4. /\ settle \in ProcessState(Dispatcher) /\ settle.job = j
      /\ settle.pc = "settle"
      /\ push \in ProcessState(Dispatcher) /\ push.job = j /\ push.pc = "push"
  BY <1>1, DispatcherState
<1>5. settle.event = st.event /\ push.event = st.event
  BY <1>2 DEF ProcessState, Stepped
<1>6. /\ push = [st EXCEPT !.pc = "push"]
      /\ settle = [st EXCEPT !.pc = "settle", !.fresh = FALSE]
  BY <1>1, <1>2 DEF ProcessState, Stepped
<1>7. "publish" \notin PrepareEvent
  BY DEF PrepareEvent
<1>8. /\ {"begin_publish", "mark_stale", "publish_complete"} \subseteq
           DOMAIN TargetOf
      /\ TargetOf["begin_publish"] = "publishing"
      /\ TargetOf["mark_stale"] = "stale"
      /\ TargetOf["publish_complete"] = "completed"
  BY DEF TargetOf
<1> HIDE DEF settle, push
<1>9. CASE BeginPublish
  <2> DEFINE row == Moved(jobs[j], "begin_publish")
  <2>1. Write(Dispatcher, row, push)
    BY <1>2, <1>6, <1>9 DEF BeginPublish
  <2>2. row.status = "publishing"
    BY <1>2, <1>8, MovedRow
  <2> HIDE DEF row
  <2>3. JobWork(row, evidence[j], outbox[j])
    BY <1>3, <2>2, PhaseValues DEF JobWork, BeforeApproval, BeforeDelivery, Absent
  <2>4. DispatcherWork(push, row, outbox[j])
    BY <1>3, <1>4, <1>5 DEF DispatcherWork
  <2> QED BY <1>1, <1>2, <1>4, <2>1, <2>3, <2>4, DispatcherRowWork
<1>10. CASE MarkStale
  <2> DEFINE row == Moved(jobs[j], "mark_stale")
  <2>1. Write(Dispatcher, row, settle)
    BY <1>2, <1>6, <1>10 DEF MarkStale
  <2>2. row.status = "stale"
    BY <1>2, <1>8, MovedRow
  <2> HIDE DEF row
  <2>3. JobWork(row, evidence[j], outbox[j])
    BY <2>2, OverWork
  <2>4. DispatcherWork(settle, row, outbox[j])
    BY <1>3, <1>4, <1>5, <1>7, <2>2 DEF DispatcherWork
  <2> QED BY <1>1, <1>2, <1>4, <2>1, <2>3, <2>4, DispatcherRowWork
<1>11. CASE PublishComplete
  <2> DEFINE row == Unowned(Moved(jobs[j], "publish_complete"))
  <2>1. Write(Dispatcher, row, settle)
    BY <1>2, <1>6, <1>11 DEF PublishComplete
  <2>2. row.status = "completed"
    BY <1>2, <1>8, MovedRow
  <2> HIDE DEF row
  <2>3. JobWork(row, evidence[j], outbox[j])
    BY <1>3, <2>2, PhaseValues DEF JobWork, BeforeApproval, BeforeDelivery, Absent
  <2>4. DispatcherWork(settle, row, outbox[j])
    BY <1>3, <1>4, <1>5, <1>7, <2>2 DEF DispatcherWork
  <2> QED BY <1>1, <1>2, <1>4, <2>1, <2>3, <2>4, DispatcherRowWork
<1> QED BY <1>9, <1>10, <1>11

-----------------------------------------------------------------------------
(* Events are settled, processes stop, leases run out.                     *)

(* An event that is due is settled: what it brings is there, or nobody     *)
(* waits for it, or it becomes a dead letter.                              *)
LEMMA SettledWork ==
  ASSUME IInv, WorkInv, UNCHANGED <<jobs, evidence>>,
         NEW j \in Job, NEW e \in Event, NEW result \in {"sent", "dead"},
         outbox' = [outbox EXCEPT ![j][e] = result],
         outbox[j][e] # "absent",
         \/ result = "dead"
         \/ e \in PrepareEvent /\ EventPhase[e] \in jobs[j].ready
         \/ e = "publish" /\ jobs[j].status \notin {"ready_to_publish", "publishing"}
  PROVE  /\ \A k \in Job : \/ jobs'[k] = jobs[k] /\ outbox'[k] = outbox[k]
                           \/ JobWork(jobs'[k], evidence'[k], outbox'[k])
         /\ \A k \in Job, d \in Event :
              outbox[k][d] # "absent" => outbox'[k][d] # "absent"
         /\ EvidenceKept
<1>1. /\ \A k \in Job \ {j} : outbox'[k] = outbox[k]
      /\ \A d \in Event : outbox'[j][d] = IF d = e THEN result ELSE outbox[j][d]
  BY DEF IInv, TypeOK
<1>2. JobWork(jobs[j], evidence[j], outbox[j])
  BY DEF WorkInv
<1>3. /\ outbox'[j]["prepare_implementation"] =
           IF "prepare_implementation" = e THEN result
           ELSE outbox[j]["prepare_implementation"]
      /\ outbox'[j]["prepare_plan"] =
           IF "prepare_plan" = e THEN result ELSE outbox[j]["prepare_plan"]
      /\ outbox'[j]["prepare_reply"] =
           IF "prepare_reply" = e THEN result ELSE outbox[j]["prepare_reply"]
      /\ outbox'[j]["publish"] =
           IF "publish" = e THEN result ELSE outbox[j]["publish"]
  BY <1>1 DEF Event, PrepareEvent
<1>4. /\ EventPhase["prepare_plan"] = "plan"
      /\ EventPhase["prepare_reply"] = "plan"
      /\ EventPhase["prepare_implementation"] = "implementation"
  BY DEF EventPhase
<1>5. BeforeApproval(jobs[j]) => outbox'[j]["prepare_implementation"] = "absent"
  BY <1>2, <1>3 DEF JobWork
<1>6. BeforeDelivery(jobs[j]) => outbox'[j]["publish"] = "absent"
  BY <1>2, <1>3 DEF JobWork
<1>7. jobs[j].status = "queued_plan" /\ "plan" \notin jobs[j].ready =>
        Awaited(outbox'[j], "prepare_plan") \/ Awaited(outbox'[j], "prepare_reply")
  BY <1>2, <1>3, <1>4 DEF JobWork, Awaited
<1>8. /\ jobs[j].status = "queued_implementation"
      /\ "implementation" \notin jobs[j].ready
      => Awaited(outbox'[j], "prepare_implementation")
  BY <1>2, <1>3, <1>4 DEF JobWork, Awaited
<1>9. jobs[j].status \in {"ready_to_publish", "publishing"} =>
        Awaited(outbox'[j], "publish")
  BY <1>2, <1>3 DEF JobWork, Awaited, PrepareEvent
<1>10. JobWork(jobs[j], evidence[j], outbox'[j])
  BY <1>2, <1>5, <1>6, <1>7, <1>8, <1>9 DEF JobWork
<1>11. \A k \in Job, d \in Event :
         outbox[k][d] # "absent" => outbox'[k][d] # "absent"
  BY <1>1
<1> QED BY <1>1, <1>10, <1>11, SameIsKept

(* A publish event that is refused, and an event that is given up.         *)
LEMMA RefuseWork ==
  ASSUME IInv, WorkInv,
         \/ \E j \in Job : RefusePublish(j)
         \/ \E j \in Job, e \in Event : GiveUp(j, e)
  PROVE  WorkInv'
<1>1. UNCHANGED <<jobs, proc, evidence>>
  BY DEF RefusePublish, GiveUp
<1>2. \E j \in Job, e \in Event, result \in {"sent", "dead"} :
        /\ outbox' = [outbox EXCEPT ![j][e] = result]
        /\ outbox[j][e] # "absent"
        /\ \/ result = "dead"
           \/ e = "publish" /\ jobs[j].status \notin {"ready_to_publish", "publishing"}
  <2>1. ASSUME NEW j \in Job, RefusePublish(j)
        PROVE  \E result \in {"sent", "dead"} :
                 /\ outbox' = [outbox EXCEPT ![j]["publish"] = result]
                 /\ outbox[j]["publish"] # "absent"
                 /\ jobs[j].status \notin {"ready_to_publish", "publishing"}
    BY <2>1 DEF RefusePublish, Deliver
  <2>2. ASSUME NEW j \in Job, NEW e \in Event, GiveUp(j, e)
        PROVE  /\ outbox' = [outbox EXCEPT ![j][e] = "dead"]
               /\ outbox[j][e] # "absent"
    BY <2>2 DEF GiveUp, Deliver
  <2>3. "publish" \in Event
    BY DEF Event
  <2> QED BY <2>1, <2>2, <2>3
<1>3. /\ \A k \in Job : \/ jobs'[k] = jobs[k] /\ outbox'[k] = outbox[k]
                        \/ JobWork(jobs'[k], evidence'[k], outbox'[k])
      /\ \A k \in Job, d \in Event :
           outbox[k][d] # "absent" => outbox'[k][d] # "absent"
      /\ EvidenceKept
  BY <1>1, <1>2, SettledWork
<1>4. DeliveryKept
  BY <1>1, <1>3 DEF DeliveryKept, Waits
<1>5. \A s \in Slots : Waits(s)
  BY <1>1 DEF Waits
<1> QED BY <1>3, <1>4, <1>5, WorkStep

(* An event is completed when what it asks for is done.                    *)
LEMMA CompleteWork ==
  ASSUME IInv, WorkInv, CompleteEvent
  PROVE  WorkInv'
<1> DEFINE j == proc[Dispatcher].job
           e == proc[Dispatcher].event
<1>1. /\ proc[Dispatcher].pc = "settle" /\ Leave(Dispatcher)
      /\ UNCHANGED <<jobs, evidence>>
      /\ outbox' = [outbox EXCEPT ![j][e] = "sent"]
  BY DEF CompleteEvent, At, Deliver
<1>2. /\ j \in Job /\ e \in Event
      /\ Dispatcher \in Process /\ Dispatcher \notin Slots
  BY <1>1, DispatcherFacts, ConstantsAssumption DEF ProcessState
<1>3. /\ outbox[j][e] # "absent"
      /\ \/ e \in PrepareEvent /\ EventPhase[e] \in jobs[j].ready
         \/ e = "publish" /\ jobs[j].status \notin {"ready_to_publish", "publishing"}
  BY <1>1 DEF WorkInv, DispatcherWork, RowOf
<1>4. /\ \A k \in Job : \/ jobs'[k] = jobs[k] /\ outbox'[k] = outbox[k]
                        \/ JobWork(jobs'[k], evidence'[k], outbox'[k])
      /\ EvidenceKept
  BY <1>1, <1>2, <1>3, SettledWork
<1>5. proc' = [proc EXCEPT ![Dispatcher] = Rest]
  BY <1>1 DEF Leave
<1>6. proc'[Dispatcher] = Rest
  BY <1>2, <1>5 DEF IInv, TypeOK
<1>7. DispatcherWork(proc'[Dispatcher], jobs'[proc'[Dispatcher].job],
                     outbox'[proc'[Dispatcher].job])
  BY <1>6 DEF DispatcherWork, Rest
<1>8. \A s \in Slots : Waits(s)
  BY <1>2, <1>5, OthersWait DEF Process
<1> QED BY <1>4, <1>7, <1>8, WorkStep

(* A process that stops has nothing to finish; its job and its event stay  *)
(* as they are.                                                            *)
LEMMA StopWork ==
  ASSUME IInv, WorkInv,
         \/ DispatchConflict \/ CrashControl
         \/ \E w \in Worker : CrashWorker(w) \/ RestartWorker(w)
  PROVE  WorkInv'
<1>1. /\ UNCHANGED <<jobs, outbox, evidence>>
      /\ proc' = ControlStopped \/ \E w \in Worker : proc' = Stopped(w)
  BY DEF DispatchConflict, CrashControl, CrashWorker, RestartWorker
<1>2. \A p \in Process : proc'[p] \in {proc[p], Rest}
  BY <1>1 DEF ControlStopped, Stopped
<1>3. \A p \in Process : Waits(p) \/ proc'[p] = Rest
  BY <1>2 DEF Waits
<1>4. ASSUME NEW s \in Slots
      PROVE  Waits(s) \/ FinishWork(s, proc'[s], evidence'[proc'[s].job])
  BY <1>3 DEF Process, FinishWork, Rest
<1>5. \/ Waits(Dispatcher)
      \/ DispatcherWork(proc'[Dispatcher], jobs[proc'[Dispatcher].job],
                        outbox[proc'[Dispatcher].job])
  BY <1>3 DEF Process, DispatcherWork, Rest
<1> QED BY <1>1, <1>4, <1>5, SameIsKept, QuietWork

(* The work of a job does not depend on its lease.                         *)
LEMMA ExpireWork ==
  ASSUME IInv, WorkInv, NEW j \in Job, Expire(j)
  PROVE  WorkInv'
<1> DEFINE row == [jobs[j] EXCEPT !.live = FALSE]
<1>1. /\ jobs' = [jobs EXCEPT ![j] = row]
      /\ UNCHANGED <<proc, outbox, evidence>>
  BY DEF Expire
<1>2. /\ row.status = jobs[j].status /\ row.ready = jobs[j].ready
      /\ row.retryPhase = jobs[j].retryPhase
      /\ row.pinned = jobs[j].pinned /\ row.approval = jobs[j].approval
  BY RowFacts DEF Row
<1> HIDE DEF row
<1>3. JobWork(row, evidence[j], outbox[j])
  <2>1. JobWork(jobs[j], evidence[j], outbox[j])
    BY DEF WorkInv
  <2> QED BY <1>2, <2>1, SameWork
<1>4. \A k \in Job : jobs'[k] = IF k = j THEN row ELSE jobs[k]
  BY <1>1 DEF IInv, TypeOK
<1>5. DeliveryKept
  BY <1>1, <1>2, <1>4 DEF DeliveryKept, Waits
<1>6. \A s \in Slots : Waits(s)
  BY <1>1 DEF Waits
<1>7. \A k \in Job : \/ jobs'[k] = jobs[k] /\ outbox'[k] = outbox[k]
                     \/ JobWork(jobs'[k], evidence'[k], outbox'[k])
  BY <1>1, <1>3, <1>4
<1> QED BY <1>1, <1>5, <1>6, <1>7, SameIsKept, WorkStep

-----------------------------------------------------------------------------
(* The invariant.                                                          *)

(* An empty table has no work.                                             *)
LEMMA InitWork == Init => WorkInv
<1> SUFFICES ASSUME Init PROVE WorkInv
  OBVIOUS
<1>1. /\ NewRow.status = Absent /\ NewRow.pinned = 0 /\ NewRow.approval = 0
  BY DEF NewRow
<1>2. \A j \in Job : JobWork(jobs[j], evidence[j], outbox[j])
  BY <1>1, PhaseValues DEF Init, JobWork, Absent, Event, PrepareEvent
<1>3. \A p \in Process : proc[p].pc = "idle"
  BY DEF Init, Rest
<1> QED BY <1>2, <1>3 DEF WorkInv, FinishWork, DispatcherWork, Process

(* Every step of the specification keeps the work scheduled.               *)
LEMMA NextWork == IInv /\ WorkInv /\ [Next]_vars => WorkInv'
<1> SUFFICES ASSUME IInv, WorkInv, [Next]_vars
             PROVE  WorkInv'
  OBVIOUS
<1>1. ASSUME NEW s \in Slots, SlotStep(s)
      PROVE  WorkInv'
  BY <1>1, ClaimWork, BeginWork, SlotMovesWork, ArtifactWork, RunWriteWork,
     FinishPlanWork, FinishImplementationWork, RunOverWork, ScheduleRetryWork,
     Zenon
  DEF SlotStep
<1>2. CASE DispatcherStep
  BY <1>2, StartWork, DispatcherReadWork, MarkReadyWork, PublicationWork,
     RefuseWork, CompleteWork, StopWork, Zenon
  DEF DispatcherStep
<1>3. CASE MaintainerStep
  BY <1>3, PlanCommandWork, ReplyCommandWork, RetryCommandWork,
     CancelCommandWork, DeskWork, Zenon
  DEF MaintainerStep
<1>4. CASE FaultStep
  BY <1>4, StopWork, RefuseWork, Zenon DEF FaultStep
<1>5. CASE \E w \in Worker : RestartWorker(w)
  BY <1>5, StopWork
<1>6. CASE \E j \in Job : Expire(j)
  BY <1>6, ExpireWork
<1>7. CASE UNCHANGED vars
  BY <1>7, SameIsKept, QuietWork DEF vars, Waits
<1> QED BY <1>1, <1>2, <1>3, <1>4, <1>5, <1>6, <1>7 DEF Next

(* Both invariants hold in every state that can be reached.                *)
LEMMA WorkInvariance == Spec => [](IInv /\ WorkInv)
BY InitIInv, NextIInv, InitWork, NextWork, PTL DEF Spec

(* Nothing becomes ready to publish, is published or completed without the *)
(* delivery draft of its Agent: the slot that finishes has seen it, and no *)
(* later run, retry or crash takes it away.                                *)
THEOREM DeliveriesHaveDrafts == Spec => []DraftBeforeDelivery
<1>1. WorkInv => DraftBeforeDelivery
  BY DEF WorkInv, JobWork, DraftBeforeDelivery
<1> QED BY <1>1, WorkInvariance, PTL

(* The job table and the outbox never lose work between them: a queued job *)
(* without its workspace has a prepare event, and a finished delivery its  *)
(* publish event, due or given up, in spite of crashes of Control between  *)
(* a write and the completion of the event.                                *)
THEOREM WorkStaysScheduled == Spec => []WorkIsScheduled
<1>1. WorkInv => WorkIsScheduled
  BY DEF WorkInv, JobWork, WorkIsScheduled, Awaited, Outstanding
<1> QED BY <1>1, WorkInvariance, PTL

(* The fixed idempotency keys of the approval and the delivery are unused  *)
(* when the write that inserts them comes, after any number of retries.    *)
THEOREM KeysAreFresh == Spec => []KeysUnused
<1>1. WorkInv => KeysUnused
  BY DEF WorkInv, JobWork, KeysUnused, BeforeApproval, BeforeDelivery
<1> QED BY <1>1, WorkInvariance, PTL

-----------------------------------------------------------------------------
(***************************************************************************)
(* The third part: the job table implements the promise to the maintainers *)
(* (JobPromise).  The empty table maps to the empty promise, and every     *)
(* step of a slot, a command, the dispatcher or a fault maps to one step   *)
(* of the promise or to none.  IInv and WorkInv say in which states the    *)
(* steps are taken.                                                        *)
(***************************************************************************)

(* The stages, written out.                                                *)
LEMMA Stages ==
  ASSUME NEW row
  PROVE  /\ row.status = Absent => StageOf(row) = "unasked"
         /\ row.status \in {"queued_plan", "running_plan"} =>
              StageOf(row) = "planning"
         /\ row.status = "retry_wait" =>
              StageOf(row) = IF row.retryPhase = "plan" THEN "planning"
                             ELSE "building"
         /\ row.status = "blocked_plan" => StageOf(row) = "asking"
         /\ row.status = "waiting_approval" => StageOf(row) = "proposed"
         /\ row.status \in {"queued_implementation", "running_implementation"} =>
              StageOf(row) = "building"
         /\ row.status = "ready_to_publish" => StageOf(row) = "delivered"
         /\ row.status = "publishing" => StageOf(row) = "publishing"
         /\ row.status = "completed" => StageOf(row) = "published"
         /\ row.status = "stale" => StageOf(row) = "outdated"
         /\ row.status = "dead_letter" => StageOf(row) = "failed"
         /\ row.status = "cancelled" => StageOf(row) = "withdrawn"
BY DEF StageOf, Absent

(* A step that keeps the stage, the offer and the agreement of every job.  *)
LEMMA Stutters ==
  ASSUME \A k \in Job : /\ StageOf(jobs'[k]) = StageOf(jobs[k])
                        /\ jobs'[k].pinned = jobs[k].pinned
                        /\ jobs'[k].approval = jobs[k].approval
  PROVE  UNCHANGED Promise!vars
BY DEF Promise!vars

(* The mapped variables after row j was written.                           *)
LEMMA Mapped ==
  ASSUME IInv, NEW j \in Job, NEW row,
         jobs' = [jobs EXCEPT ![j] = row]
  PROVE  /\ [k \in Job |-> StageOf(jobs'[k])] =
              [[k \in Job |-> StageOf(jobs[k])] EXCEPT ![j] = StageOf(row)]
         /\ [k \in Job |-> jobs'[k].pinned] =
              [[k \in Job |-> jobs[k].pinned] EXCEPT ![j] = row.pinned]
         /\ [k \in Job |-> jobs'[k].approval] =
              [[k \in Job |-> jobs[k].approval] EXCEPT ![j] = row.approval]
BY DEF IInv, TypeOK

(* Row j is written and nothing of it is seen.                             *)
LEMMA RowStutters ==
  ASSUME IInv, NEW j \in Job, NEW row, jobs' = [jobs EXCEPT ![j] = row],
         row.pinned = jobs[j].pinned, row.approval = jobs[j].approval,
         StageOf(row) = StageOf(jobs[j])
  PROVE  UNCHANGED Promise!vars
<1>1. \A k \in Job : jobs'[k] = IF k = j THEN row ELSE jobs[k]
  BY DEF IInv, TypeOK
<1> QED BY <1>1, Stutters

(* The moves of the promise that change neither offer nor agreement.       *)
Onward(from, to) ==
  \/ from = "asking" /\ to = "planning"
  \/ from = "building" /\ to = "delivered"
  \/ from = "delivered" /\ to = "publishing"
  \/ from = "publishing" /\ to = "published"
  \/ from \in {"proposed", "delivered", "publishing"} /\ to = "outdated"
  \/ from \in {"planning", "building"} /\ to = "failed"
  \/ /\ from \in {"planning", "asking", "proposed", "building", "delivered"}
     /\ to = "withdrawn"

(* Row j is written and its stage goes on.                                 *)
LEMMA RowMovesOn ==
  ASSUME IInv, NEW j \in Job, NEW row, jobs' = [jobs EXCEPT ![j] = row],
         row.pinned = jobs[j].pinned, row.approval = jobs[j].approval,
         Onward(StageOf(jobs[j]), StageOf(row))
  PROVE  Promise!Next
<1> DEFINE stage  == [k \in Job |-> StageOf(jobs[k])]
           stage1 == [k \in Job |-> StageOf(jobs'[k])]
<1>1. /\ stage[j] = StageOf(jobs[j])
      /\ stage1 = [stage EXCEPT ![j] = StageOf(row)]
      /\ [k \in Job |-> jobs'[k].pinned] = [k \in Job |-> jobs[k].pinned]
      /\ [k \in Job |-> jobs'[k].approval] = [k \in Job |-> jobs[k].approval]
  <2>1. stage1 = [stage EXCEPT ![j] = StageOf(row)]
    BY Mapped
  <2>2. \A k \in Job : /\ jobs'[k].pinned = jobs[k].pinned
                       /\ jobs'[k].approval = jobs[k].approval
    BY DEF IInv, TypeOK
  <2> QED BY <2>1, <2>2
<1>2. \/ Promise!Answer(j) \/ Promise!Deliver(j) \/ Promise!BeginPublish(j)
      \/ Promise!Publish(j) \/ Promise!Outdate(j) \/ Promise!Fail(j)
      \/ Promise!Withdraw(j)
  BY <1>1
  DEF Onward, Promise!Becomes, Promise!Answer, Promise!Deliver,
      Promise!BeginPublish, Promise!Publish, Promise!Outdate, Promise!Fail,
      Promise!Withdraw
<1> QED BY <1>2 DEF Promise!Next

(* An empty table promises nothing.                                        *)
LEMMA InitMaps == Init => Promise!Init
<1>1. NewRow.status = Absent /\ NewRow.pinned = 0 /\ NewRow.approval = 0
  BY DEF NewRow
<1>2. StageOf(NewRow) = "unasked"
  BY <1>1, Stages
<1> QED BY <1>1, <1>2 DEF Init, Promise!Init, Promise!NoPlan

-----------------------------------------------------------------------------
(* Every step, as the maintainers see it.                                  *)

Seen == Promise!Next \/ UNCHANGED Promise!vars

(* A trigger that leads a job onward, whether its lease ends or not.       *)
LEMMA TriggerMaps ==
  ASSUME IInv, NEW j \in Job, NEW trigger \in DOMAIN TargetOf,
         NEW row \in {Moved(jobs[j], trigger), Unowned(Moved(jobs[j], trigger))},
         jobs' = [jobs EXCEPT ![j] = row], NEW to,
         TargetOf[trigger] = "ready_to_publish" => to = "delivered",
         TargetOf[trigger] = "publishing" => to = "publishing",
         TargetOf[trigger] = "completed" => to = "published",
         TargetOf[trigger] = "stale" => to = "outdated",
         TargetOf[trigger] = "dead_letter" => to = "failed",
         TargetOf[trigger] = "cancelled" => to = "withdrawn",
         TargetOf[trigger] \in {"ready_to_publish", "publishing", "completed",
                                "stale", "dead_letter", "cancelled"},
         Onward(StageOf(jobs[j]), to)
  PROVE  Seen
<1>1. /\ row.status = TargetOf[trigger]
      /\ row.pinned = jobs[j].pinned /\ row.approval = jobs[j].approval
  <2>1. jobs[j] \in Row
    BY RowFacts
  <2>2. CASE row = Moved(jobs[j], trigger)
    BY <2>1, <2>2, MovedRow
  <2>3. CASE row = Unowned(Moved(jobs[j], trigger))
    BY <2>1, <2>3, MovedRow
  <2> QED BY <2>2, <2>3
<1>2. StageOf(row) = to
  BY <1>1, Stages
<1> QED BY <1>1, <1>2, RowMovesOn DEF Seen

(* A claim, also of a job that was running.                                *)
LEMMA ClaimMaps ==
  ASSUME IInv, NEW s \in Slots, NEW j \in Job, Claim(s, j)
  PROVE  Seen
<1> DEFINE row == ClaimedRow(s, jobs[j])
<1>1. jobs' = [jobs EXCEPT ![j] = row] /\ Claimable(s, j)
  BY DEF Claim
<1>2. /\ row.status = Running[PhaseOf[s]]
      /\ row.pinned = jobs[j].pinned /\ row.approval = jobs[j].approval
      /\ jobs[j].status \in {Queued[PhaseOf[s]], Running[PhaseOf[s]]}
      /\ PhaseOf[s] \in Phase
  <2>1. jobs[j] \in Row
    BY RowFacts
  <2> QED BY <1>1, <2>1, ConstantsAssumption DEF ClaimedRow, Row, Claimable
<1> HIDE DEF row
<1>3. StageOf(row) = StageOf(jobs[j])
  <2>1. \/ /\ row.status = "running_plan"
           /\ jobs[j].status \in {"queued_plan", "running_plan"}
        \/ /\ row.status = "running_implementation"
           /\ jobs[j].status \in {"queued_implementation",
                                  "running_implementation"}
    BY <1>2 DEF Phase, Queued, Running
  <2> QED BY <2>1, Stages
<1> QED BY <1>1, <1>2, <1>3, RowStutters DEF Seen

(* What is not written is not seen.                                        *)
LEMMA UnwrittenMaps == UNCHANGED jobs => Seen
BY Stutters DEF Seen

(* The Session, the heartbeat and the progress of a run.                   *)
LEMMA RunWriteMaps ==
  ASSUME IInv, NEW s \in Slots,
         OpenSession(s) \/ Heartbeat(s) \/ RecordProgress(s)
  PROVE  Seen
<1>1. proc[s].pc \notin {"idle", "down"}
  BY DEF OpenSession, Heartbeat, RecordProgress, At
<1>2. /\ proc[s].job \in Job /\ RowOf(s) = jobs[proc[s].job] /\ RowOf(s) \in Row
  BY <1>1, SlotFacts
<1>3. PICK row \in {RowOf(s), [RowOf(s) EXCEPT !.live = TRUE],
                   [RowOf(s) EXCEPT !.session = @ \cup {PhaseOf[s]}]} :
        jobs' = [jobs EXCEPT ![proc[s].job] = row]
  BY DEF OpenSession, Heartbeat, RecordProgress, Write
<1>4. /\ row.status = RowOf(s).status /\ row.retryPhase = RowOf(s).retryPhase
      /\ row.pinned = RowOf(s).pinned /\ row.approval = RowOf(s).approval
  BY <1>2, <1>3 DEF Row
<1>5. StageOf(row) = StageOf(RowOf(s))
  BY <1>4 DEF StageOf
<1> QED BY <1>2, <1>3, <1>4, <1>5, RowStutters DEF Seen

(* Row j is written and offers plan n.                                     *)
LEMMA OfferMaps ==
  ASSUME IInv, NEW j \in Job, NEW n \in 1 .. MaxPlans, NEW row,
         jobs' = [jobs EXCEPT ![j] = row],
         row.pinned = n, row.approval = jobs[j].approval,
         StageOf(jobs[j]) = "planning", StageOf(row) \in {"proposed", "asking"}
  PROVE  Seen
<1> DEFINE stage == [k \in Job |-> StageOf(jobs[k])]
<1>1. /\ [k \in Job |-> StageOf(jobs'[k])] = [stage EXCEPT ![j] = StageOf(row)]
      /\ [k \in Job |-> jobs'[k].pinned] =
           [[k \in Job |-> jobs[k].pinned] EXCEPT ![j] = n]
      /\ stage[j] = "planning"
  BY Mapped
<1>2. [k \in Job |-> jobs'[k].approval] = [k \in Job |-> jobs[k].approval]
  BY DEF IInv, TypeOK
<1>3. Promise!Offer(j, n)
  BY <1>1, <1>2 DEF Promise!Offer, Promise!Becomes
<1> QED BY <1>3 DEF Seen, Promise!Next

(* The plan that is pinned is the one on offer.                            *)
LEMMA FinishPlanMaps ==
  ASSUME IInv, WorkInv, NEW s \in Slots, FinishPlan(s)
  PROVE  Seen
<1> DEFINE j       == proc[s].job
           latest  == Len(evidence[j].plans)
           trigger == IF evidence[j].plans[latest] = "ready" THEN "plan_ready"
                      ELSE "plan_blocked"
           old     == Unowned(Moved(jobs[j], trigger))
           row     == [old EXCEPT !.pinned = latest]
<1>1. /\ proc[s].pc = "finish" /\ proc[s].fresh /\ PhaseOf[s] = "plan"
  BY DEF FinishPlan, At, MayFinish, Fenced
<1>2. /\ j \in Job /\ RowOf(s) = jobs[j] /\ jobs[j] \in Row
      /\ jobs[j].status = "running_plan"
  BY <1>1, SlotFacts, PhaseValues DEF ActsOn
<1>3. latest \in 1 .. MaxPlans
  <2>1. evidence[j].plans # <<>>
    BY <1>1 DEF WorkInv, FinishWork
  <2>2. evidence[j].plans \in Seq(PlanStatus) /\ latest <= MaxPlans
    BY <1>2 DEF IInv, TypeOK, Evidence
  <2>3. latest \in Nat /\ latest # 0
    BY <2>1, <2>2
  <2> QED BY <2>2, <2>3, ConstantsAssumption
<1>4. jobs' = [jobs EXCEPT ![j] = row]
  BY <1>2 DEF FinishPlan, Write
<1>5. /\ trigger \in DOMAIN TargetOf
      /\ TargetOf[trigger] \in {"waiting_approval", "blocked_plan"}
  BY DEF TargetOf
<1>6. /\ old \in Row /\ old.status \in {"waiting_approval", "blocked_plan"}
      /\ old.approval = jobs[j].approval
  BY <1>2, <1>5, MovedRow
<1> HIDE DEF old, latest
<1>7. /\ row.status \in {"waiting_approval", "blocked_plan"}
      /\ row.pinned = latest /\ row.approval = jobs[j].approval
  BY <1>6 DEF Row
<1> HIDE DEF row
<1>8. /\ StageOf(jobs[j]) = "planning"
      /\ StageOf(row) \in {"proposed", "asking"}
  BY <1>2, <1>7, Stages
<1> QED BY <1>2, <1>3, <1>4, <1>7, <1>8, OfferMaps

(* Where a running or a waiting job is seen.                               *)
LEMMA WorkingStage ==
  ASSUME NEW row, row.status \in RunningStatus \cup {"retry_wait"}
  PROVE  StageOf(row) \in {"planning", "building"}
BY PhaseValues, Stages

(* The end of a run: delivered, cancelled by the policy, or buried.        *)
LEMMA RunOverMaps ==
  ASSUME IInv, NEW s \in Slots,
         \/ FinishImplementation(s) \/ TerminateForPolicy(s)
         \/ ExhaustRetries(s)
  PROVE  Seen
<1> DEFINE j == proc[s].job
<1>1. /\ proc[s].pc \notin {"idle", "down"} /\ proc[s].fresh
  BY DEF FinishImplementation, TerminateForPolicy, ExhaustRetries, At, MayFinish,
         Fenced, Unchanged
<1>2. /\ j \in Job /\ RowOf(s) = jobs[j] /\ jobs[j] \in Row
      /\ ActsOn(s, proc[s], jobs[j])
  BY <1>1, SlotFacts
<1>3. /\ {"implementation_ready", "cancel", "exhaust_retries"} \subseteq
           DOMAIN TargetOf
      /\ TargetOf["implementation_ready"] = "ready_to_publish"
      /\ TargetOf["cancel"] = "cancelled"
      /\ TargetOf["exhaust_retries"] = "dead_letter"
  BY DEF TargetOf
<1>4. CASE FinishImplementation(s)
  <2>1. jobs' = [jobs EXCEPT ![j] =
                   Unowned(Moved(jobs[j], "implementation_ready"))]
    BY <1>2, <1>4 DEF FinishImplementation, Write
  <2>2. jobs[j].status = "running_implementation"
    BY <1>1, <1>2, <1>4, PhaseValues DEF FinishImplementation, ActsOn, At
  <2>3. Onward(StageOf(jobs[j]), "delivered")
    BY <2>2, Stages DEF Onward
  <2> QED BY <1>2, <1>3, <2>1, <2>3, TriggerMaps
<1>5. CASE TerminateForPolicy(s)
  <2>1. jobs' = [jobs EXCEPT ![j] = Unowned(Moved(jobs[j], "cancel"))]
    BY <1>2, <1>5 DEF TerminateForPolicy, Write
  <2>2. jobs[j].status \in RunningStatus
    BY <1>2, <1>5, RowFacts, ConstantsAssumption
    DEF TerminateForPolicy, Fenced, Worker
  <2>3. Onward(StageOf(jobs[j]), "withdrawn")
    BY <2>2, WorkingStage DEF Onward
  <2> QED BY <1>2, <1>3, <2>1, <2>3, TriggerMaps
<1>6. CASE ExhaustRetries(s)
  <2>1. jobs' = [jobs EXCEPT ![j] = Moved(jobs[j], "exhaust_retries")]
    BY <1>2, <1>6 DEF ExhaustRetries, Write
  <2>2. jobs[j].status = "retry_wait"
    BY <1>1, <1>2, <1>6 DEF ExhaustRetries, ActsOn, At
  <2>3. Onward(StageOf(jobs[j]), "failed")
    BY <2>2, WorkingStage DEF Onward
  <2> QED BY <1>2, <1>3, <2>1, <2>3, TriggerMaps
<1> QED BY <1>4, <1>5, <1>6

(* A retry that is scheduled is not seen: it waits where its phase is.     *)
LEMMA ScheduleRetryMaps ==
  ASSUME IInv, NEW s \in Slots, ScheduleRetry(s)
  PROVE  Seen
<1> DEFINE j     == proc[s].job
           phase == PhaseOfRunning[jobs[j].status]
           old   == Unowned(Moved(jobs[j], "schedule_retry"))
           row   == [old EXCEPT !.retryPhase = phase]
<1>1. proc[s].pc \in {"retry", "bury"} /\ proc[s].fresh
  BY DEF ScheduleRetry, Fenced
<1>2. /\ j \in Job /\ RowOf(s) = jobs[j] /\ jobs[j] \in Row
      /\ jobs[j].status \in RunningStatus
  BY <1>1, SlotFacts DEF ActsOn
<1>3. jobs' = [jobs EXCEPT ![j] = row]
  BY <1>2 DEF ScheduleRetry, Write
<1>4. /\ "schedule_retry" \in DOMAIN TargetOf
      /\ TargetOf["schedule_retry"] = "retry_wait"
  BY DEF TargetOf
<1>5. /\ old \in Row /\ old.status = "retry_wait"
      /\ old.pinned = jobs[j].pinned /\ old.approval = jobs[j].approval
  BY <1>2, <1>4, MovedRow
<1>6. \/ phase = "plan" /\ jobs[j].status = "running_plan"
      \/ phase = "implementation" /\ jobs[j].status = "running_implementation"
  BY <1>2, PhaseValues DEF PhaseOfRunning
<1> HIDE DEF old, phase
<1>7. /\ row.status = "retry_wait" /\ row.retryPhase = phase
      /\ row.pinned = jobs[j].pinned /\ row.approval = jobs[j].approval
  BY <1>5 DEF Row
<1> HIDE DEF row
<1>8. StageOf(row) = StageOf(jobs[j])
  BY <1>6, <1>7, Stages
<1> QED BY <1>2, <1>3, <1>7, <1>8, RowStutters DEF Seen

-----------------------------------------------------------------------------
(* The commands.                                                           *)

(* A job is asked for when no other of its issue is under way.             *)
LEMMA PlanCommandMaps ==
  ASSUME IInv, WorkInv, NEW j \in Job, PlanCommand(j)
  PROVE  Seen
<1> DEFINE row   == [NewRow EXCEPT !.status = "queued_plan"]
           stage == [k \in Job |-> StageOf(jobs[k])]
<1>1. jobs' = [jobs EXCEPT ![j] = row] /\ jobs[j].status = Absent
  BY DEF PlanCommand, Command
<1>2. /\ row.status = "queued_plan" /\ row.pinned = 0 /\ row.approval = 0
  BY DEF NewRow
<1>3. jobs[j].pinned = 0 /\ jobs[j].approval = 0
  BY <1>1 DEF WorkInv, JobWork
<1> HIDE DEF row
<1>4. StageOf(jobs[j]) = "unasked" /\ StageOf(row) = "planning"
  BY <1>1, <1>2, Stages
<1>5. /\ [k \in Job |-> StageOf(jobs'[k])] = [stage EXCEPT ![j] = "planning"]
      /\ stage[j] = "unasked"
  <2>1. [k \in Job |-> StageOf(jobs'[k])] = [stage EXCEPT ![j] = StageOf(row)]
    BY <1>1, Mapped
  <2> QED BY <1>4, <2>1
<1>6. /\ [k \in Job |-> jobs'[k].pinned] = [k \in Job |-> jobs[k].pinned]
      /\ [k \in Job |-> jobs'[k].approval] = [k \in Job |-> jobs[k].approval]
  BY <1>1, <1>2, <1>3 DEF IInv, TypeOK
<1>7. ASSUME NEW k \in Job, IssueOf[k] = IssueOf[j]
      PROVE  stage[k] \in {"published", "outdated", "failed", "withdrawn", "unasked"}
  <2>1. jobs[k].status \notin Active /\ jobs[k] \in Row
    BY <1>7, RowFacts DEF PlanCommand
  <2>2. jobs[k].status \in {Absent, "completed", "stale", "dead_letter",
                            "cancelled"}
    BY <2>1 DEF Active, Terminal, Row, Status
  <2> QED BY <2>2, Stages
<1>8. Promise!Ask(j)
  BY <1>5, <1>6, <1>7 DEF Promise!Ask, Promise!Becomes, Promise!Over
<1> QED BY <1>8 DEF Seen, Promise!Next

(* The answer of a maintainer.                                             *)
LEMMA ReplyCommandMaps ==
  ASSUME IInv, NEW j \in Job, ReplyCommand(j)
  PROVE  Seen
<1> DEFINE old == Unowned(Moved(jobs[j], "reply_received"))
           row == [old EXCEPT !.ready = @ \ {"plan"}]
<1>1. /\ jobs' = [jobs EXCEPT ![j] = row] /\ jobs[j].status = "blocked_plan"
  BY DEF ReplyCommand, Command, Allowed, Sources
<1>2. /\ "reply_received" \in DOMAIN TargetOf
      /\ TargetOf["reply_received"] = "queued_plan"
      /\ jobs[j] \in Row
  BY RowFacts DEF TargetOf
<1>3. /\ old \in Row /\ old.status = "queued_plan"
      /\ old.pinned = jobs[j].pinned /\ old.approval = jobs[j].approval
  BY <1>2, MovedRow
<1> HIDE DEF old
<1>4. /\ row.status = "queued_plan"
      /\ row.pinned = jobs[j].pinned /\ row.approval = jobs[j].approval
  BY <1>3 DEF Row
<1> HIDE DEF row
<1>5. Onward(StageOf(jobs[j]), StageOf(row))
  BY <1>1, <1>4, Stages DEF Onward
<1> QED BY <1>1, <1>4, <1>5, RowMovesOn DEF Seen

(* A retry that is resumed is not seen.                                    *)
LEMMA RetryCommandMaps ==
  ASSUME IInv, NEW j \in Job, RetryCommand(j)
  PROVE  Seen
<1> DEFINE phase == jobs[j].retryPhase
           old   == Moved(jobs[j], ResumeTrigger[phase])
           row   == [old EXCEPT !.retryPhase = NoPhase]
<1>1. /\ jobs' = [jobs EXCEPT ![j] = row] /\ jobs[j].status = "retry_wait"
      /\ phase \in Phase /\ jobs[j] \in Row
  BY RowFacts DEF RetryCommand, Command
<1>2. /\ ResumeTrigger[phase] \in DOMAIN TargetOf
      /\ TargetOf[ResumeTrigger[phase]] = Queued[phase]
  BY <1>1 DEF ResumeTrigger, TargetOf, Phase, Queued
<1>3. /\ old \in Row /\ old.status = Queued[phase]
      /\ old.pinned = jobs[j].pinned /\ old.approval = jobs[j].approval
  BY <1>1, <1>2, MovedRow
<1> HIDE DEF old
<1>4. /\ row.status = Queued[phase]
      /\ row.pinned = jobs[j].pinned /\ row.approval = jobs[j].approval
  BY <1>3 DEF Row
<1> HIDE DEF row
<1>5. StageOf(row) = StageOf(jobs[j])
  <2>1. \/ phase = "plan" /\ row.status = "queued_plan"
        \/ phase = "implementation" /\ row.status = "queued_implementation"
    BY <1>1, <1>4 DEF Phase, Queued
  <2> QED BY <1>1, <2>1, Stages
<1> QED BY <1>1, <1>4, <1>5, RowStutters DEF Seen

(* A job is withdrawn unless it is being published.                        *)
LEMMA CancelCommandMaps ==
  ASSUME IInv, NEW j \in Job, CancelCommand(j)
  PROVE  Seen
<1>1. /\ jobs' = [jobs EXCEPT ![j] = Unowned(Moved(jobs[j], "cancel"))]
      /\ jobs[j].status \in Sources["cancel"]
  BY DEF CancelCommand, Command, Allowed
<1>2. "cancel" \in DOMAIN TargetOf /\ TargetOf["cancel"] = "cancelled"
  BY DEF TargetOf
<1>3. jobs[j].status \in {"queued_plan", "running_plan", "blocked_plan",
                          "waiting_approval", "queued_implementation",
                          "running_implementation", "ready_to_publish",
                          "retry_wait"}
  BY <1>1 DEF Sources
<1>4. Onward(StageOf(jobs[j]), "withdrawn")
  BY <1>3, Stages DEF Onward
<1> QED BY <1>1, <1>2, <1>4, TriggerMaps

(* Row j is written and a maintainer agrees to the plan on offer.          *)
LEMMA AgreeMaps ==
  ASSUME IInv, NEW j \in Job, NEW row, jobs' = [jobs EXCEPT ![j] = row],
         row.pinned = jobs[j].pinned, row.approval = jobs[j].pinned,
         jobs[j].pinned # 0,
         StageOf(jobs[j]) = "proposed", StageOf(row) = "building"
  PROVE  Seen
<1> DEFINE stage == [k \in Job |-> StageOf(jobs[k])]
           offer == [k \in Job |-> jobs[k].pinned]
<1>1. /\ [k \in Job |-> StageOf(jobs'[k])] = [stage EXCEPT ![j] = "building"]
      /\ [k \in Job |-> jobs'[k].approval] =
           [[k \in Job |-> jobs[k].approval] EXCEPT ![j] = offer[j]]
      /\ stage[j] = "proposed" /\ offer[j] # 0
  <2>1. [k \in Job |-> StageOf(jobs'[k])] = [stage EXCEPT ![j] = StageOf(row)]
    BY Mapped
  <2>2. [k \in Job |-> jobs'[k].approval] =
          [[k \in Job |-> jobs[k].approval] EXCEPT ![j] = row.approval]
    BY Mapped
  <2> QED BY <2>1, <2>2
<1>2. [k \in Job |-> jobs'[k].pinned] = offer
  BY DEF IInv, TypeOK
<1>3. Promise!Agree(j)
  BY <1>1, <1>2 DEF Promise!Agree, Promise!Becomes, Promise!NoPlan
<1> QED BY <1>3 DEF Seen, Promise!Next

(* The approval, or a default branch that moved before it.                 *)
LEMMA DeskMaps ==
  ASSUME IInv,
         \/ \E j \in Job : ImplementCommand(j)
         \/ ImplementConflict \/ Approve \/ BaseMoved
  PROVE  Seen
<1> DEFINE j == proc[Desk].job
<1>1. CASE (\E k \in Job : ImplementCommand(k)) \/ ImplementConflict
  BY <1>1, UnwrittenMaps DEF ImplementCommand, ImplementConflict
<1>2. CASE Approve \/ BaseMoved
  <2>1. At(Desk, "implement") /\ proc[Desk].fresh
    BY <1>2 DEF Approve, BaseMoved, Unchanged
  <2>2. /\ j \in Job /\ RowOf(Desk) = jobs[j] /\ jobs[j] \in Row
        /\ jobs[j].status = "waiting_approval" /\ jobs[j].pinned # 0
    BY <2>1, DeskFacts, RowFacts DEF At, ActsOn
  <2>3. StageOf(jobs[j]) = "proposed"
    BY <2>2, Stages
  <2>4. /\ {"implementation_approved", "mark_stale"} \subseteq DOMAIN TargetOf
        /\ TargetOf["implementation_approved"] = "queued_implementation"
        /\ TargetOf["mark_stale"] = "stale"
    BY DEF TargetOf
  <2>5. CASE Approve
    <3> DEFINE old == Moved(jobs[j], "implementation_approved")
               row == [old EXCEPT !.approval = jobs[j].pinned,
                                  !.ready = @ \ {"implementation"}]
    <3>1. jobs' = [jobs EXCEPT ![j] = row]
      BY <2>2, <2>5 DEF Approve, Write
    <3>2. /\ old \in Row /\ old.status = "queued_implementation"
          /\ old.pinned = jobs[j].pinned
      BY <2>2, <2>4, MovedRow
    <3> HIDE DEF old
    <3>3. /\ row.status = "queued_implementation"
          /\ row.pinned = jobs[j].pinned /\ row.approval = jobs[j].pinned
      BY <3>2 DEF Row
    <3> HIDE DEF row
    <3>4. StageOf(row) = "building"
      BY <3>3, Stages
    <3> QED BY <2>2, <2>3, <3>1, <3>3, <3>4, AgreeMaps
  <2>6. CASE BaseMoved
    <3>1. jobs' = [jobs EXCEPT ![j] = Moved(jobs[j], "mark_stale")]
      BY <2>2, <2>6 DEF BaseMoved, Write
    <3>2. Onward(StageOf(jobs[j]), "outdated")
      BY <2>3 DEF Onward
    <3> QED BY <2>2, <2>4, <3>1, <3>2, TriggerMaps
  <2> QED BY <1>2, <2>5, <2>6
<1> QED BY <1>1, <1>2

-----------------------------------------------------------------------------
(* The dispatcher, and time.                                               *)

(* A workspace that becomes ready and a lease that runs out are not seen.  *)
LEMMA UnseenMaps ==
  ASSUME IInv, MarkReady \/ \E j \in Job : Expire(j)
  PROVE  Seen
<1>1. ASSUME NEW j \in Job,
             NEW row \in {[jobs[j] EXCEPT !.live = FALSE],
                          [jobs[j] EXCEPT !.ready =
                             @ \cup {EventPhase[proc[Dispatcher].event]}]},
             jobs' = [jobs EXCEPT ![j] = row]
      PROVE  Seen
  <2>1. /\ row.status = jobs[j].status /\ row.retryPhase = jobs[j].retryPhase
        /\ row.pinned = jobs[j].pinned /\ row.approval = jobs[j].approval
    BY <1>1, RowFacts DEF Row
  <2>2. StageOf(row) = StageOf(jobs[j])
    BY <2>1 DEF StageOf
  <2> QED BY <1>1, <2>1, <2>2, RowStutters DEF Seen
<1>2. CASE MarkReady
  <2>1. /\ proc[Dispatcher].job \in Job
        /\ RowOf(Dispatcher) = jobs[proc[Dispatcher].job]
    BY <1>2, DispatcherFacts DEF MarkReady, At
  <2> QED BY <1>1, <1>2, <2>1 DEF MarkReady, Write
<1>3. ASSUME NEW j \in Job, Expire(j)
      PROVE  jobs' = [jobs EXCEPT ![j] = [jobs[j] EXCEPT !.live = FALSE]]
  BY <1>3 DEF Expire
<1> QED BY <1>1, <1>2, <1>3

(* A publication begins, is completed or is found outdated.                *)
LEMMA PublicationMaps ==
  ASSUME IInv, BeginPublish \/ MarkStale \/ PublishComplete
  PROVE  Seen
<1> DEFINE j == proc[Dispatcher].job
<1>1. proc[Dispatcher].pc \in {"verify", "push"} /\ proc[Dispatcher].fresh
  BY DEF BeginPublish, MarkStale, PublishComplete, At, Unchanged
<1>2. /\ j \in Job /\ RowOf(Dispatcher) = jobs[j] /\ jobs[j] \in Row
      /\ jobs[j].status \in {"ready_to_publish", "publishing"}
      /\ proc[Dispatcher].pc = "push" => jobs[j].status = "publishing"
  BY <1>1, DispatcherFacts DEF ActsOn
<1>3. /\ {"begin_publish", "mark_stale", "publish_complete"} \subseteq
           DOMAIN TargetOf
      /\ TargetOf["begin_publish"] = "publishing"
      /\ TargetOf["mark_stale"] = "stale"
      /\ TargetOf["publish_complete"] = "completed"
  BY DEF TargetOf
<1>4. CASE BeginPublish
  <2>1. jobs' = [jobs EXCEPT ![j] = Moved(jobs[j], "begin_publish")]
    BY <1>2, <1>4 DEF BeginPublish, Write
  <2>2. jobs[j].status = "ready_to_publish"
    BY <1>2, <1>4 DEF BeginPublish, Allowed, Sources
  <2>3. Onward(StageOf(jobs[j]), "publishing")
    BY <2>2, Stages DEF Onward
  <2> QED BY <1>2, <1>3, <2>1, <2>3, TriggerMaps
<1>5. CASE MarkStale
  <2>1. jobs' = [jobs EXCEPT ![j] = Moved(jobs[j], "mark_stale")]
    BY <1>2, <1>5 DEF MarkStale, Write
  <2>2. Onward(StageOf(jobs[j]), "outdated")
    BY <1>2, Stages DEF Onward
  <2> QED BY <1>2, <1>3, <2>1, <2>2, TriggerMaps
<1>6. CASE PublishComplete
  <2>1. jobs' = [jobs EXCEPT ![j] = Unowned(Moved(jobs[j], "publish_complete"))]
    BY <1>2, <1>6 DEF PublishComplete, Write
  <2>2. jobs[j].status = "publishing"
    BY <1>2, <1>6 DEF PublishComplete, At
  <2>3. Onward(StageOf(jobs[j]), "published")
    BY <2>2, Stages DEF Onward
  <2> QED BY <1>2, <1>3, <2>1, <2>3, TriggerMaps
<1> QED BY <1>4, <1>5, <1>6

-----------------------------------------------------------------------------
(* The refinement.                                                         *)

(* Every step of the job table is a step of the promise or none.           *)
LEMMA NextMaps ==
  IInv /\ WorkInv /\ [Next]_vars => [Promise!Next]_(Promise!vars)
<1> SUFFICES ASSUME IInv, WorkInv, [Next]_vars
             PROVE  Seen
  BY DEF Seen
<1>1. ASSUME NEW s \in Slots, SlotStep(s)
      PROVE  Seen
  <2>1. ASSUME \/ Reject(s) \/ Begin(s) \/ Abandon(s) \/ Poll(s)
               \/ \E kind \in PlanStatus : SubmitPlan(s, kind)
               \/ SubmitDraft(s) \/ CompleteSession(s) \/ ViolatePolicy(s)
               \/ PolicyConflict(s) \/ EndRun(s) \/ Conclude(s)
               \/ RunConflict(s) \/ HandleFailure(s) \/ HandlerConflict(s)
        PROVE  UNCHANGED jobs
    BY <2>1
    DEF Reject, Begin, Abandon, Poll, SubmitPlan, SubmitDraft, CompleteSession,
        ViolatePolicy, PolicyConflict, EndRun, Conclude, RunConflict,
        HandleFailure, HandlerConflict
  <2> QED BY <1>1, <2>1, UnwrittenMaps, ClaimMaps, RunWriteMaps, FinishPlanMaps,
             RunOverMaps, ScheduleRetryMaps, Zenon
      DEF SlotStep
<1>2. CASE DispatcherStep
  <2>1. ASSUME \/ \E j \in Job, e \in Event : StartPrepare(j, e)
               \/ \E j \in Job : StartPublish(j) \/ RefusePublish(j)
               \/ ReadPrepared \/ ResumePublish \/ CompleteEvent
               \/ DispatchConflict
        PROVE  UNCHANGED jobs
    BY <2>1
    DEF StartPrepare, StartPublish, RefusePublish, ReadPrepared, ResumePublish,
        CompleteEvent, DispatchConflict
  <2> QED BY <1>2, <2>1, UnwrittenMaps, UnseenMaps, PublicationMaps, Zenon
      DEF DispatcherStep
<1>3. CASE MaintainerStep
  BY <1>3, PlanCommandMaps, ReplyCommandMaps, RetryCommandMaps,
     CancelCommandMaps, DeskMaps, Zenon
  DEF MaintainerStep
<1>4. CASE FaultStep \/ \E w \in Worker : RestartWorker(w)
  BY <1>4, UnwrittenMaps DEF FaultStep, CrashWorker, CrashControl, GiveUp,
                             RestartWorker
<1>5. CASE \E j \in Job : Expire(j)
  BY <1>5, UnseenMaps
<1>6. CASE UNCHANGED vars
  BY <1>6, UnwrittenMaps DEF vars
<1> QED BY <1>1, <1>2, <1>3, <1>4, <1>5, <1>6 DEF Next

(* The job table keeps the promise to the maintainers, for any number of   *)
(* slots, jobs, plans and faults: through claims, lost leases, crashes,    *)
(* retries and redelivered events a job plans, is agreed to once, is built *)
(* as agreed and published, or ends for a reason they can see.             *)
THEOREM PromiseIsKept == Spec => KeepsPromise
BY InitMaps, NextMaps, WorkInvariance, PTL DEF Spec, KeepsPromise, Promise!Spec
=============================================================================

------------------------- MODULE SessionLeaseProofs -------------------------
(***************************************************************************)
(* What a Session of the bot can rely on, proved for any number of worker  *)
(* processes, slots, claims, calls and deaths.  With stalls, the lease of  *)
(* the Session belongs to whoever renewed the job in time.  Without them,  *)
(* one run at a time has the job, and the transcript is a sequence of      *)
(* calls, each followed by its result, with at most one call that waits.   *)
(***************************************************************************)
EXTENDS SessionLease, TLAPS

-----------------------------------------------------------------------------
(* Types.                                                                  *)

JobRow == [status : {"work", "retry_wait", "done", "cancelled"},
           owner : Processes \cup {None}, lasts : BOOLEAN]

LeaseRow == [owner : Runs \cup {NoRun}, lasts : BOOLEAN]

RunState == [phase : {"idle", "claimed", "entered", "open"}, call : Nat]

Message == [kind : {"call"}, id : Nat]
             \cup [kind : {"result"}, id : Nat,
                   code : {"cancelled", "interrupted", "real"}]

Types ==
  /\ job \in JobRow
  /\ lease \in LeaseRow
  /\ held \in [Processes -> Runs \cup {NoRun}]
  /\ run \in [Runs -> RunState]
  /\ late \in SUBSET Runs
  /\ log \in Seq(Message)
  /\ asked \in Nat

(* A job and a lease that last have an owner; a run waits only for a call  *)
(* that was recorded; a process remembers leases of its own runs.          *)
Shape ==
  /\ job.lasts => job.owner \in Processes
  /\ lease.lasts => lease.owner # NoRun
  /\ \A r \in Runs : run[r].call # 0 =>
       /\ run[r].phase = "open"
       /\ \E i \in 1 .. Len(log) : log[i].kind = "call" /\ log[i].id = run[r].call
  /\ \A p \in Processes : held[p] # NoRun => Process(held[p]) = p

TypeInv == Types /\ Shape

(* A message at the end keeps what was recorded.                           *)
LEMMA Appended ==
  ASSUME Types, NEW m \in Message
  PROVE  /\ Append(log, m) \in Seq(Message)
         /\ Len(Append(log, m)) = Len(log) + 1
         /\ Len(log) \in Nat
         /\ \A i \in 1 .. Len(log) : Append(log, m)[i] = log[i]
         /\ Append(log, m)[Len(log) + 1] = m
BY DEF Types

(* The calls without results are numbers.                                  *)
LEMMA DanglingAreCalls == Types => Dangling \subseteq Nat
BY DEF Types, Dangling, Called, IsCall, Message

(* What a run may append.                                                  *)
LEMMA Messages ==
  ASSUME Types, NEW r \in Runs
  PROVE  /\ Call(asked + 1) \in Message
         /\ \A code \in {"cancelled", "interrupted", "real"} :
              Result(run[r].call, code) \in Message
         /\ Repaired \in {log} \cup {Append(log, m) : m \in Message}
         /\ Process(r) \in Processes
         /\ r # NoRun
<1>1. Process(r) \in Processes /\ r # NoRun
  <2>1. r[1] \in Processes /\ NoRun[1] = None
    BY DEF Runs, NoRun
  <2>2. None \notin Processes
    BY SessionLeaseAssumption
  <2> QED BY <2>1, <2>2 DEF Process
<1>2. Repaired \in {log} \cup {Append(log, m) : m \in Message}
  <2>1. ASSUME NEW c \in Nat PROVE Result(c, "interrupted") \in Message
    BY DEF Result, Message
  <2> QED BY <2>1, DanglingAreCalls DEF Repaired
<1>3. /\ Call(asked + 1) \in Message
      /\ \A code \in {"cancelled", "interrupted", "real"} :
           Result(run[r].call, code) \in Message
  BY DEF Types, Message, Call, Result, RunState
<1> QED BY <1>1, <1>2, <1>3


-----------------------------------------------------------------------------
(* How the steps change the transcript and the runs.                       *)

(* A step of run r leaves the others as they are.                          *)
OnlyMoves(r) == \A s \in Runs \ {r} : run'[s] = run[s]

(* Nothing is taken out of the transcript.                                 *)
Kept ==
  /\ log' \in Seq(Message)
  /\ Len(log) <= Len(log')
  /\ \A i \in 1 .. Len(log) : log'[i] = log[i]

(* An append keeps the messages before it.                                 *)
LEMMA AppendKeeps ==
  ASSUME Types, NEW m \in Message, log' = Append(log, m) \/ log' = log
  PROVE  Kept
<1>1. Len(log) \in Nat /\ log \in Seq(Message)
  BY Appended DEF Types
<1>2. CASE log' = Append(log, m)
  <2>1. /\ log' \in Seq(Message) /\ Len(log') = Len(log) + 1
        /\ \A i \in 1 .. Len(log) : log'[i] = log[i]
    BY <1>2, Appended
  <2>2. Len(log) <= Len(log')
    BY <1>1, <2>1
  <2> QED BY <2>1, <2>2 DEF Kept
<1>3. CASE log' = log
  BY <1>1, <1>3 DEF Kept
<1> QED BY <1>2, <1>3

(* A run that leaves is idle and owns no lease.                            *)
LEMMA Leaves ==
  ASSUME TypeInv, NEW r \in Runs, Leave(r)
  PROVE  /\ lease' \in LeaseRow
         /\ lease'.lasts => lease'.owner # NoRun
         /\ held' \in [Processes -> Runs \cup {NoRun}]
         /\ \A p \in Processes : held'[p] # NoRun => Process(held'[p]) = p
         /\ run' \in [Runs -> RunState]
         /\ run'[r] = Idle
         /\ OnlyMoves(r)
         /\ \A s \in Runs \ {r} : lease.owner = s => lease' = lease
         /\ lease'.owner # r
         /\ lease' = lease \/ lease' = Free
BY Messages DEF TypeInv, Types, Shape, Leave, Released, Free, LeaseRow, Idle, RunState,
   OnlyMoves

(* What becomes of the job when a run ends.                                *)
LEMMA GivesUp ==
  ASSUME TypeInv, NEW r \in Runs, GiveUp(r) \/ Ended(r, "done")
  PROVE  /\ job' \in JobRow /\ (job'.lasts => job'.owner \in Processes)
         /\ late' \in SUBSET Runs /\ late \subseteq late'
<1>1. PICK status \in {"retry_wait", "done"} : Ended(r, status)
  BY DEF GiveUp
<1>2. CASE Mine(r)
  <2>1. /\ job' = [status |-> status, owner |-> None, lasts |-> FALSE]
        /\ late' = late \cup (Holders \ {r})
    BY <1>1, <1>2 DEF Ended
  <2>2. job' \in JobRow /\ ~job'.lasts
    BY <2>1 DEF JobRow
  <2>3. late' \in SUBSET Runs /\ late \subseteq late'
    BY <2>1 DEF TypeInv, Types, Holders
  <2> QED BY <2>2, <2>3
<1>3. CASE ~Mine(r)
  <2>1. job' = job /\ late' = late
    BY <1>1, <1>3 DEF Ended
  <2> QED BY <2>1 DEF TypeInv, Types, Shape
<1> QED BY <1>2, <1>3

(* A run that stops adds at most one message.                              *)
LEMMA Stops ==
  ASSUME TypeInv, NEW r \in Runs, Stopped(r)
  PROVE  Kept
BY Messages, AppendKeeps, Zenon DEF Stopped, TypeInv

-----------------------------------------------------------------------------
(* The types are kept.                                                     *)

(* What a step has to show of the run that takes it.                       *)
LEMMA TypeStep ==
  ASSUME TypeInv, Kept, NEW r \in Runs, OnlyMoves(r),
         run' \in [Runs -> RunState],
         run'[r].call # 0 =>
           /\ run'[r].phase = "open"
           /\ \E i \in 1 .. Len(log') : log'[i].kind = "call"
                                        /\ log'[i].id = run'[r].call,
         job' \in JobRow, job'.lasts => job'.owner \in Processes,
         lease' \in LeaseRow, lease'.lasts => lease'.owner # NoRun,
         held' \in [Processes -> Runs \cup {NoRun}],
         \A p \in Processes : held'[p] # NoRun => Process(held'[p]) = p,
         late' \in SUBSET Runs, asked' \in Nat
  PROVE  TypeInv'
<1>1. \A s \in Runs : run'[s].call # 0 =>
        /\ run'[s].phase = "open"
        /\ \E i \in 1 .. Len(log') : log'[i].kind = "call"
                                     /\ log'[i].id = run'[s].call
  <2> TAKE s \in Runs
  <2>1. CASE s # r
    <3> SUFFICES ASSUME run[s].call # 0
                 PROVE  /\ run[s].phase = "open"
                        /\ \E i \in 1 .. Len(log') : log'[i].kind = "call"
                                                     /\ log'[i].id = run[s].call
      BY <2>1 DEF OnlyMoves
    <3>1. PICK i \in 1 .. Len(log) : log[i].kind = "call" /\ log[i].id = run[s].call
      BY DEF TypeInv, Shape
    <3>2. log'[i] = log[i] /\ i \in 1 .. Len(log')
      BY DEF Kept, TypeInv, Types
    <3> QED BY <3>1, <3>2 DEF TypeInv, Shape
  <2> QED BY <2>1
<1> QED BY <1>1 DEF TypeInv, Types, Shape, Kept

(* Steps before a run opens its Session.                                   *)
LEMMA StartTypes ==
  ASSUME TypeInv, NEW r \in Runs, Claim(r) \/ Enter(r) \/ Refused(r)
  PROVE  TypeInv'
<1>1. Process(r) \in Processes /\ r # NoRun
  BY Messages DEF TypeInv
<1>2. Kept /\ asked' \in Nat
  BY DEF Claim, Enter, Refused, Kept, TypeInv, Types
<1>3. /\ run' \in [Runs -> RunState]
      /\ OnlyMoves(r)
      /\ run'[r].call = 0
  <2>1. run \in [Runs -> RunState] /\ Idle \in RunState
        /\ \A s \in Runs : run[s].phase \in {"idle", "claimed"} => run[s].call = 0
    BY DEF TypeInv, Types, RunState, Idle, Shape
  <2>2. CASE Claim(r)
    BY <2>1, <2>2 DEF Claim, RunState, OnlyMoves, Idle
  <2>3. CASE Enter(r)
    BY <2>1, <2>3 DEF Enter, RunState, OnlyMoves
  <2>4. CASE Refused(r)
    BY <2>1, <2>4 DEF Refused, OnlyMoves, Idle
  <2> QED BY <2>2, <2>3, <2>4
<1>4. CASE Claim(r)
  <2>1. /\ job' \in JobRow
        /\ job'.lasts => job'.owner \in Processes
        /\ UNCHANGED <<lease, held>>
        /\ late' \in SUBSET Runs
    BY <1>1, <1>4 DEF Claim, TypeInv, Types, JobRow
  <2> QED BY <1>2, <1>3, <2>1, TypeStep DEF TypeInv, Types, Shape
<1>5. CASE Enter(r)
  <2>1. /\ lease' \in LeaseRow
        /\ lease'.lasts => lease'.owner # NoRun
        /\ UNCHANGED <<job, late>>
    BY <1>1, <1>5 DEF Enter, LeaseRow
  <2>2. /\ held' \in [Processes -> Runs \cup {NoRun}]
        /\ \A p \in Processes : held'[p] # NoRun => Process(held'[p]) = p
    BY <1>1, <1>5 DEF Enter, TypeInv, Types, Shape
  <2> QED BY <1>2, <1>3, <2>1, <2>2, TypeStep DEF TypeInv, Types, Shape
<1>6. CASE Refused(r)
  <2>1. GiveUp(r) /\ UNCHANGED <<lease, held>>
    BY <1>6 DEF Refused
  <2>2. /\ job' \in JobRow /\ late' \in SUBSET Runs
        /\ job'.lasts => job'.owner \in Processes
    BY <2>1, GivesUp
  <2> QED BY <1>2, <1>3, <2>1, <2>2, TypeStep DEF TypeInv, Types, Shape
<1> QED BY <1>4, <1>5, <1>6

(* A run that leaves, whatever becomes of its job.                         *)
LEMMA LeaveTypes ==
  ASSUME TypeInv, NEW r \in Runs, Leave(r), Kept,
         job' \in JobRow, job'.lasts => job'.owner \in Processes,
         late' \in SUBSET Runs, asked' \in Nat
  PROVE  TypeInv'
<1>1. run'[r].call = 0
  BY Leaves DEF Idle
<1> QED BY <1>1, Leaves, TypeStep

(* The steps of a run in its Session.                                      *)
LEMMA RunTypes ==
  ASSUME TypeInv, NEW r \in Runs, Open(r) \/ Ask(r) \/ Return(r)
  PROVE  TypeInv'
<1>1. Types /\ Kept /\ asked' \in Nat
  <2>1. CASE Open(r)
    <3>1. log' \in {log} \cup {Append(log, m) : m \in Message}
      BY <2>1, Messages DEF Open, TypeInv
    <3>2. log' = log \/ \E m \in Message : log' = Append(log, m)
      BY <3>1
    <3>3. Types /\ Kept
      BY <3>2, AppendKeeps DEF TypeInv, Kept, Types
    <3> QED BY <2>1, <3>3 DEF Open, TypeInv, Types
  <2>2. CASE Ask(r)
    BY <2>2, Messages, AppendKeeps DEF Ask, TypeInv, Types
  <2>3. CASE Return(r)
    BY <2>3, Messages, AppendKeeps DEF Return, TypeInv, Types
  <2> QED BY <2>1, <2>2, <2>3 DEF TypeInv
<1>2. CASE Open(r) /\ Broken
  <2>1. Leave(r) /\ GiveUp(r)
    BY <1>2 DEF Open
  <2>2. /\ job' \in JobRow /\ late' \in SUBSET Runs
        /\ job'.lasts => job'.owner \in Processes
    BY <2>1, GivesUp
  <2> QED BY <1>1, <2>1, <2>2, LeaveTypes DEF Types
<1>3. CASE Open(r) /\ ~Broken
  <2>1. /\ UNCHANGED <<job, lease, held, late>>
        /\ run' = [run EXCEPT ![r].phase = "open"]
        /\ run[r].phase = "entered"
    BY <1>3 DEF Open
  <2>2. /\ run' \in [Runs -> RunState]
        /\ OnlyMoves(r)
        /\ run'[r].call = 0
    BY <2>1 DEF TypeInv, Types, Shape, RunState, OnlyMoves
  <2> QED BY <1>1, <2>1, <2>2, TypeStep DEF TypeInv, Types, Shape
<1>4. CASE Return(r)
  <2>1. /\ run' \in [Runs -> RunState]
        /\ OnlyMoves(r)
        /\ run'[r].call = 0
        /\ UNCHANGED <<job, lease, held, late>>
    BY <1>4 DEF Return, TypeInv, Types, RunState, OnlyMoves
  <2> QED BY <1>1, <2>1, TypeStep DEF TypeInv, Types, Shape
<1>5. CASE Ask(r)
  <2>1. /\ run' \in [Runs -> RunState]
        /\ OnlyMoves(r)
        /\ run'[r].call = asked + 1
        /\ run'[r].phase = "open"
        /\ log' = Append(log, Call(asked + 1))
        /\ UNCHANGED <<job, lease, held, late>>
    BY <1>5 DEF Ask, TypeInv, Types, RunState, OnlyMoves
  <2>2. /\ Len(log) + 1 \in 1 .. Len(log')
        /\ log'[Len(log) + 1] = Call(asked + 1)
    BY <1>1, <2>1, Messages, Appended
  <2>3. Call(asked + 1).kind = "call" /\ Call(asked + 1).id = asked + 1
    BY DEF Call
  <2> QED BY <1>1, <2>1, <2>2, <2>3, TypeStep DEF TypeInv, Types, Shape
<1> QED BY <1>2, <1>3, <1>4, <1>5

(* The ways a run ends.                                                    *)
LEMMA EndTypes ==
  ASSUME TypeInv, NEW r \in Runs, Finish(r) \/ Poll(r) \/ Heartbeat(r)
  PROVE  TypeInv'
<1>1. asked' \in Nat
  BY DEF Finish, Poll, Heartbeat, TypeInv, Types
<1>2. CASE Finish(r)
  <2>1. Leave(r) /\ Kept
    BY <1>2 DEF Finish, TypeInv, Types, Kept
  <2>2. /\ job' \in JobRow /\ late' \in SUBSET Runs
        /\ job'.lasts => job'.owner \in Processes
    BY <1>2, GivesUp DEF Finish
  <2> QED BY <1>1, <2>1, <2>2, LeaveTypes
<1>3. CASE Poll(r)
  <2>1. Leave(r) /\ Kept /\ UNCHANGED <<job, late>>
    BY <1>3, Stops DEF Poll
  <2> QED BY <1>1, <2>1, LeaveTypes DEF TypeInv, Types, Shape
<1>4. CASE Heartbeat(r) /\ lease.owner = held[Process(r)] /\ held[Process(r)] # NoRun
  <2>1. /\ job' = [job EXCEPT !.lasts = TRUE] /\ lease' = [lease EXCEPT !.lasts = TRUE]
        /\ UNCHANGED <<held, run, log>> /\ Mine(r) /\ late' \subseteq late
    BY <1>4 DEF Heartbeat
  <2>2. Process(r) \in Processes
    BY Messages DEF TypeInv
  <2> QED BY <1>1, <1>4, <2>1, <2>2 DEF TypeInv, Types, Shape, JobRow, LeaseRow, Mine
<1>5. CASE Heartbeat(r) /\ ~(lease.owner = held[Process(r)] /\ held[Process(r)] # NoRun)
  <2>1. Leave(r) /\ Stopped(r) /\ GiveUp(r)
    BY <1>5 DEF Heartbeat
  <2>2. /\ job' \in JobRow /\ late' \in SUBSET Runs
        /\ job'.lasts => job'.owner \in Processes
    BY <2>1, GivesUp
  <2> QED BY <1>1, <2>1, <2>2, Stops, LeaveTypes
<1> QED BY <1>2, <1>3, <1>4, <1>5

(* Commands, deaths and time.                                              *)
LEMMA OtherTypes ==
  ASSUME TypeInv,
         \/ Retry \/ Cancel \/ JobLapses \/ LeaseLapses
         \/ \E p \in Processes : Crash(p)
  PROVE  TypeInv'
<1>1. CASE Retry \/ Cancel \/ JobLapses
  <2>1. /\ job' \in JobRow
        /\ job'.lasts => job'.owner \in Processes
        /\ late' \in SUBSET Runs
    <3>1. CASE Retry
      BY <3>1 DEF Retry, TypeInv, Types, Shape, JobRow
    <3>2. CASE Cancel
      BY <3>2 DEF Cancel, Holders, TypeInv, Types, JobRow
    <3>3. CASE JobLapses
      BY <3>3 DEF JobLapses, Holders, TypeInv, Types, JobRow
    <3> QED BY <1>1, <3>1, <3>2, <3>3
  <2>2. UNCHANGED <<lease, held, run, log, asked>>
    BY <1>1 DEF Retry, Cancel, JobLapses
  <2> QED BY <2>1, <2>2 DEF TypeInv, Types, Shape
<1>2. CASE LeaseLapses
  BY <1>2 DEF LeaseLapses, TypeInv, Types, Shape, LeaseRow
<1>3. ASSUME NEW p \in Processes, Crash(p)
      PROVE  TypeInv'
  <2>1. /\ run' \in [Runs -> RunState]
        /\ \A r \in Runs : run'[r] = run[r] \/ run'[r].call = 0
        /\ held' \in [Processes -> Runs \cup {NoRun}]
        /\ \A q \in Processes : held'[q] \in {held[q], NoRun}
        /\ UNCHANGED <<job, lease, late, log, asked>>
    BY <1>3 DEF Crash, TypeInv, Types, RunState, Idle
  <2> QED BY <2>1 DEF TypeInv, Types, Shape
<1> QED BY <1>1, <1>2, <1>3

(* The types hold at first.                                                *)
LEMMA InitTypes == Init => TypeInv
BY DEF Init, TypeInv, Types, Shape, JobRow, LeaseRow, RunState, Idle, Free

(* Every step keeps them.                                                  *)
LEMMA NextTypes == TypeInv /\ [Next]_vars => TypeInv'
<1> SUFFICES ASSUME TypeInv, [Next]_vars
             PROVE  TypeInv'
  OBVIOUS
<1>1. CASE UNCHANGED vars
  BY <1>1 DEF vars, TypeInv, Types, Shape
<1> QED BY <1>1, StartTypes, RunTypes, EndTypes, OtherTypes, Zenon DEF Next

(* The variables keep their shape, as the rows of the two tables and the   *)
(* records of the runs do.                                                 *)
THEOREM SessionIsTyped == Spec => []TypeOK
<1>1. TypeInv => TypeOK
  <2> SUFFICES ASSUME TypeInv PROVE TypeOK
    OBVIOUS
  <2>1. \A r \in Runs : run[r].call # 0 => IsOpen(r) /\ run[r].call \in Called
    <3> SUFFICES ASSUME NEW r \in Runs, run[r].call # 0
                 PROVE  IsOpen(r) /\ run[r].call \in Called
      OBVIOUS
    <3>1. PICK i \in 1 .. Len(log) : log[i].kind = "call" /\ log[i].id = run[r].call
      BY DEF TypeInv, Shape
    <3>2. i \in DOMAIN log
      BY DEF TypeInv, Types
    <3> QED BY <3>1, <3>2 DEF TypeInv, Shape, IsOpen, Called, IsCall
  <2> QED BY <2>1 DEF TypeInv, Types, Shape, TypeOK, JobRow, LeaseRow
<1> QED BY <1>1, InitTypes, NextTypes, PTL DEF Spec

-----------------------------------------------------------------------------
(* The lease of the Session.                                               *)

(* Inductive, where TimelyHoldsLease is not: a run opens only after it     *)
(* entered, and holds the lease from then on.                              *)
Timely ==
  \A r \in Runs : run[r].phase \in {"entered", "open"} /\ r \notin late =>
                    lease = [owner |-> r, lasts |-> TRUE]

(* A step that gives the lease to nobody else, and makes no run timely.    *)
LEMMA TimelyKept ==
  ASSUME TypeInv, Timely, NEW r \in Runs, OnlyMoves(r), late \subseteq late',
         run'[r].phase \in {"entered", "open"} => run[r].phase \in {"entered", "open"},
         \A s \in Runs : /\ lease = [owner |-> s, lasts |-> TRUE]
                         /\ run'[s].phase \in {"entered", "open"}
                         => lease' = lease
  PROVE  Timely'
BY DEF Timely, OnlyMoves

(* A run that leaves takes only its own row away.                          *)
LEMMA TimelyLeaves ==
  ASSUME TypeInv, Timely, NEW r \in Runs, Leave(r), late \subseteq late'
  PROVE  Timely'
<1>1. /\ OnlyMoves(r)
      /\ run'[r].phase = "idle"
      /\ \A s \in Runs \ {r} : lease.owner = s => lease' = lease
  BY Leaves DEF Idle
<1> QED BY <1>1, TimelyKept

(* The steps of a run.                                                     *)
LEMMA TimelyRuns ==
  ASSUME TypeInv, Timely, NEW r \in Runs,
         \/ Claim(r) \/ Enter(r) \/ Refused(r) \/ Open(r) \/ Ask(r) \/ Return(r)
         \/ Finish(r) \/ Poll(r) \/ Heartbeat(r)
  PROVE  Timely'
<1>0. r # NoRun
  BY Messages DEF TypeInv
<1>1. CASE Claim(r)
  BY <1>1 DEF Claim, Timely, TypeInv, Types, RunState
<1>2. CASE Enter(r)
  <2>1. LeaseFree /\ lease' = [owner |-> r, lasts |-> TRUE] /\ late' = late
        /\ OnlyMoves(r)
    BY <1>2 DEF Enter, OnlyMoves, TypeInv, Types
  <2>2. \A s \in Runs : lease # [owner |-> s, lasts |-> TRUE]
    <3>1. \A s \in Runs : s # NoRun
      BY Messages DEF TypeInv
    <3> QED BY <2>1, <3>1 DEF LeaseFree
  <2> QED BY <2>1, <2>2 DEF Timely, OnlyMoves
<1>3. CASE Refused(r) \/ Ask(r) \/ Return(r) \/ (Open(r) /\ ~Broken)
  <2>1. /\ OnlyMoves(r) /\ lease' = lease
        /\ run'[r].phase \in {"entered", "open"} => run[r].phase \in {"entered", "open"}
    BY <1>3 DEF Refused, Ask, Return, Open, OnlyMoves, TypeInv, Types, RunState, Idle
  <2>2. late \subseteq late'
    BY <1>3, GivesUp DEF Refused, Ask, Return, Open
  <2> QED BY <2>1, <2>2, TimelyKept
<1>4. CASE Finish(r) \/ Poll(r) \/ (Open(r) /\ Broken)
  <2>1. Leave(r) /\ late \subseteq late'
    BY <1>4, GivesUp DEF Finish, Poll, Open
  <2> QED BY <2>1, TimelyLeaves
<1>5. CASE Heartbeat(r) /\ held[Process(r)] # NoRun /\ lease.owner = held[Process(r)]
  <2> DEFINE h == held[Process(r)]
  <2>1. /\ lease.owner = h /\ lease' = [lease EXCEPT !.lasts = TRUE]
        /\ late' = late \ {h} /\ run' = run
    BY <1>5 DEF Heartbeat
  <2> HIDE DEF h
  <2>2. lease' = [owner |-> h, lasts |-> TRUE]
    BY <2>1 DEF TypeInv, Types, LeaseRow
  <2>3. \A s \in Runs : s # h => lease # [owner |-> s, lasts |-> TRUE]
    BY <2>1
  <2> QED BY <2>1, <2>2, <2>3 DEF Timely
<1>6. CASE Heartbeat(r) /\ ~(held[Process(r)] # NoRun /\ lease.owner = held[Process(r)])
  <2>1. Leave(r) /\ late \subseteq late'
    BY <1>6, GivesUp DEF Heartbeat
  <2> QED BY <2>1, TimelyLeaves
<1> QED BY <1>1, <1>2, <1>3, <1>4, <1>5, <1>6

(* Commands, deaths and time: a lease ends only when its owner is late.    *)
LEMMA TimelyOthers ==
  ASSUME TypeInv, Timely,
         \/ Retry \/ Cancel \/ JobLapses \/ LeaseLapses
         \/ \E p \in Processes : Crash(p)
  PROVE  Timely'
<1>1. CASE Retry \/ Cancel
  BY <1>1 DEF Retry, Cancel, Timely
<1>2. CASE JobLapses
  BY <1>2 DEF JobLapses, Timely
<1>3. CASE LeaseLapses
  <2>1. /\ lease.owner \in late /\ late' = late /\ run' = run
    BY <1>3 DEF LeaseLapses
  <2>2. \A r \in Runs : r \notin late => lease # [owner |-> r, lasts |-> TRUE]
    BY <2>1
  <2> QED BY <2>1, <2>2 DEF Timely
<1>4. ASSUME NEW p \in Processes, Crash(p)
      PROVE  Timely'
  <2>1. /\ \A r \in Runs : run'[r] = run[r] \/ run'[r].phase = "idle"
        /\ late' = late /\ lease' = lease
    BY <1>4 DEF Crash, TypeInv, Types, RunState, Idle
  <2> QED BY <2>1 DEF Timely
<1> QED BY <1>1, <1>2, <1>3, <1>4

(* Whatever stalled runs do when they come back, a run whose lease was     *)
(* renewed since that of its job ended keeps the Session's lease, for any  *)
(* number of processes and of slots that share a worker_id: the finally of *)
(* lease() deletes only its own row, and a heartbeat renews the row of the *)
(* run that its process remembers (bot/persistence/session_store.py).      *)
THEOREM TimelyRunsHoldTheLease == Spec => []TimelyHoldsLease
<1>1. Init => Timely
  BY DEF Init, Timely, Idle
<1>2. TypeInv /\ Timely /\ [Next]_vars => Timely'
  <2> SUFFICES ASSUME TypeInv, Timely, [Next]_vars
               PROVE  Timely'
    OBVIOUS
  <2>1. CASE UNCHANGED vars
    BY <2>1 DEF vars, Timely
  <2> QED BY <2>1, TimelyRuns, TimelyOthers, Zenon DEF Next
<1>3. Timely => TimelyHoldsLease
  BY DEF Timely, TimelyHoldsLease, IsOpen
<1> QED BY <1>1, <1>2, <1>3, InitTypes, NextTypes, PTL DEF Spec

-----------------------------------------------------------------------------
(* Without stalls: one run at a time.                                      *)

(* A run that goes on has the job, unless the job was cancelled meanwhile. *)
HasJob(r) ==
  \/ job.status = "work" /\ job.owner = Process(r) /\ job.lasts
  \/ job.status = "cancelled"

(* Inductive, where the first part of OneWriter is not: a second run finds *)
(* no job to claim.                                                        *)
Sole ==
  /\ \A r \in Runs : run[r].phase # "idle" => HasJob(r)
  /\ \A r, s \in Runs : run[r].phase # "idle" /\ run[s].phase # "idle" => r = s

(* A step that moves one run, which keeps the job or is idle afterwards.   *)
LEMMA SoleMoves ==
  ASSUME TypeInv, Sole, NEW r \in Runs, OnlyMoves(r), run[r].phase # "idle",
         run'[r].phase # "idle" => HasJob(r)'
  PROVE  Sole'
BY DEF Sole, OnlyMoves

(* Only a run that had the job gives it up.                                *)
LEMMA SoleRuns ==
  ASSUME TypeInv, Sole, NEW r \in Runs,
         \/ Claim(r) \/ Enter(r) \/ Refused(r) \/ Open(r) \/ Ask(r) \/ Return(r)
         \/ Finish(r) \/ Poll(r) \/ Heartbeat(r)
  PROVE  Sole'
<1>1. CASE Claim(r)
  <2>1. \A s \in Runs : run[s].phase = "idle"
    <3>1. /\ job.status = "work"
          /\ job.owner = None \/ ~job.lasts
      BY <1>1 DEF Claim
    <3>2. \A s \in Runs : Process(s) # None
      BY Messages, SessionLeaseAssumption DEF TypeInv
    <3> QED BY <3>1, <3>2 DEF Sole, HasJob
  <2>2. /\ OnlyMoves(r)
        /\ job' = [job EXCEPT !.owner = Process(r), !.lasts = TRUE]
        /\ job.status = "work"
    BY <1>1 DEF Claim, OnlyMoves, TypeInv, Types
  <2>3. HasJob(r)'
    BY <2>2 DEF HasJob, TypeInv, Types, JobRow
  <2> QED BY <2>1, <2>2, <2>3 DEF Sole, OnlyMoves
<1>2. CASE Enter(r) \/ Ask(r) \/ Return(r) \/ (Open(r) /\ ~Broken)
  <2>1. /\ OnlyMoves(r) /\ job' = job
        /\ run[r].phase # "idle"
    BY <1>2 DEF Enter, Ask, Return, Open, OnlyMoves, TypeInv, Types, RunState, Idle
  <2>2. HasJob(r)'
    BY <2>1 DEF Sole, HasJob
  <2> QED BY <2>1, <2>2, SoleMoves
<1>3. CASE Refused(r)
  <2>1. /\ OnlyMoves(r) /\ run[r].phase # "idle"
        /\ run'[r].phase = "idle"
    BY <1>3 DEF Refused, OnlyMoves, TypeInv, Types, Idle
  <2> QED BY <2>1, SoleMoves
<1>4. CASE Finish(r) \/ Poll(r) \/ (Open(r) /\ Broken)
  <2>1. Leave(r) /\ run[r].phase # "idle"
    BY <1>4 DEF Finish, Poll, Open
  <2>2. OnlyMoves(r) /\ run'[r].phase = "idle"
    BY <2>1, Leaves DEF Idle
  <2> QED BY <2>1, <2>2, SoleMoves
<1>5. CASE Heartbeat(r)
  <2>1. run[r].phase # "idle"
    BY <1>5 DEF Heartbeat
  <2>2. CASE run' = run /\ job' = [job EXCEPT !.lasts = TRUE]
    <3>1. HasJob(r)'
      BY <1>5, <2>2 DEF Heartbeat, Mine, HasJob, TypeInv, Types, JobRow
    <3> QED BY <2>1, <2>2, <3>1, SoleMoves DEF OnlyMoves
  <2>3. CASE Leave(r)
    <3>1. OnlyMoves(r) /\ run'[r].phase = "idle"
      BY <2>3, Leaves DEF Idle
    <3> QED BY <2>1, <3>1, SoleMoves
  <2> QED BY <1>5, <2>2, <2>3 DEF Heartbeat
<1> QED BY <1>1, <1>2, <1>3, <1>4, <1>5

(* Commands, deaths and time: a lease ends only over idle runs.            *)
LEMMA SoleOthers ==
  ASSUME TypeInv, Sole, stalls = 0, stalls' = 0,
         \/ Retry \/ Cancel \/ JobLapses \/ LeaseLapses
         \/ \E p \in Processes : Crash(p)
  PROVE  Sole'
<1>1. CASE Retry
  <2>1. /\ job.status = "retry_wait" /\ run' = run
    BY <1>1 DEF Retry
  <2>2. \A r \in Runs : run[r].phase = "idle"
    BY <2>1 DEF Sole, HasJob
  <2> QED BY <2>1, <2>2 DEF Sole
<1>2. CASE Cancel
  BY <1>2 DEF Cancel, Sole, HasJob
<1>3. CASE JobLapses
  <2>1. /\ \A r \in Runs : Process(r) = job.owner => run[r] = Idle
        /\ run' = run /\ job' = [job EXCEPT !.lasts = FALSE]
    BY <1>3 DEF JobLapses, Holders, Sole
  <2>2. \A r \in Runs : run[r].phase # "idle" => job.status = "cancelled"
    BY <2>1 DEF Sole, HasJob, Idle
  <2>3. job'.status = job.status
    BY <2>1 DEF TypeInv, Types, JobRow
  <2> QED BY <2>1, <2>2, <2>3 DEF Sole, HasJob
<1>4. CASE LeaseLapses
  BY <1>4 DEF LeaseLapses, Sole, HasJob
<1>5. ASSUME NEW p \in Processes, Crash(p)
      PROVE  Sole'
  <2>1. /\ \A r \in Runs : run'[r] = run[r] \/ run'[r].phase = "idle"
        /\ job' = job
    BY <1>5 DEF Crash, TypeInv, Types, RunState, Idle
  <2> QED BY <2>1 DEF Sole, HasJob
<1> QED BY <1>1, <1>2, <1>3, <1>4, <1>5

-----------------------------------------------------------------------------
(* Without stalls: the transcript.                                         *)

(* The call c stands at 2c - 1, and its result at 2c.                      *)
Paired ==
  \A i \in 1 .. Len(log) :
    i = IF log[i].kind = "call" THEN 2 * log[i].id - 1 ELSE 2 * log[i].id

(* The last call has its result, or still waits for it.                    *)
Complete == Len(log) = 2 * asked
Waiting == Len(log) = 2 * asked - 1

(* Inductive, where SessionStaysResumable is not: an open run knows where  *)
(* the transcript is.                                                      *)
InStep ==
  /\ Paired
  /\ Complete \/ Waiting
  /\ \A r \in Runs : run[r].phase = "open" =>
       IF run[r].call = 0 THEN Complete ELSE Waiting /\ run[r].call = asked

(* A transcript of pairs can be resumed.                                   *)
LEMMA PairsResume ==
  ASSUME Types, Paired
  PROVE  ~Broken
<1>0. Len(log) \in Nat /\ DOMAIN log = 1 .. Len(log)
      /\ \A i \in 1 .. Len(log) : log[i].id \in Nat
  BY DEF Types, Message
<1>1. ASSUME NEW i \in 1 .. Len(log), NEW j \in 1 .. Len(log), i < j, IsCall(i), IsCall(j)
      PROVE  \E k \in i .. j : log[k].id = log[i].id /\ ~IsCall(k)
  <2>1. i = 2 * log[i].id - 1 /\ j = 2 * log[j].id - 1
    BY <1>1 DEF Paired, IsCall
  <2>2. i + 1 \in 1 .. Len(log) /\ i + 1 \in i .. j
    BY <1>0, <1>1
  <2>3. log[i + 1].kind # "call"
    <3>1. log[i].id \in Nat /\ log[i + 1].id \in Nat
      BY <1>0, <2>2
    <3>2. log[i + 1].kind = "call" => i + 1 = 2 * log[i + 1].id - 1
      BY <2>2 DEF Paired
    <3> QED BY <2>1, <3>1, <3>2
  <2>4. i + 1 = 2 * log[i + 1].id
    BY <2>2, <2>3 DEF Paired
  <2>5. log[i + 1].id = log[i].id
    BY <1>0, <2>1, <2>2, <2>4
  <2> QED BY <2>2, <2>3, <2>5 DEF IsCall
<1>2. ASSUME NEW i \in 1 .. Len(log), NEW j \in 1 .. Len(log), i < j, ~IsCall(i), ~IsCall(j)
      PROVE  log[i].id # log[j].id
  <2>1. i = 2 * log[i].id /\ j = 2 * log[j].id
    BY <1>2 DEF Paired, IsCall
  <2> QED BY <1>2, <2>1
<1> QED BY <1>0, <1>1, <1>2 DEF Broken

(* Only the last call may wait.                                            *)
LEMMA OneDangles ==
  ASSUME Types, Paired, Complete \/ Waiting
  PROVE  /\ Complete => Dangling = {}
         /\ Waiting => Dangling = {asked} /\ ~Complete
<1>0. /\ Len(log) \in Nat /\ DOMAIN log = 1 .. Len(log) /\ asked \in Nat
      /\ \A i \in 1 .. Len(log) : log[i].id \in Nat
  BY DEF Types, Message
<1>1. ASSUME NEW c \in Dangling
      PROVE  Waiting /\ c = asked
  <2>1. PICK i \in 1 .. Len(log) : IsCall(i) /\ log[i].id = c
    BY <1>0 DEF Dangling, Called
  <2>2. c \in Nat /\ i = 2 * c - 1
    BY <1>0, <2>1 DEF Paired, IsCall
  <2>3. i = Len(log)
    <3> SUFFICES ASSUME i # Len(log) PROVE FALSE
      OBVIOUS
    <3>0. Len(log) \in Nat /\ i \in 1 .. Len(log) /\ i # Len(log)
      BY <1>0, <2>1
    <3>1. i + 1 \in 1 .. Len(log)
      BY <3>0
    <3>2. log[i + 1].id \in Nat
      BY <1>0, <3>1
    <3>3. CASE IsCall(i + 1)
      <4>1. i + 1 = 2 * log[i + 1].id - 1
        BY <3>1, <3>3 DEF Paired, IsCall
      <4> QED BY <2>2, <3>2, <4>1
    <3>4. CASE ~IsCall(i + 1)
      <4>1. i + 1 = 2 * log[i + 1].id
        BY <3>1, <3>4 DEF Paired, IsCall
      <4>2. log[i + 1].id = c
        BY <2>2, <3>2, <4>1
      <4> QED BY <1>0, <3>1, <3>4, <4>2 DEF Dangling
    <3> QED BY <3>3, <3>4
  <2>4. Len(log) = 2 * c - 1 /\ asked \in Nat /\ c \in Nat
    BY <1>0, <2>2, <2>3
  <2> QED BY <2>4 DEF Complete, Waiting
<1>2. ASSUME Waiting
      PROVE  asked \in Dangling /\ ~Complete
  <2>1. Len(log) = 2 * asked - 1 /\ Len(log) \in 1 .. Len(log)
    BY <1>0, <1>2 DEF Waiting
  <2>2. IsCall(Len(log)) /\ log[Len(log)].id = asked
    <3>1. log[Len(log)].id \in Nat
      BY <1>0, <2>1
    <3>2. Len(log) = IF log[Len(log)].kind = "call" THEN 2 * log[Len(log)].id - 1
                     ELSE 2 * log[Len(log)].id
      BY <2>1 DEF Paired
    <3> QED BY <1>0, <2>1, <3>1, <3>2 DEF IsCall
  <2>3. \A i \in 1 .. Len(log) : log[i].id = asked => IsCall(i)
    <3> SUFFICES ASSUME NEW i \in 1 .. Len(log), log[i].id = asked, ~IsCall(i)
                 PROVE  FALSE
      OBVIOUS
    <3>1. i = 2 * asked
      BY DEF Paired, IsCall
    <3> QED BY <1>0, <2>1, <3>1
  <2>4. asked \in Called
    BY <1>0, <2>1, <2>2 DEF Called
  <2> QED BY <1>0, <2>1, <2>3, <2>4 DEF Dangling, Complete
<1>3. Complete => ~Waiting
  BY <1>0 DEF Complete, Waiting
<1> QED BY <1>1, <1>2, <1>3

(* The call that waits gets its result.                                    *)
LEMMA Answered ==
  ASSUME Types, Paired, Waiting, NEW code \in {"cancelled", "interrupted", "real"},
         log' = Append(log, Result(asked, code)), asked' = asked
  PROVE  Paired' /\ Complete'
<1>1. Result(asked, code) \in Message /\ Result(asked, code).kind = "result"
      /\ Result(asked, code).id = asked
  BY DEF Types, Message, Result
<1>2. /\ Len(log') = Len(log) + 1 /\ Len(log) \in Nat
      /\ \A i \in 1 .. Len(log) : log'[i] = log[i]
      /\ log'[Len(log) + 1] = Result(asked, code)
  BY <1>1, Appended
<1>3. Len(log) + 1 = 2 * asked
  BY <1>2 DEF Waiting, Types
<1>4. \A i \in 1 .. Len(log') : i \in 1 .. Len(log) \/ i = Len(log) + 1
  BY <1>2
<1>5. Paired'
  BY <1>1, <1>2, <1>3, <1>4 DEF Paired
<1> QED BY <1>2, <1>3, <1>5 DEF Complete

(* A new call comes after a complete transcript.                           *)
LEMMA Asked ==
  ASSUME Types, Paired, Complete,
         log' = Append(log, Call(asked + 1)), asked' = asked + 1
  PROVE  Paired' /\ Waiting'
<1>1. Call(asked + 1) \in Message /\ Call(asked + 1).kind = "call"
      /\ Call(asked + 1).id = asked + 1
  BY DEF Types, Message, Call
<1>2. /\ Len(log') = Len(log) + 1 /\ Len(log) \in Nat
      /\ \A i \in 1 .. Len(log) : log'[i] = log[i]
      /\ log'[Len(log) + 1] = Call(asked + 1)
  BY <1>1, Appended
<1>3. Len(log) + 1 = 2 * (asked + 1) - 1
  BY <1>2 DEF Complete, Types
<1>4. \A i \in 1 .. Len(log') : i \in 1 .. Len(log) \/ i = Len(log) + 1
  BY <1>2
<1>5. Paired'
  BY <1>1, <1>2, <1>3, <1>4 DEF Paired
<1> QED BY <1>2, <1>3, <1>5 DEF Waiting, Types

(* A run that stops leaves no call of its own without a result.            *)
LEMMA StoppedInStep ==
  ASSUME TypeInv, InStep, NEW r \in Runs, run[r].phase = "open", Stopped(r), asked' = asked
  PROVE  Paired' /\ (Complete \/ Waiting)'
<1>1. CASE run[r].call = 0
  BY <1>1 DEF Stopped, InStep, Paired, Complete, Waiting
<1>2. CASE run[r].call # 0
  <2>1. /\ Waiting /\ Paired /\ Types
        /\ log' = Append(log, Result(asked, "cancelled"))
    BY <1>2 DEF Stopped, InStep, TypeInv
  <2> QED BY <2>1, Answered
<1> QED BY <1>1, <1>2

(* A step that moves one run, after which it is idle or knows the          *)
(* transcript: where it writes, it is the only run.                        *)
LEMMA InStepMoves ==
  ASSUME TypeInv, Sole, InStep, NEW r \in Runs, OnlyMoves(r),
         (log' = log /\ asked' = asked) \/ run[r].phase # "idle",
         Paired', (Complete \/ Waiting)',
         run'[r].phase = "open" =>
           IF run'[r].call = 0 THEN Complete' ELSE Waiting' /\ run'[r].call = asked'
  PROVE  InStep'
<1>1. ASSUME NEW s \in Runs, run'[s].phase = "open"
      PROVE  IF run'[s].call = 0 THEN Complete' ELSE Waiting' /\ run'[s].call = asked'
  <2>1. CASE s = r
    BY <1>1, <2>1
  <2>2. CASE s # r
    <3>1. run'[s] = run[s] /\ run[s].phase = "open"
      BY <1>1, <2>2 DEF OnlyMoves
    <3>2. log' = log /\ asked' = asked
      BY <2>2, <3>1 DEF Sole
    <3> QED BY <3>1, <3>2 DEF InStep, Complete, Waiting
  <2> QED BY <2>1, <2>2
<1> QED BY <1>1 DEF InStep

(* The steps that leave the transcript alone.                              *)
LEMMA SameTranscript ==
  ASSUME InStep, log' = log, asked' = asked,
         \A r \in Runs : run'[r].phase = "open" => run'[r] = run[r]
  PROVE  InStep'
BY DEF InStep, Paired, Complete, Waiting

(* A run opens the Session: the call without a result gets one.            *)
LEMMA OpenInStep ==
  ASSUME TypeInv, Sole, InStep, NEW r \in Runs, Open(r)
  PROVE  InStep'
<1>1. ~Broken
  BY PairsResume DEF TypeInv, InStep
<1>2. /\ log' = Repaired /\ asked' = asked
      /\ run' = [run EXCEPT ![r].phase = "open"] /\ run[r].phase = "entered"
  BY <1>1 DEF Open
<1>3. /\ OnlyMoves(r) /\ run'[r].call = 0
  BY <1>2 DEF TypeInv, Types, Shape, RunState, OnlyMoves
<1>4. Paired' /\ Complete'
  <2>1. CASE Complete
    <3>1. log' = log
      BY <1>2, <2>1, OneDangles DEF Repaired, TypeInv, InStep
    <3> QED BY <1>2, <2>1, <3>1 DEF InStep, Paired, Complete
  <2>2. CASE Waiting
    <3>1. Dangling = {asked}
      BY <2>2, OneDangles DEF TypeInv, InStep
    <3>2. log' = Append(log, Result(asked, "interrupted"))
      BY <1>2, <3>1 DEF Repaired
    <3> QED BY <1>2, <2>2, <3>2, Answered DEF TypeInv, InStep
  <2> QED BY <2>1, <2>2 DEF InStep
<1> QED BY <1>2, <1>3, <1>4, InStepMoves

(* The steps of a run.                                                     *)
LEMMA InStepRuns ==
  ASSUME TypeInv, Sole, InStep, NEW r \in Runs,
         \/ Claim(r) \/ Enter(r) \/ Refused(r) \/ Open(r) \/ Ask(r) \/ Return(r)
         \/ Finish(r) \/ Poll(r) \/ Heartbeat(r)
  PROVE  InStep'
<1>1. CASE Claim(r) \/ Enter(r) \/ Refused(r)
  <2>1. /\ log' = log /\ asked' = asked
        /\ \A s \in Runs : run'[s].phase = "open" => run'[s] = run[s]
    BY <1>1 DEF Claim, Enter, Refused, TypeInv, Types, RunState, Idle
  <2> QED BY <2>1, SameTranscript
<1>2. CASE Open(r)
  BY <1>2, OpenInStep
<1>3. CASE Ask(r)
  <2>1. /\ run[r].phase = "open" /\ run[r].call = 0 /\ asked' = asked + 1
        /\ log' = Append(log, Call(asked + 1)) /\ OnlyMoves(r)
        /\ run'[r].call = asked'
    BY <1>3 DEF Ask, TypeInv, Types, RunState, OnlyMoves
  <2>2. Complete /\ Paired /\ Types
    BY <2>1 DEF InStep, TypeInv
  <2>3. Paired' /\ Waiting'
    BY <2>1, <2>2, Asked
  <2>4. run'[r].call # 0
    BY <2>1 DEF TypeInv, Types
  <2> QED BY <2>1, <2>3, <2>4, InStepMoves
<1>4. CASE Return(r)
  <2>1. /\ run[r].phase = "open" /\ run[r].call # 0 /\ asked' = asked /\ OnlyMoves(r)
        /\ log' = Append(log, Result(run[r].call, "real")) /\ run'[r].call = 0
    BY <1>4 DEF Return, TypeInv, Types, RunState, OnlyMoves
  <2>2. Waiting /\ run[r].call = asked /\ Paired /\ Types
    BY <2>1 DEF InStep, TypeInv
  <2>3. Paired' /\ Complete'
    BY <2>1, <2>2, Answered
  <2> QED BY <2>1, <2>3, InStepMoves
<1>5. CASE Finish(r)
  <2>1. Leave(r) /\ log' = log /\ asked' = asked
    BY <1>5 DEF Finish
  <2>2. \A s \in Runs : run'[s].phase = "open" => run'[s] = run[s]
    BY <2>1, Leaves DEF OnlyMoves, Idle
  <2> QED BY <2>1, <2>2, SameTranscript
<1>6. CASE (Poll(r) \/ Heartbeat(r)) /\ Leave(r)
  <2>1. Stopped(r) /\ asked' = asked /\ run[r].phase = "open"
    <3>1. Heartbeat(r) /\ ~Stopped(r) => run' = run /\ run[r].phase = "open"
      BY DEF Heartbeat
    <3>2. run' # run \/ run[r].phase = "idle"
      BY <1>6, Leaves DEF Idle
    <3> QED BY <1>6, <3>1, <3>2 DEF Poll, Heartbeat
  <2>2. Paired' /\ (Complete \/ Waiting)'
    BY <2>1, StoppedInStep
  <2>3. OnlyMoves(r) /\ run'[r].phase = "idle"
    BY <1>6, Leaves DEF Idle
  <2> QED BY <2>1, <2>2, <2>3, InStepMoves
<1>7. CASE Heartbeat(r) /\ ~Leave(r)
  <2>1. log' = log /\ asked' = asked /\ run' = run
    BY <1>7 DEF Heartbeat
  <2> QED BY <2>1, SameTranscript
<1> QED BY <1>1, <1>2, <1>3, <1>4, <1>5, <1>6, <1>7 DEF Poll

(* Commands, deaths and time.                                              *)
LEMMA InStepOthers ==
  ASSUME TypeInv, InStep,
         \/ Retry \/ Cancel \/ JobLapses \/ LeaseLapses
         \/ \E p \in Processes : Crash(p)
  PROVE  InStep'
<1>1. /\ log' = log /\ asked' = asked
      /\ \A r \in Runs : run'[r].phase = "open" => run'[r] = run[r]
  <2>1. CASE Retry \/ Cancel \/ JobLapses \/ LeaseLapses
    BY <2>1 DEF Retry, Cancel, JobLapses, LeaseLapses
  <2>2. ASSUME NEW p \in Processes, Crash(p)
        PROVE  /\ log' = log /\ asked' = asked
               /\ \A r \in Runs : run'[r].phase = "open" => run'[r] = run[r]
    BY <2>2 DEF Crash, TypeInv, Types, RunState, Idle
  <2> QED BY <2>1, <2>2
<1> QED BY <1>1, SameTranscript

-----------------------------------------------------------------------------
(* The theorems without stalls.                                            *)

(* Stalls are counted one by one.                                          *)
LEMMA StallsAreCounted ==
  ASSUME [Next]_vars
  PROVE  stalls' = stalls \/ stalls' = stalls + 1
BY DEF Next, vars, Claim, Enter, Refused, Open, Ask, Return, Finish, Poll, Heartbeat,
   Retry, Cancel, JobLapses, LeaseLapses, Crash

(* What holds until a process stalls; a stall is never forgotten.          *)
Calm ==
  /\ stalls \in Nat
  /\ stalls = 0 => Sole /\ InStep

(* The invariant of the next theorems.                                     *)
LEMMA SessionInvariant == Spec => [](TypeInv /\ Calm)
<1>1. Init => Calm
  BY DEF Init, Calm, Sole, InStep, Paired, Complete, Waiting, Idle
<1>2. TypeInv /\ Calm /\ [Next]_vars => Calm'
  <2> SUFFICES ASSUME TypeInv, Calm, [Next]_vars, stalls' = 0
               PROVE  Sole' /\ InStep'
    BY StallsAreCounted DEF Calm
  <2>1. stalls = 0
    BY StallsAreCounted DEF Calm
  <2>2. Sole /\ InStep
    BY <2>1 DEF Calm
  <2>3. CASE UNCHANGED vars
    BY <2>2, <2>3 DEF vars, Sole, HasJob, InStep, Paired, Complete, Waiting
  <2> QED BY <2>1, <2>2, <2>3, SoleRuns, SoleOthers, InStepRuns, InStepOthers, Zenon DEF Next
<1> QED BY <1>1, <1>2, InitTypes, NextTypes, PTL DEF Spec

(* Whichever process dies between a call and its result, the next run can  *)
(* load the Session: _repair_interrupted_tool_uses (runtime/query.py)      *)
(* never meets a call repeated over, or a second result.                   *)
THEOREM SessionIsResumable == Spec => []SessionStaysResumable
<1>1. TypeInv /\ Calm => SessionStaysResumable
  BY PairsResume DEF TypeInv, Calm, InStep, SessionStaysResumable, Resumable
<1> QED BY <1>1, SessionInvariant, PTL

(* One run at a time writes to the Session, and the calls that wait for a  *)
(* result in its memory are those of the database: the claim of the job    *)
(* (claim_job) keeps a second run out for as long as the first goes on.    *)
THEOREM SessionHasOneWriter == Spec => []OneWriter
<1>1. TypeInv /\ Calm => OneWriter
  <2> SUFFICES ASSUME TypeInv, Sole, InStep
               PROVE  /\ \A r, s \in Runs : IsOpen(r) /\ IsOpen(s) => r = s
                      /\ \A r \in Runs : IsOpen(r) =>
                           Dangling = IF run[r].call = 0 THEN {} ELSE {run[r].call}
    BY DEF Calm, OneWriter
  <2>1. \A r, s \in Runs : IsOpen(r) /\ IsOpen(s) => r = s
    BY DEF Sole, IsOpen
  <2>2. ASSUME NEW r \in Runs, IsOpen(r)
        PROVE  Dangling = IF run[r].call = 0 THEN {} ELSE {run[r].call}
    BY <2>2, OneDangles DEF InStep, IsOpen, TypeInv
  <2> QED BY <2>1, <2>2
<1> QED BY <1>1, SessionInvariant, PTL

====

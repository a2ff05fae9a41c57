--------------------------- MODULE WorktreesProofs ---------------------------
(***************************************************************************)
(* What the worktrees keep, proved for any Sessions, names and bounds.  No *)
(* work is lost that nobody discarded, although every Git command is a     *)
(* step of its own and a call may be cancelled or die between any two.     *)
(* Where nothing is cancelled and nobody dies, each Session is in the      *)
(* worktree it created, alone.                                             *)
(***************************************************************************)
EXTENDS Worktrees, TLAPS

-----------------------------------------------------------------------------
(* Types.                                                                  *)

TreeRow == [there : BOOLEAN, by : Sessions \cup {None}, dirty : BOOLEAN]
BranchRow == [there : BOOLEAN, ahead : BOOLEAN]

Entering == {"add", "entered"}
Leaving == {"validate", "dirty", "ahead", "remove", "branch", "left"}
Steps == {"off", "ready"} \cup Entering \cup Leaving
ProcState ==
  [step : Steps, name : Names \cup {None}, discard : BOOLEAN, cancelled : BOOLEAN]

Types ==
  /\ tree \in [Names -> TreeRow] /\ branch \in [Names -> BranchRow]
  /\ merged \in BOOLEAN /\ kept \subseteq Names
  /\ saved \in [Sessions -> Names \cup {None}]
  /\ proc \in [Sessions -> ProcState]
  /\ \A s \in Sessions : proc[s].step \in Entering \cup Leaving => proc[s].name \in Names

(* Only what is there is dirty or ahead, and a directory has its branch.   *)
Rows ==
  \A n \in Names :
    /\ tree[n].dirty => tree[n].there
    /\ tree[n].there => branch[n].there
    /\ branch[n].ahead => branch[n].there

(* Between the two commands of a removal the directory is gone and the     *)
(* branch is there, so nobody can create the worktree again; what is       *)
(* discarded is no work to be kept; and one removal at a time is there.    *)
Removing(s) ==
  proc[s].step = "branch" =>
    /\ ~tree[proc[s].name].there /\ branch[proc[s].name].there
    /\ proc[s].discard => proc[s].name \notin kept

RemovedOnce ==
  \A s, t \in Sessions :
    s # t /\ proc[s].step = "branch" /\ proc[t].step = "branch" => proc[s].name # proc[t].name

KeptInv ==
  /\ Types
  /\ Rows
  /\ \A s \in Sessions : Removing(s)
  /\ RemovedOnce
  /\ WorkIsKept

-----------------------------------------------------------------------------
(* The steps, by what they do to one process and to the rows.              *)

(* Session s moves on in its call, or ends it.                             *)
Moves(s, to) == proc' = [proc EXCEPT ![s] = to]

Idle(to) == to.step \in {"off", "ready"}

(* A step that touches neither directories nor branches, and begins no     *)
(* second command of a removal.                                            *)
Quiet ==
  /\ UNCHANGED <<tree, branch, kept>>
  /\ merged' \in BOOLEAN
  /\ saved' \in [Sessions -> Names \cup {None}]
  /\ \/ UNCHANGED proc
     \/ \E s \in Sessions, to \in ProcState :
          /\ Moves(s, to)
          /\ Idle(to) \/ to.name \in Names
          /\ to.step = "branch" =>
               to.name = proc[s].name /\ to.discard = proc[s].discard /\ proc[s].step = "branch"

(* Success of the three Git commands that change something.                *)
Added(s) ==
  /\ GitAdd(s) /\ ~tree[proc[s].name].there /\ ~branch[proc[s].name].there
Removed(s) ==
  /\ GitRemove(s) /\ tree[proc[s].name].there
  /\ ~tree[proc[s].name].dirty \/ proc[s].discard
Pruned(s) ==
  /\ GitBranch(s) /\ branch[proc[s].name].there
  /\ proc[s].discard \/ (~branch[proc[s].name].ahead /\ merged)

(* A call that fails or ends leaves its process idle.                      *)
LEMMA Ends ==
  ASSUME Types, NEW s \in Sessions, Fail(s)
  PROVE  \E to \in ProcState : Moves(s, to) /\ Idle(to)
<1> DEFINE to == IF proc[s].cancelled THEN Off ELSE Ready
<1>1. to \in ProcState /\ Idle(to)
  BY DEF Off, Ready, ProcState, Steps, Idle
<1>2. Moves(s, to)
  BY DEF Fail, Moves
<1> HIDE DEF to
<1> QED BY <1>1, <1>2

(* A step within a call keeps its name and its kind.                       *)
LEMMA StepsOn ==
  ASSUME Types, NEW s \in Sessions, NEW step \in Steps, Step(s, step),
         proc[s].step \in Entering \cup Leaving
  PROVE  \E to \in ProcState :
           /\ Moves(s, to)
           /\ to.step = step /\ to.name = proc[s].name /\ to.name \in Names
           /\ to.discard = proc[s].discard /\ to.cancelled = proc[s].cancelled
<1> DEFINE to == [proc[s] EXCEPT !.step = step]
<1>1. /\ to \in ProcState
      /\ to.step = step /\ to.name = proc[s].name /\ to.name \in Names
      /\ to.discard = proc[s].discard /\ to.cancelled = proc[s].cancelled
  BY DEF Types, ProcState
<1>2. Moves(s, to)
  BY DEF Step, Moves
<1> HIDE DEF to
<1> QED BY <1>1, <1>2

(* Every step of a Session is quiet or one of the three.                   *)
LEMMA QuietOrGit ==
  ASSUME Types, Next
  PROVE  \/ Quiet
         \/ \E s \in Sessions : Added(s) \/ Removed(s) \/ Pruned(s)
         \/ \E n \in Names : Write(n) \/ CommitWork(n)
<1> USE DEF Types
<1>1. ASSUME NEW s \in Sessions, NEW n \in Names, Enter(s, n) PROVE Quiet
  <2> DEFINE to == [step |-> "add", name |-> n, discard |-> FALSE, cancelled |-> FALSE]
  <2>1. to \in ProcState /\ to.name \in Names /\ to.step # "branch"
    BY DEF ProcState, Steps, Entering
  <2>2. Moves(s, to)
    BY <1>1 DEF Enter, Moves
  <2> HIDE DEF to
  <2> QED BY <1>1, <2>1, <2>2 DEF Enter, Quiet
<1>2. ASSUME NEW s \in Sessions, NEW discard \in BOOLEAN, Remove(s, discard) PROVE Quiet
  <2> DEFINE to ==
        [step |-> "validate", name |-> saved[s], discard |-> discard, cancelled |-> FALSE]
  <2>1. to \in ProcState /\ to.name \in Names /\ to.step # "branch"
    BY <1>2 DEF Remove, ProcState, Steps, Leaving
  <2>2. Moves(s, to)
    BY <1>2 DEF Remove, Moves
  <2> HIDE DEF to
  <2> QED BY <1>2, <2>1, <2>2 DEF Remove, Quiet
<1>3. ASSUME NEW s \in Sessions, UNCHANGED <<tree, branch, kept, merged>>,
             saved' \in [Sessions -> Names \cup {None}], Fail(s)
      PROVE  Quiet
  BY <1>3, Ends DEF Quiet, Idle
<1>4. ASSUME NEW s \in Sessions, UNCHANGED <<tree, branch, kept, merged, saved>>,
             NEW step \in Steps \ {"branch"}, Step(s, step), proc[s].step \in Entering \cup Leaving
      PROVE  Quiet
  <2>1. PICK to \in ProcState :
          Moves(s, to) /\ to.step = step /\ to.name = proc[s].name /\ to.name \in Names
    BY <1>4, StepsOn
  <2> QED BY <1>4, <2>1 DEF Quiet
<1>5. ASSUME NEW s \in Sessions, GitAdd(s) PROVE Quiet \/ Added(s)
  BY <1>3, <1>5 DEF GitAdd, Added
<1>6. ASSUME NEW s \in Sessions, SaveEntered(s) \/ SaveLeft(s) PROVE Quiet
  <2>1. saved' \in [Sessions -> Names \cup {None}]
    BY <1>6 DEF SaveEntered, SaveLeft, Return, Entering
  <2> QED BY <1>3, <1>6, <2>1 DEF SaveEntered, SaveLeft, Return
<1>7. ASSUME NEW s \in Sessions, Keep(s) PROVE Quiet
  BY <1>7 DEF Keep, Quiet
<1>8. ASSUME NEW s \in Sessions, Validate(s) \/ CheckDirty(s) \/ CheckAhead(s) PROVE Quiet
  <2>1. /\ UNCHANGED <<tree, branch, kept, merged, saved>>
        /\ proc[s].step \in Entering \cup Leaving
        /\ Fail(s) \/ Step(s, "remove") \/ Step(s, "dirty") \/ Step(s, "ahead")
    BY <1>8 DEF Validate, CheckDirty, CheckAhead, Leaving
  <2>2. {"remove", "dirty", "ahead"} \subseteq Steps \ {"branch"}
    BY DEF Steps, Leaving
  <2> QED BY <1>3, <1>4, <2>1, <2>2
<1>9. ASSUME NEW s \in Sessions, GitRemove(s) PROVE Quiet \/ Removed(s)
  BY <1>3, <1>9 DEF GitRemove, Removed
<1>10. ASSUME NEW s \in Sessions, GitBranch(s) PROVE Quiet \/ Pruned(s)
  BY <1>3, <1>10 DEF GitBranch, Pruned
<1>11. ASSUME NEW s \in Sessions, Cancel(s) PROVE Quiet
  <2> DEFINE to == [proc[s] EXCEPT !.cancelled = TRUE]
  <2>1. /\ to \in ProcState /\ to.name = proc[s].name /\ to.discard = proc[s].discard
        /\ to.step = proc[s].step /\ proc[s].step \in Entering \cup Leaving
    BY <1>11 DEF Cancel, ProcState, Steps
  <2>2. Moves(s, to)
    BY <1>11 DEF Cancel, Moves
  <2> HIDE DEF to
  <2> QED BY <1>11, <2>1, <2>2 DEF Cancel, Quiet
<1>12. ASSUME NEW s \in Sessions, Crash(s) \/ Leave(s) \/ Resume(s) PROVE Quiet
  <2>1. \/ proc' = [proc EXCEPT ![s] = Off]
        \/ proc' = [proc EXCEPT ![s] = Ready]
    BY <1>12 DEF Crash, Leave, Resume
  <2>2. UNCHANGED <<tree, branch, kept, merged, saved>>
    BY <1>12 DEF Crash, Leave, Resume
  <2>3. Off \in ProcState /\ Idle(Off) /\ Ready \in ProcState /\ Idle(Ready)
    BY DEF Off, Ready, ProcState, Steps, Idle
  <2> QED BY <2>1, <2>2, <2>3 DEF Quiet, Moves, Idle
<1>13. ASSUME Switch PROVE Quiet
  BY <1>13 DEF Switch, Quiet
<1> QED BY <1>1, <1>2, <1>5, <1>6, <1>7, <1>8, <1>9, <1>10, <1>11, <1>12, <1>13 DEF Next

-----------------------------------------------------------------------------
(* What the steps keep.                                                    *)

(* A quiet step.                                                           *)
LEMMA QuietKeeps ==
  ASSUME KeptInv, Quiet
  PROVE  KeptInv'
<1>1. UNCHANGED <<tree, branch, kept>> /\ Types
  BY DEF Quiet, KeptInv
<1>2. Rows' /\ WorkIsKept'
  BY <1>1 DEF KeptInv, Rows, WorkIsKept
<1>3. CASE UNCHANGED proc
  BY <1>1, <1>2, <1>3 DEF Quiet, KeptInv, Types, Removing, RemovedOnce
<1>4. CASE ~UNCHANGED proc
  <2>1. PICK s \in Sessions, to \in ProcState :
          /\ Moves(s, to)
          /\ Idle(to) \/ to.name \in Names
          /\ to.step = "branch" =>
               to.name = proc[s].name /\ to.discard = proc[s].discard /\ proc[s].step = "branch"
    BY <1>4 DEF Quiet
  <2>2. /\ proc' \in [Sessions -> ProcState] /\ proc'[s] = to
        /\ \A t \in Sessions \ {s} : proc'[t] = proc[t]
    BY <1>1, <2>1 DEF Moves, Types
  <2>3. Types'
    BY <1>1, <2>1, <2>2 DEF Quiet, Types, Idle, Entering, Leaving
  <2>4. \A t \in Sessions : Removing(t)'
    BY <1>1, <2>1, <2>2 DEF KeptInv, Removing
  <2>5. RemovedOnce'
    BY <2>1, <2>2 DEF KeptInv, RemovedOnce
  <2> QED BY <1>2, <2>3, <2>4, <2>5 DEF KeptInv
<1> QED BY <1>3, <1>4

(* A worktree is created: its name was free, so no removal is under way.   *)
LEMMA AddKeeps ==
  ASSUME KeptInv, NEW s \in Sessions, Added(s)
  PROVE  KeptInv'
<1> DEFINE n == proc[s].name
<1>1. /\ Types /\ n \in Names /\ proc[s].step = "add"
      /\ ~tree[n].there /\ ~branch[n].there
      /\ tree' = [tree EXCEPT ![n] = [there |-> TRUE, by |-> s, dirty |-> FALSE]]
      /\ branch' = [branch EXCEPT ![n] = [there |-> TRUE, ahead |-> FALSE]]
      /\ Step(s, "entered") /\ UNCHANGED <<kept, merged, saved>>
  BY DEF KeptInv, Types, Added, GitAdd, Entering
<1>2. PICK to \in ProcState : Moves(s, to) /\ to.step = "entered" /\ to.name \in Names
  <2>1. "entered" \in Steps /\ proc[s].step \in Entering \cup Leaving
    BY <1>1 DEF Steps, Entering
  <2> QED BY <1>1, <2>1, StepsOn
<1>3. /\ proc' \in [Sessions -> ProcState] /\ proc'[s] = to
      /\ \A t \in Sessions \ {s} : proc'[t] = proc[t]
  BY <1>1, <1>2 DEF Moves, Types
<1>4. /\ tree' \in [Names -> TreeRow] /\ branch' \in [Names -> BranchRow]
      /\ tree'[n].there /\ ~tree'[n].dirty /\ branch'[n].there /\ ~branch'[n].ahead
      /\ \A m \in Names \ {n} : tree'[m] = tree[m] /\ branch'[m] = branch[m]
  BY <1>1 DEF Types, TreeRow, BranchRow
<1>5. Types'
  BY <1>1, <1>2, <1>3, <1>4 DEF Types
<1>6. n \notin kept
  BY <1>1 DEF KeptInv, WorkIsKept, Rows
<1>7. Rows' /\ WorkIsKept'
  BY <1>1, <1>4, <1>6 DEF KeptInv, Rows, WorkIsKept
<1>8. ASSUME NEW t \in Sessions PROVE Removing(t)'
  <2>1. CASE proc'[t].step = "branch"
    <3>1. /\ t # s /\ proc'[t] = proc[t] /\ proc[t].name \in Names
          /\ Removing(t) /\ proc[t].step = "branch"
      BY <1>1, <1>2, <1>3, <2>1 DEF KeptInv, Types, Leaving
    <3>2. proc[t].name # n
      BY <1>1, <3>1 DEF Removing
    <3> QED BY <1>1, <1>4, <3>1, <3>2 DEF Removing
  <2> QED BY <2>1 DEF Removing
<1>9. RemovedOnce'
  BY <1>2, <1>3 DEF KeptInv, RemovedOnce
<1> QED BY <1>5, <1>7, <1>8, <1>9 DEF KeptInv

(* The directory goes: clean, or with the work somebody decided to discard.*)
LEMMA RemoveKeeps ==
  ASSUME KeptInv, NEW s \in Sessions, Removed(s)
  PROVE  KeptInv'
<1> DEFINE n == proc[s].name
<1>1. /\ Types /\ n \in Names /\ proc[s].step = "remove"
      /\ tree[n].there /\ (~tree[n].dirty \/ proc[s].discard)
      /\ tree' = [tree EXCEPT ![n] = NoTree]
      /\ kept' = IF proc[s].discard THEN kept \ {n} ELSE kept
      /\ Step(s, "branch") /\ UNCHANGED <<branch, merged, saved>>
  BY DEF KeptInv, Types, Removed, GitRemove, Leaving
<1>2. PICK to \in ProcState :
        /\ Moves(s, to) /\ to.step = "branch" /\ to.name = n /\ to.discard = proc[s].discard
  <2>1. "branch" \in Steps /\ proc[s].step \in Entering \cup Leaving
    BY <1>1 DEF Steps, Leaving
  <2> QED BY <1>1, <2>1, StepsOn
<1>3. /\ proc' \in [Sessions -> ProcState] /\ proc'[s] = to
      /\ \A t \in Sessions \ {s} : proc'[t] = proc[t]
  BY <1>1, <1>2 DEF Moves, Types
<1>4. /\ tree' \in [Names -> TreeRow] /\ ~tree'[n].there /\ ~tree'[n].dirty
      /\ \A m \in Names \ {n} : tree'[m] = tree[m]
  BY <1>1 DEF Types, TreeRow, NoTree
<1>5. Types'
  BY <1>1, <1>2, <1>3, <1>4 DEF Types
<1>6. Rows'
  BY <1>1, <1>4 DEF KeptInv, Rows
<1>7. WorkIsKept'
  BY <1>1, <1>4 DEF KeptInv, Types, WorkIsKept
<1>8. branch[n].there
  BY <1>1 DEF KeptInv, Rows
<1>9. \A t \in Sessions \ {s} : proc[t].step = "branch" => proc[t].name # n /\ proc[t].name \in Names
  BY <1>1 DEF KeptInv, Removing, Types, Leaving
<1>10. ASSUME NEW t \in Sessions PROVE Removing(t)'
  <2>1. CASE t = s
    BY <1>1, <1>2, <1>3, <1>4, <1>8, <2>1 DEF Removing
  <2>2. CASE t # s
    BY <1>1, <1>3, <1>4, <1>9, <2>2 DEF KeptInv, Removing
  <2> QED BY <2>1, <2>2
<1>11. RemovedOnce'
  BY <1>2, <1>3, <1>9 DEF KeptInv, RemovedOnce
<1> QED BY <1>5, <1>6, <1>7, <1>10, <1>11 DEF KeptInv

(* The branch goes: it is not ahead, or its work was discarded.            *)
LEMMA PruneKeeps ==
  ASSUME KeptInv, NEW s \in Sessions, Pruned(s)
  PROVE  KeptInv'
<1> DEFINE n == proc[s].name
<1>1. /\ Types /\ n \in Names /\ proc[s].step = "branch"
      /\ branch[n].there /\ (proc[s].discard \/ ~branch[n].ahead)
      /\ branch' = [branch EXCEPT ![n] = NoBranch]
      /\ Step(s, "left") /\ UNCHANGED <<tree, merged, saved, kept>>
  BY DEF KeptInv, Types, Pruned, GitBranch, Leaving
<1>2. PICK to \in ProcState : Moves(s, to) /\ to.step = "left" /\ to.name \in Names
  <2>1. "left" \in Steps /\ proc[s].step \in Entering \cup Leaving
    BY <1>1 DEF Steps, Leaving
  <2> QED BY <1>1, <2>1, StepsOn
<1>3. /\ proc' \in [Sessions -> ProcState] /\ proc'[s] = to
      /\ \A t \in Sessions \ {s} : proc'[t] = proc[t]
  BY <1>1, <1>2 DEF Moves, Types
<1>4. /\ branch' \in [Names -> BranchRow] /\ ~branch'[n].there /\ ~branch'[n].ahead
      /\ \A m \in Names \ {n} : branch'[m] = branch[m]
  BY <1>1 DEF Types, BranchRow, NoBranch
<1>5. Types'
  BY <1>1, <1>2, <1>3, <1>4 DEF Types
<1>6. ~tree[n].there /\ (proc[s].discard => n \notin kept) /\ ~tree[n].dirty
  BY <1>1 DEF KeptInv, Removing, Rows
<1>7. n \notin kept
  BY <1>1, <1>6 DEF KeptInv, WorkIsKept
<1>8. Rows' /\ WorkIsKept'
  BY <1>1, <1>4, <1>6, <1>7 DEF KeptInv, Rows, WorkIsKept
<1>9. \A t \in Sessions \ {s} : proc[t].step = "branch" => proc[t].name # n /\ proc[t].name \in Names
  BY <1>1 DEF KeptInv, RemovedOnce, Types, Leaving
<1>10. ASSUME NEW t \in Sessions PROVE Removing(t)'
  <2>1. CASE t = s
    BY <1>2, <1>3, <2>1 DEF Removing
  <2>2. CASE t # s
    BY <1>1, <1>3, <1>4, <1>9, <2>2 DEF KeptInv, Removing
  <2> QED BY <2>1, <2>2
<1>11. RemovedOnce'
  BY <1>2, <1>3 DEF KeptInv, RemovedOnce
<1> QED BY <1>5, <1>8, <1>10, <1>11 DEF KeptInv

(* A process works in a directory that is there.                           *)
LEMMA WorkKeeps ==
  ASSUME KeptInv, NEW n \in Names, Write(n) \/ CommitWork(n)
  PROVE  KeptInv'
<1>1. /\ Types /\ tree[n].there /\ branch[n].there
      /\ UNCHANGED <<merged, saved, proc>>
  BY DEF KeptInv, Rows, Write, CommitWork
<1>2. /\ tree' \in [Names -> TreeRow] /\ branch' \in [Names -> BranchRow] /\ kept' \subseteq Names
      /\ \A m \in Names : tree'[m].there = tree[m].there /\ branch'[m].there = branch[m].there
      /\ \A m \in Names \ {n} : tree'[m] = tree[m] /\ branch'[m] = branch[m]
      /\ \A m \in Names \ {n} : m \in kept' => m \in kept
      /\ tree'[n].dirty \/ branch'[n].ahead
  <2>1. CASE Write(n)
    BY <1>1, <2>1 DEF Write, Types, TreeRow
  <2>2. CASE CommitWork(n)
    BY <1>1, <2>2 DEF CommitWork, Types, TreeRow, BranchRow
  <2> QED BY <2>1, <2>2
<1>3. Types'
  BY <1>1, <1>2 DEF Types
<1>4. Rows' /\ WorkIsKept'
  BY <1>1, <1>2 DEF KeptInv, Rows, WorkIsKept, Types
<1>5. ASSUME NEW t \in Sessions, proc[t].step = "branch" PROVE Removing(t)'
  <2>1. proc[t].name \in Names /\ proc[t].name # n /\ Removing(t)
    BY <1>1, <1>5 DEF KeptInv, Removing, Types, Leaving
  <2> QED BY <1>1, <1>2, <1>5, <2>1 DEF Removing
<1>6. RemovedOnce' /\ \A t \in Sessions : Removing(t)'
  BY <1>1, <1>5 DEF KeptInv, RemovedOnce, Removing
<1> QED BY <1>3, <1>4, <1>6 DEF KeptInv

(* Nothing is there at first, and every step keeps the invariant.          *)
LEMMA KeptAlways == Spec => []KeptInv
<1>1. Init => KeptInv
  <2> SUFFICES ASSUME Init PROVE KeptInv
    OBVIOUS
  <2>1. NoTree \in TreeRow /\ NoBranch \in BranchRow /\ Ready \in ProcState
    BY DEF NoTree, NoBranch, Ready, Off, TreeRow, BranchRow, ProcState, Steps
  <2>2. Ready.step = "ready" /\ "ready" \notin Entering \cup Leaving
    BY DEF Ready, Off, Entering, Leaving
  <2>3. Types
    BY <2>1, <2>2 DEF Init, Types
  <2>4. Rows /\ WorkIsKept
    BY DEF Init, Rows, WorkIsKept, NoTree, NoBranch
  <2>5. RemovedOnce /\ \A s \in Sessions : Removing(s)
    BY <2>2 DEF Init, RemovedOnce, Removing
  <2> QED BY <2>3, <2>4, <2>5 DEF KeptInv
<1>2. KeptInv /\ [Next]_vars => KeptInv'
  <2> SUFFICES ASSUME KeptInv, [Next]_vars PROVE KeptInv'
    OBVIOUS
  <2>1. CASE UNCHANGED vars
    BY <2>1 DEF vars, KeptInv, Types, Rows, Removing, RemovedOnce, WorkIsKept
  <2>2. CASE Next
    <3>1. Types
      BY DEF KeptInv
    <3> QED BY <2>2, <3>1, QuietOrGit, QuietKeeps, AddKeeps, RemoveKeeps, PruneKeeps, WorkKeeps
  <2> QED BY <2>1, <2>2
<1> QED BY <1>1, <1>2, PTL DEF Spec

-----------------------------------------------------------------------------
(* The theorems for any cancellations and deaths.                          *)

(* The rows and the stored states keep their shape, and a directory that   *)
(* is there has its branch (GitWorktreeManager).                           *)
THEOREM WorktreesAreTyped == Spec => []TypeOK
<1>1. KeptInv => TypeOK
  BY DEF KeptInv, Types, Rows, TypeOK, ProcState
<1> QED BY <1>1, KeptAlways, PTL

(* No uncommitted change and no commit of a worktree is lost unless a      *)
(* discard was asked for, whoever writes, is cancelled or dies between the *)
(* checks of GitWorktreeManager.remove and its two Git commands.           *)
THEOREM NoWorkIsLost == Spec => []WorkIsKept
<1>1. KeptInv => WorkIsKept
  BY DEF KeptInv
<1> QED BY <1>1, KeptAlways, PTL

-----------------------------------------------------------------------------
(* Until a call is cancelled or a process dies in one.                     *)

(* The worktree a Session has: from the moment its directory is made to    *)
(* the moment its branch is gone.                                          *)
Has(s) ==
  IF proc[s].step = "entered" THEN proc[s].name
  ELSE IF proc[s].step = "left" THEN None ELSE saved[s]

(* A call works on the worktree of the stored state.                       *)
InStep(s) ==
  /\ ~proc[s].cancelled
  /\ proc[s].step \in Entering => saved[s] = None
  /\ proc[s].step \in Leaving => proc[s].name = saved[s] /\ saved[s] # None

(* The branch of a worktree lasts as long as a Session has it, and the     *)
(* directory, if it is there, is its own.                                  *)
Owns(s) ==
  Has(s) # None =>
    branch[Has(s)].there /\ (tree[Has(s)].there => tree[Has(s)].by = s)

Apart == \A s, t \in Sessions : s # t /\ Has(s) # None => Has(s) # Has(t)

CalmInv ==
  /\ Types
  /\ stops = 0
  /\ \A s \in Sessions : InStep(s) /\ Owns(s)
  /\ Apart

(* A step of s is a step of nobody else.                                   *)
Alone(s) ==
  \A t \in Sessions \ {s} : proc'[t] = proc[t] /\ saved'[t] = saved[t]

(* What a Session has is a name.                                           *)
LEMMA HasName ==
  ASSUME Types, NEW s \in Sessions, Has(s) # None
  PROVE  Has(s) \in Names
BY DEF Types, Has, Entering

(* The others have what they had.                                          *)
LEMMA OthersStay ==
  ASSUME CalmInv, NEW s \in Sessions, Alone(s)
  PROVE  \A t \in Sessions \ {s} : InStep(t)' /\ Has(t)' = Has(t)
BY DEF CalmInv, Alone, InStep, Has

(* A step of one Session that takes no worktree and makes no directory.    *)
LEMMA CalmMove ==
  ASSUME CalmInv, NEW s \in Sessions, Types', stops' = 0, Alone(s), InStep(s)',
         Has(s)' = Has(s) \/ Has(s)' = None,
         \A n \in Names : tree'[n].there => tree'[n] = tree[n],
         \A t \in Sessions : Has(t)' # None => branch'[Has(t)] = branch[Has(t)]
  PROVE  CalmInv'
<1>1. \A t \in Sessions \ {s} : InStep(t)' /\ Has(t)' = Has(t)
  BY OthersStay
<1>2. ASSUME NEW t \in Sessions PROVE Owns(t)'
  <2>1. CASE Has(t)' # None
    <3>1. Has(t)' = Has(t) /\ Has(t) # None /\ Owns(t) /\ Types
      BY <1>1, <2>1 DEF CalmInv
    <3>2. Has(t) \in Names
      BY <3>1, HasName
    <3>3. branch'[Has(t)] = branch[Has(t)]
      BY <2>1
    <3>4. branch[Has(t)].there /\ (tree[Has(t)].there => tree[Has(t)].by = t)
      BY <3>1 DEF Owns
    <3> DEFINE n == Has(t)
    <3>5. n' = n
      BY <3>1
    <3>6. tree'[n].there => tree'[n] = tree[n]
      BY <3>2
    <3> HIDE DEF n
    <3>7. branch'[n'].there /\ (tree'[n'].there => tree'[n'].by = t)
      BY <3>3, <3>4, <3>5, <3>6 DEF n
    <3> QED BY <3>7 DEF Owns, n
  <2> QED BY <2>1 DEF Owns
<1>3. Apart'
  <2> SUFFICES ASSUME NEW t \in Sessions, NEW u \in Sessions, t # u, Has(t)' # None
               PROVE  Has(t)' # Has(u)'
    BY DEF Apart
  <2>1. Has(t)' = Has(t) /\ (Has(u)' = Has(u) \/ Has(u)' = None)
    BY <1>1
  <2>2. Has(t) # Has(u)
    BY <2>1 DEF CalmInv, Apart
  <2> QED BY <2>1, <2>2
<1> QED BY <1>1, <1>2, <1>3 DEF CalmInv

(* Such a step that leaves directories and branches alone.                 *)
LEMMA QuietCalm ==
  ASSUME CalmInv, NEW s \in Sessions, Types', UNCHANGED <<tree, branch, stops>>,
         Alone(s), InStep(s)', Has(s)' = Has(s) \/ Has(s)' = None
  PROVE  CalmInv'
<1>1. stops' = 0
  BY DEF CalmInv
<1>2. \A t \in Sessions : Has(t)' # None => branch'[Has(t)] = branch[Has(t)]
  OBVIOUS
<1> QED BY <1>1, <1>2, CalmMove

(* Where nothing is cancelled, a call that ends leaves its process ready.  *)
LEMMA EndsReady ==
  ASSUME CalmInv, NEW s \in Sessions, Fail(s)
  PROVE  /\ proc'[s].step = "ready" /\ ~proc'[s].cancelled
         /\ \A t \in Sessions \ {s} : proc'[t] = proc[t]
<1>1. ~proc[s].cancelled /\ proc \in [Sessions -> ProcState]
  BY DEF CalmInv, InStep, Types
<1>2. proc' = [proc EXCEPT ![s] = Ready]
  BY <1>1 DEF Fail
<1> QED BY <1>1, <1>2 DEF Ready, Off

(* A step within a call.                                                   *)
LEMMA StepsCalmly ==
  ASSUME CalmInv, NEW s \in Sessions, NEW step, Step(s, step)
  PROVE  /\ proc'[s].step = step /\ proc'[s].name = proc[s].name
         /\ proc'[s].cancelled = proc[s].cancelled
         /\ \A t \in Sessions \ {s} : proc'[t] = proc[t]
BY DEF Step, CalmInv, Types, ProcState

(* What the parts of a call leave: nobody else moves, and what the Session *)
(* has is as it was or nothing.                                            *)
LEMMA CallsStayInStep ==
  ASSUME CalmInv, NEW s \in Sessions,
         \/ \E n \in Names : Enter(s, n)
         \/ \E discard \in BOOLEAN : Remove(s, discard)
         \/ SaveEntered(s) \/ Keep(s) \/ Validate(s) \/ CheckDirty(s) \/ CheckAhead(s)
         \/ SaveLeft(s) \/ Leave(s) \/ Resume(s)
  PROVE  /\ UNCHANGED <<tree, branch, stops>>
         /\ Alone(s) /\ InStep(s)' /\ (Has(s)' = Has(s) \/ Has(s)' = None)
<1>1. /\ proc \in [Sessions -> ProcState] /\ saved \in [Sessions -> Names \cup {None}]
      /\ InStep(s)
  BY DEF CalmInv, Types
<1>2. CASE \E n \in Names : Enter(s, n)
  BY <1>1, <1>2 DEF Enter, Alone, InStep, Has, Entering, Leaving
<1>3. CASE \E discard \in BOOLEAN : Remove(s, discard)
  BY <1>1, <1>3 DEF Remove, Alone, InStep, Has, Entering, Leaving
<1>4. CASE SaveEntered(s) \/ SaveLeft(s)
  <2>1. /\ proc[s].step \in {"entered", "left"} /\ Fail(s)
        /\ saved' = [saved EXCEPT ![s] = IF proc[s].step = "entered" THEN proc[s].name ELSE None]
        /\ UNCHANGED <<tree, branch, stops>>
    BY <1>1, <1>4 DEF SaveEntered, SaveLeft, Return, InStep
  <2>2. /\ proc'[s].step = "ready" /\ ~proc'[s].cancelled
        /\ \A t \in Sessions \ {s} : proc'[t] = proc[t]
    BY <2>1, EndsReady
  <2> QED BY <1>1, <2>1, <2>2 DEF Alone, InStep, Has, Entering, Leaving
<1>5. CASE Keep(s)
  BY <1>1, <1>5 DEF Keep, Alone, InStep, Has, Entering, Leaving
<1>6. CASE Validate(s) \/ CheckDirty(s) \/ CheckAhead(s)
  <2>1. /\ proc[s].step \in {"validate", "dirty", "ahead"}
        /\ Fail(s) \/ \E step \in {"remove", "dirty", "ahead"} : Step(s, step)
        /\ UNCHANGED <<tree, branch, stops, saved>>
    BY <1>6 DEF Validate, CheckDirty, CheckAhead
  <2>2. CASE Fail(s)
    <3>1. /\ proc'[s].step = "ready" /\ ~proc'[s].cancelled
          /\ \A t \in Sessions \ {s} : proc'[t] = proc[t]
      BY <2>2, EndsReady
    <3> QED BY <1>1, <2>1, <3>1 DEF Alone, InStep, Has, Entering, Leaving
  <2>3. CASE \E step \in {"remove", "dirty", "ahead"} : Step(s, step)
    <3>1. PICK step \in {"remove", "dirty", "ahead"} : Step(s, step)
      BY <2>3
    <3>2. /\ proc'[s].step = step /\ proc'[s].name = proc[s].name
          /\ proc'[s].cancelled = proc[s].cancelled
          /\ \A t \in Sessions \ {s} : proc'[t] = proc[t]
      BY <3>1, StepsCalmly
    <3> QED BY <1>1, <2>1, <3>1, <3>2 DEF Alone, InStep, Has, Entering, Leaving
  <2> QED BY <2>1, <2>2, <2>3
<1>7. CASE Leave(s) \/ Resume(s)
  BY <1>1, <1>7 DEF Leave, Resume, Off, Ready, Alone, InStep, Has, Entering, Leaving
<1> QED BY <1>2, <1>3, <1>4, <1>5, <1>6, <1>7

(* The directory is made for a name that nobody has.                       *)
LEMMA AddCalm ==
  ASSUME CalmInv, NEW s \in Sessions, Types', Added(s)
  PROVE  CalmInv'
<1> DEFINE n == proc[s].name
<1>1. /\ Types /\ n \in Names /\ proc[s].step = "add" /\ ~branch[n].there
      /\ tree' = [tree EXCEPT ![n] = [there |-> TRUE, by |-> s, dirty |-> FALSE]]
      /\ branch' = [branch EXCEPT ![n] = [there |-> TRUE, ahead |-> FALSE]]
      /\ Step(s, "entered") /\ UNCHANGED <<saved, stops>> /\ InStep(s)
  BY DEF CalmInv, Types, Added, GitAdd, Entering
<1>2. /\ proc'[s].step = "entered" /\ proc'[s].name = n /\ proc'[s].cancelled = proc[s].cancelled
      /\ \A t \in Sessions \ {s} : proc'[t] = proc[t]
  BY <1>1, StepsCalmly
<1>3. Alone(s) /\ InStep(s)' /\ Has(s)' = n
  BY <1>1, <1>2 DEF Alone, InStep, Has, Entering, Leaving
<1>4. \A t \in Sessions \ {s} : InStep(t)' /\ Has(t)' = Has(t)
  BY <1>3, OthersStay
<1>5. /\ tree'[n].by = s /\ branch'[n].there
      /\ \A m \in Names \ {n} : tree'[m] = tree[m] /\ branch'[m] = branch[m]
  BY <1>1 DEF Types, TreeRow, BranchRow
<1>6. \A t \in Sessions : Has(t) # None => Has(t) # n /\ Has(t) \in Names
  BY <1>1, HasName DEF CalmInv, Owns
<1>7. Owns(s)'
  BY <1>3, <1>5 DEF Owns
<1>8. ASSUME NEW t \in Sessions \ {s} PROVE Owns(t)'
  <2>1. Owns(t) /\ Has(t)' = Has(t)
    BY <1>4 DEF CalmInv
  <2>2. CASE Has(t) # None
    <3>1. Has(t) \in Names \ {n}
      BY <1>6, <2>2
    <3> QED BY <1>5, <2>1, <2>2, <3>1 DEF Owns
  <2> QED BY <2>1, <2>2 DEF Owns
<1>9. Apart'
  <2> SUFFICES ASSUME NEW t \in Sessions, NEW u \in Sessions, t # u, Has(t)' # None
               PROVE  Has(t)' # Has(u)'
    BY DEF Apart
  <2>1. CASE t # s /\ u # s
    BY <1>4, <2>1 DEF CalmInv, Apart
  <2>2. CASE t = s
    BY <1>3, <1>4, <1>6, <2>2
  <2>3. CASE u = s
    BY <1>3, <1>4, <1>6, <2>3
  <2> QED BY <2>1, <2>2, <2>3
<1>10. stops' = 0
  BY <1>1 DEF CalmInv
<1> QED BY <1>3, <1>4, <1>7, <1>8, <1>9, <1>10 DEF CalmInv

(* The directory goes; the Session has the name until the branch is gone.  *)
LEMMA RemoveCalm ==
  ASSUME CalmInv, NEW s \in Sessions, Types', Removed(s)
  PROVE  CalmInv'
<1> DEFINE n == proc[s].name
<1>1. /\ Types /\ n \in Names /\ proc[s].step = "remove"
      /\ tree' = [tree EXCEPT ![n] = NoTree]
      /\ Step(s, "branch") /\ UNCHANGED <<branch, saved, stops>> /\ InStep(s)
  BY DEF CalmInv, Types, Removed, GitRemove, Leaving
<1>2. /\ proc'[s].step = "branch" /\ proc'[s].name = n /\ proc'[s].cancelled = proc[s].cancelled
      /\ \A t \in Sessions \ {s} : proc'[t] = proc[t]
  BY <1>1, StepsCalmly
<1>3. Alone(s) /\ InStep(s)' /\ Has(s)' = Has(s)
  BY <1>1, <1>2 DEF Alone, InStep, Has, Entering, Leaving
<1>4. \A m \in Names : tree'[m].there => tree'[m] = tree[m]
  BY <1>1 DEF Types, NoTree
<1>5. stops' = 0 /\ \A t \in Sessions : Has(t)' # None => branch'[Has(t)] = branch[Has(t)]
  BY <1>1 DEF CalmInv
<1> QED BY <1>3, <1>4, <1>5, CalmMove

(* With the branch the Session gives its worktree up.                      *)
LEMMA PruneCalm ==
  ASSUME CalmInv, NEW s \in Sessions, Types', Pruned(s)
  PROVE  CalmInv'
<1> DEFINE n == proc[s].name
<1>1. /\ Types /\ n \in Names /\ proc[s].step = "branch"
      /\ branch' = [branch EXCEPT ![n] = NoBranch]
      /\ Step(s, "left") /\ UNCHANGED <<tree, saved, stops>> /\ InStep(s)
  BY DEF CalmInv, Types, Pruned, GitBranch, Leaving
<1>2. /\ proc'[s].step = "left" /\ proc'[s].name = n /\ proc'[s].cancelled = proc[s].cancelled
      /\ \A t \in Sessions \ {s} : proc'[t] = proc[t]
  BY <1>1, StepsCalmly
<1>3. Alone(s) /\ InStep(s)' /\ Has(s)' = None /\ Has(s) = n /\ Has(s) # None
  BY <1>1, <1>2 DEF Alone, InStep, Has, Entering, Leaving
<1>4. ASSUME NEW t \in Sessions, Has(t)' # None
      PROVE  branch'[Has(t)] = branch[Has(t)]
  <2>1. t # s
    BY <1>3, <1>4
  <2>2. Has(t)' = Has(t)
    BY <1>3, <2>1, OthersStay
  <2>3. Has(t) # n /\ Has(t) \in Names
    BY <1>1, <1>3, <1>4, <2>1, <2>2, HasName DEF CalmInv, Apart
  <2> QED BY <1>1, <2>3 DEF Types
<1>5. stops' = 0 /\ \A m \in Names : tree'[m].there => tree'[m] = tree[m]
  BY <1>1 DEF CalmInv
<1> QED BY <1>3, <1>4, <1>5, CalmMove

(* Work in a directory changes neither who made it nor that it is there.   *)
LEMMA WorkCalm ==
  ASSUME CalmInv, Types', NEW n \in Names, Write(n) \/ CommitWork(n)
  PROVE  CalmInv'
<1>1. UNCHANGED <<saved, proc, stops>> /\ Types
  BY DEF Write, CommitWork, CalmInv
<1>2. \A m \in Names : /\ tree'[m].there = tree[m].there /\ tree'[m].by = tree[m].by
                       /\ branch'[m].there = branch[m].there
  <2>1. CASE Write(n)
    BY <1>1, <2>1 DEF Write, Types, TreeRow
  <2>2. CASE CommitWork(n)
    BY <1>1, <2>2 DEF CommitWork, Types, TreeRow, BranchRow
  <2> QED BY <2>1, <2>2
<1>3. \A s \in Sessions : Has(s)' = Has(s) /\ InStep(s)'
  BY <1>1 DEF CalmInv, Has, InStep
<1>4. ASSUME NEW s \in Sessions PROVE Owns(s)'
  <2>1. Has(s) # None => Has(s) \in Names
    BY <1>1, HasName
  <2>2. Owns(s)
    BY DEF CalmInv
  <2> QED BY <1>2, <1>3, <2>1, <2>2 DEF Owns
<1>5. Apart'
  BY <1>3 DEF CalmInv, Apart
<1> QED BY <1>1, <1>3, <1>4, <1>5 DEF CalmInv

(* What was cut short is not forgotten.                                    *)
LEMMA StopsGrow ==
  ASSUME [Next]_vars
  PROVE  stops' = stops \/ stops' = stops + 1
BY DEF Next, vars, Enter, Remove, GitAdd, SaveEntered, Keep, Validate, CheckDirty, CheckAhead,
       GitRemove, GitBranch, SaveLeft, Cancel, Crash, Leave, Resume, Write, CommitWork, Switch

(* Every step that cuts nothing short.                                     *)
LEMMA CalmStep ==
  ASSUME stops' = 0, CalmInv, Types', Next
  PROVE  CalmInv'
<1>1. ASSUME NEW s \in Sessions,
             \/ \E n \in Names : Enter(s, n)
             \/ \E discard \in BOOLEAN : Remove(s, discard)
             \/ SaveEntered(s) \/ Keep(s) \/ Validate(s) \/ CheckDirty(s) \/ CheckAhead(s)
             \/ SaveLeft(s) \/ Leave(s) \/ Resume(s)
      PROVE  CalmInv'
  <2>1. /\ UNCHANGED <<tree, branch, stops>>
        /\ Alone(s) /\ InStep(s)' /\ (Has(s)' = Has(s) \/ Has(s)' = None)
    BY <1>1, CallsStayInStep
  <2> QED BY <2>1, QuietCalm
<1>2. ASSUME NEW s \in Sessions, Fail(s), UNCHANGED <<tree, branch, stops, saved>>,
             proc[s].step \in {"add", "remove", "branch"}
      PROVE  CalmInv'
  <2>1. /\ proc'[s].step = "ready" /\ ~proc'[s].cancelled
        /\ \A t \in Sessions \ {s} : proc'[t] = proc[t]
    BY <1>2, EndsReady
  <2>2. Alone(s) /\ InStep(s)' /\ Has(s)' = Has(s)
    BY <1>2, <2>1 DEF Alone, InStep, Has, Entering, Leaving
  <2> QED BY <1>2, <2>2, QuietCalm
<1>3. ASSUME NEW s \in Sessions, GitAdd(s) PROVE CalmInv'
  <2>1. CASE Added(s)
    BY <2>1, AddCalm
  <2>2. CASE ~Added(s)
    BY <1>2, <1>3, <2>2 DEF GitAdd, Added
  <2> QED BY <2>1, <2>2
<1>4. ASSUME NEW s \in Sessions, GitRemove(s) PROVE CalmInv'
  <2>1. CASE Removed(s)
    BY <2>1, RemoveCalm
  <2>2. CASE ~Removed(s)
    BY <1>2, <1>4, <2>2 DEF GitRemove, Removed
  <2> QED BY <2>1, <2>2
<1>5. ASSUME NEW s \in Sessions, GitBranch(s) PROVE CalmInv'
  <2>1. CASE Pruned(s)
    BY <2>1, PruneCalm
  <2>2. CASE ~Pruned(s)
    BY <1>2, <1>5, <2>2 DEF GitBranch, Pruned
  <2> QED BY <2>1, <2>2
<1>6. \A s \in Sessions : ~Cancel(s) /\ ~Crash(s)
  BY DEF CalmInv, Cancel, Crash
<1>7. ASSUME NEW n \in Names, Write(n) \/ CommitWork(n) PROVE CalmInv'
  BY <1>7, WorkCalm
<1>8. ASSUME Switch PROVE CalmInv'
  BY <1>8 DEF Switch, CalmInv, InStep, Owns, Has, Apart
<1> QED BY <1>1, <1>3, <1>4, <1>5, <1>6, <1>7, <1>8 DEF Next

(* Until something is cut short, the invariant holds.                      *)
CalmSoFar == stops \in Nat /\ (stops = 0 => CalmInv)

LEMMA CalmAlways == Spec => []CalmSoFar
<1>1. Init /\ Types => CalmSoFar
  <2>1. Ready.step = "ready" /\ ~Ready.cancelled
    BY DEF Ready, Off
  <2> QED BY <2>1 DEF Init, CalmSoFar, CalmInv, InStep, Owns, Has, Apart, Entering, Leaving
<1>2. CalmSoFar /\ Types' /\ [Next]_vars => CalmSoFar'
  <2> SUFFICES ASSUME CalmSoFar, Types', [Next]_vars PROVE CalmSoFar'
    OBVIOUS
  <2>1. stops' \in Nat /\ (stops' = 0 => stops = 0)
    BY StopsGrow DEF CalmSoFar
  <2>2. ASSUME stops' = 0 PROVE CalmInv'
    <3>1. CalmInv
      BY <2>1, <2>2 DEF CalmSoFar
    <3>2. CASE UNCHANGED vars
      BY <3>1, <3>2 DEF vars, CalmInv, InStep, Owns, Has, Apart
    <3> QED BY <2>2, <3>1, <3>2, CalmStep
  <2> QED BY <2>1, <2>2 DEF CalmSoFar
<1>3. KeptInv => Types
  BY DEF KeptInv
<1> QED BY <1>1, <1>2, <1>3, KeptAlways, PTL DEF Spec

(* Between calls, no two Sessions are in one worktree until a call is      *)
(* cancelled or a process dies in one (EnterWorktreeTool,                  *)
(* GitWorktreeManager): the branch osc-agent/name is the lock.             *)
THEOREM SessionsAreApart == Spec => []WorktreesAreExclusive
<1>1. CalmSoFar => WorktreesAreExclusive
  BY DEF CalmSoFar, CalmInv, Apart, Has, Settled, WorktreesAreExclusive
<1> QED BY <1>1, CalmAlways, PTL

(* Nor, until then, is a Session in a worktree that another one created.   *)
THEOREM SessionsAreAtHome == Spec => []EnteredStaysOwn
<1>1. CalmSoFar => EnteredStaysOwn
  BY DEF CalmSoFar, CalmInv, Owns, Has, Settled, EnteredStaysOwn, EnteredIsOwn
<1> QED BY <1>1, CalmAlways, PTL
=============================================================================

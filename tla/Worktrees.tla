------------------------------ MODULE Worktrees ------------------------------
(***************************************************************************)
(* The worktrees of Sessions: enter_worktree and exit_worktree             *)
(* (tools/worktree.py), GitWorktreeManager (workspaces/git_worktree.py)    *)
(* and the check of a saved worktree when a Session resumes.               *)
(*                                                                         *)
(* Each Git command is a step; other programs change the files and the     *)
(* branches in between.  The state of a Session is stored after the tool   *)
(* returns: a cancelled call leaves its thread running and stores nothing, *)
(* a death stops it between two commands.                                  *)
(***************************************************************************)
EXTENDS Naturals, FiniteSets

CONSTANTS
  Sessions,
  Names,       \* names the model gives its worktrees
  MaxEnters,   \* bound: calls of enter_worktree
  MaxWork,     \* bound: changes made in the worktrees
  MaxStops     \* bound: cancellations and deaths

None == "none"

\* What an instance has to give the constants.
WorktreeAssumption ==
  /\ {MaxEnters, MaxWork, MaxStops} \subseteq Nat /\ None \notin Names \union Sessions

VARIABLES
  tree,     \* tree[n]: is there a directory, its creator, is it dirty?
  branch,   \* branch[n]: does osc-agent/n exist, and is it ahead of its base?
  merged,   \* does the HEAD of the main checkout contain the base?
  saved,    \* saved[s]: the worktree in the stored state of s
  proc,     \* proc[s]: the call a process of s is in, or its idleness
  kept,     \* worktrees that hold work nobody decided to discard
  enters, work, stops

vars == <<tree, branch, merged, saved, proc, kept, enters, work, stops>>

NoTree == [there |-> FALSE, by |-> None, dirty |-> FALSE]
NoBranch == [there |-> FALSE, ahead |-> FALSE]
Off == [step |-> "off", name |-> None, discard |-> FALSE, cancelled |-> FALSE]
Ready == [Off EXCEPT !.step = "ready"]

-----------------------------------------------------------------------------
\* validate_session: the directory is there, registered and of this repository.
Validates(n) == tree[n].there

\* is_dirty and commits_ahead
IsDirty(n) == tree[n].dirty
Ahead(n) == branch[n].ahead

Init ==
  /\ tree = [n \in Names |-> NoTree] /\ branch = [n \in Names |-> NoBranch]
  /\ merged = TRUE /\ saved = [s \in Sessions |-> None]
  /\ proc = [s \in Sessions |-> Ready]
  /\ kept = {} /\ enters = 0 /\ work = 0 /\ stops = 0

Step(s, step) == proc' = [proc EXCEPT ![s].step = step]

\* An error of a Git command is an error of the tool; the state stays.
Fail(s) == proc' = [proc EXCEPT ![s] = IF @.cancelled THEN Off ELSE Ready]

\* The thread of a cancelled call has nobody to return to.
Return(s, name) ==
  /\ saved' = IF proc[s].cancelled THEN saved ELSE [saved EXCEPT ![s] = name]
  /\ Fail(s)

\* EnterWorktreeTool: not inside a worktree, and the target is free.
Enter(s, n) ==
  /\ proc[s].step = "ready" /\ saved[s] = None /\ enters < MaxEnters
  /\ enters' = enters + 1
  /\ ~tree[n].there
  /\ proc' = [proc EXCEPT ![s] = [step |-> "add", name |-> n, discard |-> FALSE, cancelled |-> FALSE]]
  /\ UNCHANGED <<tree, branch, merged, saved, kept, work, stops>>

\* git worktree add <target> -b osc-agent/<name> HEAD
GitAdd(s) ==
  LET n == proc[s].name IN
  /\ proc[s].step = "add"
  /\ IF tree[n].there \/ branch[n].there
       THEN Fail(s) /\ UNCHANGED <<tree, branch, kept>>
       ELSE /\ tree' = [tree EXCEPT ![n] = [there |-> TRUE, by |-> s, dirty |-> FALSE]]
            /\ branch' = [branch EXCEPT ![n] = [there |-> TRUE, ahead |-> FALSE]]
            /\ Step(s, "entered") /\ UNCHANGED kept
  /\ UNCHANGED <<merged, saved, enters, work, stops>>

SaveEntered(s) ==
  /\ proc[s].step = "entered" /\ Return(s, proc[s].name)
  /\ UNCHANGED <<tree, branch, merged, kept, enters, work, stops>>

\* ExitWorktreeTool "keep"
Keep(s) ==
  /\ proc[s].step = "ready" /\ saved[s] # None
  /\ saved' = [saved EXCEPT ![s] = None]
  /\ UNCHANGED <<tree, branch, merged, proc, kept, enters, work, stops>>

\* ExitWorktreeTool "remove" and "discard", the second by the user's approval.
Remove(s, discard) ==
  /\ proc[s].step = "ready" /\ saved[s] # None
  /\ proc' = [proc EXCEPT ![s] = [step |-> "validate", name |-> saved[s], discard |-> discard, cancelled |-> FALSE]]
  /\ UNCHANGED <<tree, branch, merged, saved, kept, enters, work, stops>>

Validate(s) ==
  /\ proc[s].step = "validate"
  /\ IF ~Validates(proc[s].name) THEN Fail(s)
     ELSE Step(s, IF proc[s].discard THEN "remove" ELSE "dirty")
  /\ UNCHANGED <<tree, branch, merged, saved, kept, enters, work, stops>>

CheckDirty(s) ==
  /\ proc[s].step = "dirty"
  /\ IF IsDirty(proc[s].name) THEN Fail(s) ELSE Step(s, "ahead")
  /\ UNCHANGED <<tree, branch, merged, saved, kept, enters, work, stops>>

CheckAhead(s) ==
  /\ proc[s].step = "ahead"
  /\ IF Ahead(proc[s].name) THEN Fail(s) ELSE Step(s, "remove")
  /\ UNCHANGED <<tree, branch, merged, saved, kept, enters, work, stops>>

GitBranchForced(s) ==
  LET n == proc[s].name IN
  /\ proc[s].step = "branch"
  /\ branch' = [branch EXCEPT ![n] = NoBranch]
  /\ Step(s, "left")
  /\ UNCHANGED <<tree, merged, saved, kept, enters, work, stops>>

\* git worktree remove [--force]: without force Git refuses a dirty one.
GitRemove(s) ==
  LET n == proc[s].name IN
  /\ proc[s].step = "remove"
  /\ IF ~tree[n].there \/ (tree[n].dirty /\ ~proc[s].discard)
       THEN Fail(s) /\ UNCHANGED <<tree, kept>>
       ELSE /\ tree' = [tree EXCEPT ![n] = NoTree]
            /\ kept' = IF proc[s].discard THEN kept \ {n} ELSE kept
            /\ Step(s, "branch")
  /\ UNCHANGED <<branch, merged, saved, enters, work, stops>>

\* git branch -d / -D: without force Git refuses a branch that is not merged.
GitBranch(s) ==
  LET n == proc[s].name IN
  /\ proc[s].step = "branch"
  /\ IF ~branch[n].there \/ (~proc[s].discard /\ (branch[n].ahead \/ ~merged))
       THEN Fail(s) /\ UNCHANGED branch
       ELSE branch' = [branch EXCEPT ![n] = NoBranch] /\ Step(s, "left")
  /\ UNCHANGED <<tree, merged, saved, kept, enters, work, stops>>

SaveLeft(s) ==
  /\ proc[s].step = "left" /\ Return(s, None)
  /\ UNCHANGED <<tree, branch, merged, kept, enters, work, stops>>

\* A process in the worktree, the Agent's or another, writes a file or commits.
Write(n) ==
  /\ work < MaxWork /\ work' = work + 1
  /\ tree[n].there /\ ~tree[n].dirty
  /\ tree' = [tree EXCEPT ![n].dirty = TRUE] /\ kept' = kept \union {n}
  /\ UNCHANGED <<branch, merged, saved, proc, enters, stops>>
CommitWork(n) ==
  /\ tree[n].there /\ tree[n].dirty
  /\ tree' = [tree EXCEPT ![n].dirty = FALSE] /\ branch' = [branch EXCEPT ![n].ahead = TRUE]
  /\ UNCHANGED <<merged, saved, proc, kept, enters, work, stops>>
\* The user switches the main checkout.
Switch ==
  /\ work < MaxWork /\ work' = work + 1 /\ merged' = ~merged
  /\ UNCHANGED <<tree, branch, saved, proc, kept, enters, stops>>

\* asyncio cancels the call: the thread of to_thread goes on.
Cancel(s) ==
  /\ stops < MaxStops /\ stops' = stops + 1
  /\ proc[s].step \notin {"off", "ready"} /\ ~proc[s].cancelled
  /\ proc' = [proc EXCEPT ![s].cancelled = TRUE]
  /\ UNCHANGED <<tree, branch, merged, saved, kept, enters, work>>

Crash(s) ==
  /\ stops < MaxStops /\ stops' = stops + 1
  /\ proc[s].step \notin {"off", "ready"} /\ proc' = [proc EXCEPT ![s] = Off]
  /\ UNCHANGED <<tree, branch, merged, saved, kept, enters, work>>

\* The query of the Session ends between two calls.
Leave(s) ==
  /\ proc[s].step = "ready" /\ proc' = [proc EXCEPT ![s] = Off]
  /\ UNCHANGED <<tree, branch, merged, saved, kept, enters, work, stops>>

\* AgentRuntime._resume: the saved worktree is validated first.
Resume(s) ==
  /\ proc[s].step = "off" /\ IF saved[s] = None THEN TRUE ELSE Validates(saved[s])
  /\ proc' = [proc EXCEPT ![s] = Ready]
  /\ UNCHANGED <<tree, branch, merged, saved, kept, enters, work, stops>>

Next ==
  \/ \E s \in Sessions :
       \/ \E n \in Names : Enter(s, n)
       \/ \E discard \in BOOLEAN : Remove(s, discard)
       \/ GitAdd(s) \/ SaveEntered(s) \/ Keep(s) \/ Validate(s) \/ CheckDirty(s) \/ CheckAhead(s)
       \/ GitRemove(s) \/ GitBranch(s) \/ SaveLeft(s) \/ Cancel(s) \/ Crash(s)
       \/ Leave(s) \/ Resume(s)
  \/ \E n \in Names : Write(n) \/ CommitWork(n)
  \/ Switch

Spec == Init /\ [][Next]_vars

-----------------------------------------------------------------------------
(* Properties.                                                             *)

\* Every variable keeps its shape, and a worktree that is there has its branch.
TypeOK ==
  /\ \A n \in Names : tree[n].there => branch[n].there
  /\ \A n \in Names : tree[n].dirty => tree[n].there
  /\ \A s \in Sessions : saved[s] \in Names \union {None} /\ proc[s].name \in Names \union {None}
  /\ merged \in BOOLEAN /\ kept \subseteq Names

\* No uncommitted change and no commit of a worktree is lost unless a discard was
\* asked for, whatever happens between the checks of a removal and its commands.
WorkIsKept == \A n \in kept : tree[n].dirty \/ branch[n].ahead

\* A Session that is not in the middle of a call
Settled(s) == saved[s] # None /\ proc[s].step \in {"off", "ready"}

\* Until a call is cut short, by a cancellation or a death, two Sessions never
\* work in one worktree: the branch is the lock.
WorktreesAreExclusive ==
  stops = 0 =>
    \A s, t \in Sessions : s # t /\ Settled(s) /\ Settled(t) => saved[s] # saved[t]

\* The worktree a Session works in is the one it created.  A removal that is cut
\* short can leave a Session in one that another has made since.
EnteredIsOwn ==
  \A s \in Sessions : Settled(s) /\ tree[saved[s]].there => tree[saved[s]].by = s

\* Until a call is cut short, that is so.
EnteredStaysOwn == stops = 0 => EnteredIsOwn

\* A stored Session can be resumed: the worktree it is in is there.
SessionsResume ==
  \A s \in Sessions : Settled(s) /\ proc[s].step = "off" => Validates(saved[s])
=============================================================================

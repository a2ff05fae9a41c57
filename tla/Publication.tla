---------------------------- MODULE Publication -----------------------------
(***************************************************************************)
(* The trusted publication of one delivery: the dispatcher of Control      *)
(* picks the publish event of a job whose implementation is ready, the     *)
(* publisher checks the workspace, commits, pushes and opens a pull        *)
(* request, one git command or GitHub request at a time.  Meanwhile a      *)
(* maintainer may cancel the job, the default branch may move, a run of    *)
(* the Worker that lost its lease may still write files, GitHub may fail   *)
(* and Control may be killed between any two steps; the event is then      *)
(* delivered again.                                                        *)
(***************************************************************************)
EXTENDS Naturals

CONSTANTS
  NewFiles,    \* does the delivery add a file Git does not track yet?
  MaxFaults,   \* bound: crashes of Control and failures of GitHub
  MaxTampers   \* bound: late writes of files by a stale run

ASSUME PublicationAssumption ==
  /\ NewFiles \in BOOLEAN
  /\ MaxFaults \in Nat
  /\ MaxTampers \in Nat

(* Deliveries of an event after which a failure makes it a dead letter.    *)
AttemptLimit == 5

(* A killed Control settles nothing: each crash may add one delivery.      *)
MostAttempts == AttemptLimit + MaxFaults

VARIABLES
  job,       \* the row: its status and whether the commit is recorded
  view,      \* the row as the publisher last read or wrote it
  pc,        \* the next step of the publisher
  event,     \* the publish event in the outbox
  repo,      \* the workspace clone
  snapshot,  \* the patch the publisher validated
  moved,     \* has the default branch left the approved base?
  remote,    \* the pushed branch and the open pull requests
  refused,   \* history: the check that refused the delivery last
  faults,    \* faults spent so far
  tampers    \* late writes so far

vars == <<job, view, pc, event, repo, snapshot, moved, remote, refused,
          faults, tampers>>

-----------------------------------------------------------------------------
(* The workspace.  File contents are the drafted ones or other ones; the   *)
(* index and the commit hold a content once they are made.                 *)

Content == {"draft", "other"}

AtBase == repo.commit = "none"

(* The fingerprint covers HEAD, the index and the files.                   *)
Fingerprint == [head |-> repo.commit, index |-> repo.index,
                files |-> repo.files]

DraftFingerprint == [head |-> "none", index |-> "none", files |-> "draft"]

(* A patch renders untracked files in a form of its own: added files look  *)
(* different before and after they are staged.                             *)
Patch == [files |-> repo.files,
          form  |-> IF NewFiles /\ repo.index = "none" THEN "untracked"
                    ELSE "tracked"]

NoPatch == [files |-> "draft", form |-> "none"]

(* Exactly one commit on the base, and no change outside it.               *)
CleanCommit == ~AtBase /\ repo.files = repo.commit

(* The publisher's own identity settings are local Git configuration.      *)
MetadataClean == ~repo.identity

-----------------------------------------------------------------------------
Init ==
  /\ job = [status |-> "ready_to_publish", recorded |-> FALSE]
  /\ view = job
  /\ pc = "idle"
  /\ event = [status |-> "due", attempts |-> 0]
  /\ repo = [files |-> "draft", index |-> "none", commit |-> "none",
             identity |-> FALSE]
  /\ snapshot = NoPatch
  /\ moved = FALSE
  /\ remote = [branch |-> "none", pulls |-> 0]
  /\ refused = "none"
  /\ faults = 0
  /\ tampers = 0

(* Type correctness; an event is delivered no more often than the limit    *)
(* and the crashes of Control allow, and no second pull request is opened. *)
TypeOK ==
  /\ job \in [status : {"ready_to_publish", "publishing", "completed",
                        "stale", "cancelled"}, recorded : BOOLEAN]
  /\ view \in [status : {"ready_to_publish", "publishing", "completed",
                         "stale", "cancelled"}, recorded : BOOLEAN]
  /\ pc \in {"idle", "metadata", "head", "tree", "snapshot", "begin",
             "config", "add", "staged", "commit", "record", "verify",
             "recheck", "push", "find", "create", "complete", "settle"}
  /\ event \in [status : {"due", "sent", "dead"}, attempts : 0 .. MostAttempts]
  /\ repo \in [files : Content, index : Content \cup {"none"},
               commit : Content \cup {"none"}, identity : BOOLEAN]
  /\ snapshot \in [files : Content, form : {"none", "untracked", "tracked"}]
  /\ moved \in BOOLEAN
  /\ remote \in [branch : Content \cup {"none"}, pulls : 0 .. 1]
  /\ refused \in {"none", "status", "metadata", "tree", "conflict",
                  "policy", "staging", "commit"}
  /\ faults \in 0 .. MaxFaults
  /\ tampers \in 0 .. MaxTampers

-----------------------------------------------------------------------------
(* The dispatcher.                                                         *)

(* The count is cut off one above what a correct dispatcher reaches.       *)
NextAttempt(n) == IF n <= MostAttempts THEN n + 1 ELSE n

(* Mutant: a failed delivery is always tried again.                        *)
AfterFailureForever(e) == e

(* A failed delivery is tried again until the limit.                       *)
AfterFailure(e) ==
  IF e.attempts >= AttemptLimit THEN [e EXCEPT !.status = "dead"] ELSE e

(* The event is picked, its attempts counted, and the job read.            *)
Pick ==
  /\ pc = "idle" /\ event.status = "due"
  /\ event' = [event EXCEPT !.attempts = NextAttempt(@)]
  /\ view' = job
  /\ pc' = IF job.status = "completed" THEN "settle" ELSE "metadata"
  /\ UNCHANGED <<job, repo, snapshot, moved, remote, refused, faults, tampers>>

Settle ==
  /\ pc = "settle"
  /\ event' = [event EXCEPT !.status = "sent"]
  /\ pc' = "idle"
  /\ UNCHANGED <<job, view, repo, snapshot, moved, remote, refused, faults,
                 tampers>>

(* An exception of the publisher: the delivery failed, Control exits and   *)
(* is started again.                                                       *)
Refuse(reason) ==
  /\ refused' = reason
  /\ event' = AfterFailure(event)
  /\ pc' = "idle"
  /\ UNCHANGED <<job, view, repo, snapshot, moved, remote, faults, tampers>>

Goto(label) ==
  /\ pc' = label
  /\ UNCHANGED <<job, view, event, repo, snapshot, moved, remote, refused,
                 faults, tampers>>

(* A compare-and-swap on the version of the row the publisher holds.  The  *)
(* fields kept here never return to an earlier value, so an unchanged row  *)
(* is an unchanged version.                                                *)
Versioned(row, label) ==
  IF view = job
  THEN /\ job' = row
       /\ view' = row
       /\ pc' = label
       /\ UNCHANGED <<event, repo, snapshot, moved, remote, refused, faults,
                      tampers>>
  ELSE Refuse("conflict")

-----------------------------------------------------------------------------
(* The publisher: checks before publication begins.                        *)

Metadata ==
  /\ pc = "metadata"
  /\ IF view.status \notin {"ready_to_publish", "publishing"}
     THEN Refuse("status")
     ELSE IF ~MetadataClean THEN Refuse("metadata") ELSE Goto("head")

Head ==
  /\ pc = "head"
  /\ IF moved THEN Versioned([view EXCEPT !.status = "stale"], "settle")
     ELSE Goto("tree")

(* An untouched base holds the drafted changes, for which the evaluation   *)
(* that completed the session holds again; a commit is the recorded one,   *)
(* or the one of a publication that stopped before recording it.           *)
TreeAsDrafted ==
  \/ ~view.recorded /\ AtBase /\ Fingerprint = DraftFingerprint
  \/ view.recorded /\ CleanCommit
  \/ ~view.recorded /\ ~AtBase /\ view.status = "publishing" /\ CleanCommit

Tree ==
  /\ pc = "tree"
  /\ IF TreeAsDrafted THEN Goto("snapshot") ELSE Refuse("tree")

(* The drafted changes passed the limits of the policy when they were      *)
(* submitted; others may exceed them.                                      *)
Snapshot ==
  /\ pc = "snapshot"
  /\ \/ /\ snapshot' = Patch
        /\ pc' = "begin"
        /\ UNCHANGED <<job, view, event, repo, moved, remote, refused, faults,
                       tampers>>
     \/ repo.files # "draft" /\ Refuse("policy")

-----------------------------------------------------------------------------
(* The publisher: the commit.                                              *)

AfterBegin == IF view.recorded THEN "verify"
              ELSE IF AtBase THEN "config" ELSE "record"

(* Mutant: the begin of the publication is not written to the row.         *)
BeginUnwritten ==
  /\ pc = "begin"
  /\ Goto(AfterBegin)

Begin ==
  /\ pc = "begin"
  /\ IF view.status = "publishing" THEN Goto(AfterBegin)
     ELSE Versioned([view EXCEPT !.status = "publishing"], AfterBegin)

Work(tree, label) ==
  /\ repo' = tree
  /\ pc' = label
  /\ UNCHANGED <<job, view, event, snapshot, moved, remote, refused, faults,
                 tampers>>

Config ==
  /\ pc = "config"
  /\ Work([repo EXCEPT !.identity = TRUE], "add")

Add ==
  /\ pc = "add"
  /\ Work([repo EXCEPT !.index = repo.files], "staged")

(* Mutant: the staged workspace is not compared again.                     *)
StagedUnchecked ==
  /\ pc = "staged"
  /\ Goto("commit")

(* The staged workspace is compared with the validated snapshot: its files *)
(* are, not its index.                                                     *)
Staged ==
  /\ pc = "staged"
  /\ IF Patch = snapshot THEN Goto("commit") ELSE Refuse("staging")

Commit ==
  /\ pc = "commit"
  /\ Work([repo EXCEPT !.commit = repo.index], "record")

(* The commit made now, or found by a delivery that resumes, is recorded.  *)
(* A found commit was verified with the tree, and is verified again next.  *)
Record ==
  /\ pc = "record"
  /\ Versioned([view EXCEPT !.recorded = TRUE], "verify")

Verify ==
  /\ pc = "verify"
  /\ IF CleanCommit THEN Goto("recheck") ELSE Refuse("commit")

-----------------------------------------------------------------------------
(* The publisher: the branch and the pull request.                         *)

Recheck ==
  /\ pc = "recheck"
  /\ IF moved THEN Versioned([view EXCEPT !.status = "stale"], "settle")
     ELSE Goto("push")

Publish(outside, label) ==
  /\ remote' = outside
  /\ pc' = label
  /\ UNCHANGED <<job, view, event, repo, snapshot, moved, refused, faults,
                 tampers>>

Push ==
  /\ pc = "push"
  /\ Publish([remote EXCEPT !.branch = repo.commit], "find")

(* Mutant: the job is completed before the pull request is made.           *)
FindCompleting ==
  /\ pc = "find"
  /\ Goto("complete")

(* An open pull request of the branch is found, or created.                *)
Find ==
  /\ pc = "find"
  /\ Goto(IF remote.pulls > 0 THEN "complete" ELSE "create")

Create ==
  /\ pc = "create"
  /\ Publish([remote EXCEPT !.pulls = @ + 1], "complete")

Complete ==
  /\ pc = "complete"
  /\ Versioned([view EXCEPT !.status = "completed"], "settle")

-----------------------------------------------------------------------------
(* What happens meanwhile.                                                 *)

(* A request to GitHub fails: the delivery failed, or for good.            *)
GitHubFails ==
  /\ pc \in {"head", "recheck", "push", "find", "create"}
  /\ faults < MaxFaults
  /\ faults' = faults + 1
  /\ event' \in {AfterFailure(event), [event EXCEPT !.status = "dead"]}
  /\ pc' = "idle"
  /\ UNCHANGED <<job, view, repo, snapshot, moved, remote, refused, tampers>>

(* Control is killed between two steps; the event stays in processing and  *)
(* is due again when its lease has run out.                                *)
Crash ==
  /\ pc # "idle"
  /\ faults < MaxFaults
  /\ faults' = faults + 1
  /\ pc' = "idle"
  /\ UNCHANGED <<job, view, event, repo, snapshot, moved, remote, refused,
                 tampers>>

(* /osc-agent cancel is refused once publication has begun.                *)
Cancel ==
  /\ job.status = "ready_to_publish"
  /\ job' = [job EXCEPT !.status = "cancelled"]
  /\ UNCHANGED <<view, pc, event, repo, snapshot, moved, remote, refused,
                 faults, tampers>>

MoveBase ==
  /\ ~moved
  /\ moved' = TRUE
  /\ UNCHANGED <<job, view, pc, event, repo, snapshot, remote, refused, faults,
                 tampers>>

(* A run that lost its lease is only stopped at its next poll: until then  *)
(* its tools may still write files, but not the metadata of Git.           *)
Tamper ==
  /\ tampers < MaxTampers
  /\ tampers' = tampers + 1
  /\ repo' = [repo EXCEPT !.files = IF @ = "draft" THEN "other" ELSE "draft"]
  /\ UNCHANGED <<job, view, pc, event, snapshot, moved, remote, refused,
                 faults>>

-----------------------------------------------------------------------------
Dispatch ==
  \/ Pick \/ Metadata \/ Head \/ Tree \/ Snapshot \/ Begin \/ Config \/ Add
  \/ Staged \/ Commit \/ Record \/ Verify \/ Recheck \/ Push \/ Find \/ Create
  \/ Complete \/ Settle

Next ==
  \/ Dispatch
  \/ GitHubFails \/ Crash
  \/ Cancel \/ MoveBase \/ Tamper

Spec == Init /\ [][Next]_vars

(* Control polls its outbox forever and systemd restarts it.               *)
FairSpec == Spec /\ WF_vars(Dispatch)

-----------------------------------------------------------------------------
(* Properties.                                                             *)

(* Up to the second late write, what is pushed is what was validated: a    *)
(* stale run that writes files once, or writes them and restores them,     *)
(* between any two steps of the publisher cannot slip its changes into the *)
(* branch.  A third write can: the comparisons then look at other files    *)
(* than the ones that were staged.                                         *)
PushedIsValidated ==
  tampers <= 2 => remote.branch \in {"none", snapshot.files}

(* A job that was cancelled leaves no branch and no pull request behind:   *)
(* the cancellation and the begin of the publication exclude each other.   *)
CancelledIsUnpublished ==
  job.status = "cancelled" => remote = [branch |-> "none", pulls |-> 0]

(* A completed job has its branch and exactly one pull request, after any  *)
(* crashes, failures and redeliveries.                                     *)
CompletedHasPull ==
  job.status = "completed" => remote.branch # "none" /\ remote.pulls = 1

(* Every publish event is settled: sent, or a dead letter after the        *)
(* limit, and never delivered again and again.                             *)
EventIsSettled == <>(event.status # "due")

(* The staging check fails only when somebody wrote to the workspace while *)
(* the publisher was staging: that is what its error says.                 *)
StagingRefusesChanges == refused = "staging" => tampers > 0

(* A delivery that stopped between the commit and the record of it is      *)
(* recovered by the next one, unless the base moved.                       *)
CommitIsRecovered ==
  repo.commit # "none" /\ ~job.recorded ~> job.recorded \/ moved

=============================================================================

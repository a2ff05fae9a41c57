-------------------------- MODULE PublicationProofs --------------------------
(***************************************************************************)
(* The safety of a publication for any number of crashes of Control and    *)
(* failures of GitHub.  The invariant follows the publisher: Rows relates  *)
(* the row it holds to the row in the table, Counted the deliveries to the *)
(* faults, Stages the place in publish() to the clone and to GitHub, and   *)
(* Written, for up to two late writes, the contents to each other.         *)
(***************************************************************************)
EXTENDS Publication, TLAPS

(* The places where the publisher has its identity and works on a commit.  *)
Committing == {"add", "staged", "commit", "record", "verify", "recheck", "push", "find",
               "create", "complete"}
Checking == {"head", "tree", "snapshot", "begin", "config"}
Verified == {"recheck", "push", "find", "create", "complete"}

(* Only a cancellation writes the row behind the publisher's back.         *)
Rows ==
  /\ \/ view = job
     \/ view.status = "ready_to_publish" /\ job = [view EXCEPT !.status = "cancelled"]
  /\ pc \in Committing \cup {"config"} => view.status = "publishing"

(* A delivery is a failure that counts, the one under way, or a crash.     *)
Counted ==
  /\ pc # "idle" => event.status = "due"
  /\ event.status = "due" =>
       event.attempts <= AttemptLimit + faults - (IF pc = "idle" THEN 1 ELSE 0)
  /\ event.attempts <= AttemptLimit + faults

(* Until the publisher sets its identity nothing is staged, committed or   *)
(* pushed, and once it has, no other delivery gets past the first check.   *)
Stages ==
  /\ pc \in Checking => ~repo.identity
  /\ pc \in Committing => repo.identity
  /\ ~repo.identity =>
       /\ repo.index = "none" /\ repo.commit = "none" /\ ~job.recorded
       /\ remote = [branch |-> "none", pulls |-> 0]
  /\ pc \in Committing \ {"add"} => repo.index # "none"
  /\ repo.index = "none" => repo.commit = "none"
  /\ pc \in Verified => repo.commit # "none"
  /\ remote # [branch |-> "none", pulls |-> 0] =>
       job.status \in {"publishing", "completed", "stale"} /\ remote.branch # "none"
  /\ pc \in {"find", "create", "complete"} => remote.branch # "none"
  /\ pc = "create" => remote.pulls = 0
  /\ pc = "complete" => remote.pulls = 1
  /\ CompletedHasPull

IInv == TypeOK /\ Rows /\ Counted /\ Stages

-----------------------------------------------------------------------------
(* Nothing has happened yet.                                               *)
LEMMA InvInit == Init => IInv
<1> SUFFICES ASSUME Init PROVE IInv
  OBVIOUS
<1> USE DEF Init
<1>1. TypeOK
  <2>1. faults \in 0 .. MaxFaults /\ tampers \in 0 .. MaxTampers /\ event.attempts \in 0 .. MostAttempts
    BY PublicationAssumption DEF AttemptLimit, MostAttempts
  <2>2. event \in [status : {"due", "sent", "dead"}, attempts : 0 .. MostAttempts]
    BY <2>1
  <2>3. job \in [status : {"ready_to_publish", "publishing", "completed", "stale", "cancelled"},
                recorded : BOOLEAN]
    OBVIOUS
  <2>4. view \in [status : {"ready_to_publish", "publishing", "completed", "stale", "cancelled"},
                 recorded : BOOLEAN]
    BY <2>3
  <2>5. repo \in [files : Content, index : Content \cup {"none"},
                 commit : Content \cup {"none"}, identity : BOOLEAN]
    BY DEF Content
  <2>6. snapshot \in [files : Content, form : {"none", "untracked", "tracked"}]
    BY DEF Content, NoPatch
  <2>7. remote \in [branch : Content \cup {"none"}, pulls : 0 .. 1]
    OBVIOUS
  <2>8. moved \in BOOLEAN /\ pc = "idle" /\ refused = "none"
    OBVIOUS
  <2> HIDE DEF Init
  <2> QED
    BY <2>1, <2>2, <2>3, <2>4, <2>5, <2>6, <2>7, <2>8 DEF TypeOK
<1>2. Rows
  BY DEF Rows, Committing
<1>3. Counted
  BY DEF Counted, AttemptLimit
<1>4. Stages
  BY DEF Stages, Checking, Committing, Verified, CompletedHasPull
<1> QED
  BY <1>1, <1>2, <1>3, <1>4 DEF IInv

(* An exception of the publisher: the event goes back, or is given up.     *)
LEMMA InvRefuse ==
  ASSUME IInv, pc # "idle", NEW reason, Refuse(reason),
         reason \in {"status", "metadata", "tree", "conflict", "policy", "staging", "commit"}
  PROVE  IInv'
<1>1. MaxFaults \in Nat /\ faults \in Nat /\ event.attempts \in Nat
  BY PublicationAssumption DEF IInv, TypeOK, AttemptLimit, MostAttempts
<1>2. event'.attempts = event.attempts /\ pc' = "idle"
      /\ event'.status = IF event.attempts >= AttemptLimit THEN "dead" ELSE event.status
  BY DEF IInv, TypeOK, Refuse, AfterFailure
<1>3. TypeOK'
  BY <1>1 DEF IInv, TypeOK, Refuse, AfterFailure
<1>4. Counted'
  BY <1>1, <1>2 DEF IInv, Counted, Refuse, AttemptLimit
<1>5. Rows'
  BY DEF IInv, Rows, Refuse, Committing
<1>6. Stages'
  BY DEF IInv, Stages, Refuse, Checking, Committing, Verified, CompletedHasPull
<1> QED
  BY <1>3, <1>4, <1>5, <1>6 DEF IInv

(* A step that only goes on, within the checks or within the commit.       *)
LEMMA InvGoto ==
  ASSUME IInv, NEW label, Goto(label), pc # "idle",
         \/ pc \in Checking \cup {"metadata"} /\ label \in Checking \ {"config"} /\ ~repo.identity
         \/ pc = "begin" /\ label = "config" /\ view.status = "publishing"
         \/ pc = "staged" /\ label = "commit"
         \/ pc = "verify" /\ label = "recheck" /\ repo.commit # "none"
         \/ pc = "recheck" /\ label = "push"
         \/ pc = "find" /\ label = "create" /\ remote.pulls = 0
         \/ pc = "find" /\ label = "complete" /\ remote.pulls = 1
  PROVE  IInv'
<1>1. TypeOK'
  BY DEF IInv, TypeOK, Goto, Checking
<1>2. Counted'
  BY DEF IInv, Counted, Goto, Checking
<1>3. Rows'
  BY DEF IInv, Rows, Goto, Checking, Committing
<1>4. Stages'
  BY DEF IInv, Stages, Goto, Checking, Committing, Verified, CompletedHasPull
<1> QED
  BY <1>1, <1>2, <1>3, <1>4 DEF IInv

(* A write of the row under the publisher's version of it: a row that was  *)
(* cancelled meanwhile refuses the delivery.                               *)
LEMMA InvVersioned ==
  ASSUME IInv, NEW row, NEW label, Versioned(row, label), pc # "idle",
         row \in [status : {"publishing", "completed", "stale"}, recorded : BOOLEAN],
         row.recorded => view.recorded \/ repo.identity,
         row.status = "completed" => pc = "complete",
         \/ label = "settle"
         \/ pc = "begin" /\ label = "config" /\ row.status = "publishing"
         \/ pc = "record" /\ label = "verify" /\ row.status = "publishing"
  PROVE  IInv'
<1>1. CASE view # job
  <2>1. Refuse("conflict")
    BY <1>1 DEF Versioned
  <2> QED
    BY <2>1, InvRefuse
<1>2. CASE view = job
  <2>1. /\ job' = row /\ view' = row /\ pc' = label
        /\ UNCHANGED <<event, repo, snapshot, moved, remote, refused, faults, tampers>>
    BY <1>2 DEF Versioned
  <2>2. TypeOK'
    BY <2>1 DEF IInv, TypeOK
  <2>3. Rows'
    BY <2>1 DEF Rows, Committing
  <2>4. Counted'
    BY <2>1 DEF IInv, Counted
  <2>5. Stages'
    BY <1>2, <2>1 DEF IInv, Stages, Checking, Committing, Verified, CompletedHasPull
  <2> QED
    BY <2>2, <2>3, <2>4, <2>5 DEF IInv
<1> QED
  BY <1>1, <1>2

(* A command of Git in the workspace.                                      *)
LEMMA InvWork ==
  ASSUME IInv, Config \/ Add \/ Commit
  PROVE  IInv'
<1>1. CASE Config
  <2> USE <1>1 DEF Config, Work
  <2>1. repo' = [repo EXCEPT !.identity = TRUE] /\ pc = "config" /\ pc' = "add"
    OBVIOUS
  <2>2. TypeOK'
    <3>1. repo' \in [files : Content, index : Content \cup {"none"},
                     commit : Content \cup {"none"}, identity : BOOLEAN]
      BY DEF IInv, TypeOK
    <3> QED
      BY <3>1 DEF IInv, TypeOK
  <2>3. Rows'
    BY DEF IInv, Rows, Committing
  <2>4. Counted'
    BY DEF IInv, Counted
  <2>5. Stages'
    BY DEF IInv, TypeOK, Stages, Checking, Committing, Verified, CompletedHasPull
  <2> QED
    BY <2>2, <2>3, <2>4, <2>5 DEF IInv
<1>2. CASE Add
  <2> USE <1>2 DEF Add, Work
  <2>2. TypeOK'
    BY DEF IInv, TypeOK
  <2>3. Rows'
    BY DEF IInv, Rows, Committing
  <2>4. Counted'
    BY DEF IInv, Counted
  <2>5. Stages'
    BY DEF IInv, TypeOK, Stages, Content, Checking, Committing, Verified, CompletedHasPull
  <2> QED
    BY <2>2, <2>3, <2>4, <2>5 DEF IInv
<1>3. CASE Commit
  <2> USE <1>3 DEF Commit, Work
  <2>2. TypeOK'
    BY DEF IInv, TypeOK
  <2>3. Rows'
    BY DEF IInv, Rows, Committing
  <2>4. Counted'
    BY DEF IInv, Counted
  <2>5. Stages'
    BY DEF IInv, TypeOK, Stages, Content, Checking, Committing, Verified, CompletedHasPull
  <2> QED
    BY <2>2, <2>3, <2>4, <2>5 DEF IInv
<1> QED
  BY <1>1, <1>2, <1>3

(* What the publisher does on GitHub.                                      *)
LEMMA InvPublish ==
  ASSUME IInv, Push \/ Create
  PROVE  IInv'
<1>1. pc \in {"push", "create"} /\ pc' \in {"find", "complete"}
      /\ UNCHANGED <<job, view, event, repo, snapshot, moved, refused, faults, tampers>>
  BY DEF Push, Create, Publish
<1>2. TypeOK'
  BY DEF IInv, TypeOK, Stages, Push, Create, Publish
<1>3. Rows'
  BY <1>1 DEF IInv, Rows, Committing
<1>4. Counted'
  BY <1>1 DEF IInv, Counted
<1>5. Stages'
  <2>1. view = job /\ job.status = "publishing" /\ repo.identity /\ repo.commit # "none"
    BY <1>1 DEF IInv, Rows, Stages, Committing, Verified
  <2>2. CASE Push
    BY <2>1, <2>2 DEF IInv, TypeOK, Stages, Push, Publish, Content, Checking, Committing, Verified, CompletedHasPull
  <2>3. CASE Create
    BY <2>1, <2>3 DEF IInv, TypeOK, Stages, Create, Publish, Content, Checking, Committing, Verified, CompletedHasPull
  <2> QED
    BY <2>2, <2>3
<1> QED
  BY <1>2, <1>3, <1>4, <1>5 DEF IInv

(* The checks before the publication.                                      *)
LEMMA InvChecks ==
  ASSUME IInv, Metadata \/ Head \/ Tree \/ Snapshot \/ Begin
  PROVE  IInv'
<1>0. view \in [status : {"ready_to_publish", "publishing", "completed", "stale", "cancelled"},
                recorded : BOOLEAN]
  BY DEF IInv, TypeOK
<1>1. CASE Metadata
  <2>1. \/ Refuse("status")
        \/ Refuse("metadata")
        \/ ~repo.identity /\ Goto("head")
    BY <1>1 DEF Metadata, MetadataClean
  <2>2. pc = "metadata"
    BY <1>1 DEF Metadata
  <2> QED
    BY <2>1, <2>2, InvRefuse, InvGoto DEF Checking
<1>2. CASE Head
  <2>1. pc = "head" /\ ~repo.identity
    BY <1>2 DEF Head, IInv, Stages, Checking
  <2>2. CASE moved
    <3>1. Versioned([view EXCEPT !.status = "stale"], "settle")
      BY <1>2, <2>2 DEF Head
    <3> QED
      BY <1>0, <2>1, <3>1, InvVersioned
  <2>3. CASE ~moved
    <3>1. Goto("tree")
      BY <1>2, <2>3 DEF Head
    <3> QED
      BY <2>1, <3>1, InvGoto DEF Checking
  <2> QED
    BY <2>2, <2>3
<1>3. CASE Tree
  <2>1. pc = "tree" /\ ~repo.identity
    BY <1>3 DEF Tree, IInv, Stages, Checking
  <2>2. Goto("snapshot") \/ Refuse("tree")
    BY <1>3 DEF Tree
  <2> QED
    BY <2>1, <2>2, InvRefuse, InvGoto DEF Checking
<1>4. CASE Snapshot
  <2>1. pc = "snapshot" /\ ~repo.identity
    BY <1>4 DEF Snapshot, IInv, Stages, Checking
  <2>2. CASE Refuse("policy")
    BY <2>1, <2>2, InvRefuse
  <2>3. CASE ~Refuse("policy")
    <3>1. /\ snapshot' = Patch /\ pc' = "begin"
          /\ UNCHANGED <<job, view, event, repo, moved, remote, refused, faults, tampers>>
      BY <1>4, <2>3 DEF Snapshot
    <3>2. Patch \in [files : Content, form : {"none", "untracked", "tracked"}]
      BY DEF IInv, TypeOK, Patch
    <3>3. TypeOK'
      BY <3>1, <3>2 DEF IInv, TypeOK
    <3>4. Rows'
      BY <3>1 DEF IInv, Rows, Committing
    <3>5. Counted'
      BY <2>1, <3>1 DEF IInv, Counted
    <3>6. Stages'
      BY <2>1, <3>1 DEF IInv, Stages, Checking, Committing, Verified, CompletedHasPull
    <3> QED
      BY <3>3, <3>4, <3>5, <3>6 DEF IInv
  <2> QED
    BY <2>2, <2>3
<1>5. CASE Begin
  <2>1. pc = "begin" /\ ~repo.identity
    BY <1>5 DEF Begin, IInv, Stages, Checking
  <2>2. AfterBegin = "config"
    <3>1. ~job.recorded /\ repo.commit = "none"
      BY <2>1 DEF IInv, Stages
    <3>2. ~view.recorded
      BY <1>0, <3>1 DEF IInv, Rows
    <3> QED
      BY <3>1, <3>2 DEF AfterBegin, AtBase
  <2>3. CASE view.status = "publishing"
    <3>1. Goto("config")
      BY <1>5, <2>2, <2>3 DEF Begin
    <3> QED
      BY <2>1, <2>3, <3>1, InvGoto
  <2>4. CASE view.status # "publishing"
    <3>1. Versioned([view EXCEPT !.status = "publishing"], "config")
      BY <1>5, <2>2, <2>4 DEF Begin
    <3> QED
      BY <1>0, <2>1, <3>1, InvVersioned
  <2> QED
    BY <2>3, <2>4
<1> QED
  BY <1>1, <1>2, <1>3, <1>4, <1>5

(* The steps of the commit and of the pull request that check or write the *)
(* row.                                                                    *)
LEMMA InvCommits ==
  ASSUME IInv, Staged \/ Record \/ Verify \/ Recheck \/ Find \/ Complete
  PROVE  IInv'
<1>0. /\ view \in [status : {"ready_to_publish", "publishing", "completed", "stale", "cancelled"},
                   recorded : BOOLEAN]
      /\ remote.pulls \in 0 .. 1
  BY DEF IInv, TypeOK
<1>1. pc \in {"staged", "record", "verify", "recheck", "find", "complete"}
  BY DEF Staged, Record, Verify, Recheck, Find, Complete
<1>2. repo.identity /\ view.status = "publishing"
  BY <1>1 DEF IInv, Stages, Rows, Committing
<1>3. CASE Staged
  <2>1. pc = "staged" /\ (Goto("commit") \/ Refuse("staging"))
    BY <1>3 DEF Staged
  <2> QED
    BY <2>1, InvRefuse, InvGoto
<1>4. CASE Record
  <2>1. pc = "record" /\ Versioned([view EXCEPT !.recorded = TRUE], "verify")
    BY <1>4 DEF Record
  <2> QED
    BY <1>0, <1>2, <2>1, InvVersioned
<1>5. CASE Verify
  <2>1. pc = "verify" /\ ((repo.commit # "none" /\ Goto("recheck")) \/ Refuse("commit"))
    BY <1>5 DEF Verify, CleanCommit, AtBase
  <2> QED
    BY <2>1, InvRefuse, InvGoto
<1>6. CASE Recheck
  <2>1. pc = "recheck"
        /\ (Versioned([view EXCEPT !.status = "stale"], "settle") \/ Goto("push"))
    BY <1>6 DEF Recheck
  <2> QED
    BY <1>0, <2>1, InvVersioned, InvGoto
<1>7. CASE Find
  <2>1. /\ pc = "find"
        /\ \/ remote.pulls = 1 /\ Goto("complete")
           \/ remote.pulls = 0 /\ Goto("create")
    BY <1>0, <1>7 DEF Find
  <2> QED
    BY <2>1, InvGoto
<1>8. CASE Complete
  <2>1. pc = "complete" /\ Versioned([view EXCEPT !.status = "completed"], "settle")
    BY <1>8 DEF Complete
  <2> QED
    BY <1>0, <2>1, InvVersioned
<1> QED
  BY <1>3, <1>4, <1>5, <1>6, <1>7, <1>8

(* The dispatcher picks and settles the event.                             *)
LEMMA InvEvent ==
  ASSUME IInv, Pick \/ Settle
  PROVE  IInv'
<1>0. /\ MaxFaults \in Nat /\ faults \in 0 .. MaxFaults /\ event.attempts \in Nat
      /\ event \in [status : {"due", "sent", "dead"}, attempts : 0 .. MostAttempts]
  BY PublicationAssumption DEF IInv, TypeOK, AttemptLimit, MostAttempts
<1>1. CASE Pick
  <2>1. /\ pc = "idle" /\ event.status = "due" /\ view' = job /\ pc' \in {"settle", "metadata"}
        /\ UNCHANGED <<job, repo, snapshot, moved, remote, refused, faults, tampers>>
    BY <1>1 DEF Pick
  <2>2. event' = [event EXCEPT !.attempts = event.attempts + 1]
    BY <1>0, <1>1, <2>1 DEF Pick, NextAttempt, IInv, Counted, AttemptLimit, MostAttempts
  <2>3. /\ event'.status = "due" /\ event'.attempts = event.attempts + 1
        /\ event'.attempts <= AttemptLimit + faults
    BY <1>0, <2>1, <2>2 DEF IInv, Counted, AttemptLimit
  <2>4. event' \in [status : {"due", "sent", "dead"}, attempts : 0 .. MostAttempts]
    BY <1>0, <2>2, <2>3 DEF AttemptLimit, MostAttempts
  <2>5. TypeOK'
    BY <2>1, <2>4 DEF IInv, TypeOK
  <2>6. Rows'
    BY <2>1 DEF Rows, Committing
  <2>7. Counted'
    BY <1>0, <2>1, <2>3 DEF Counted, AttemptLimit
  <2>8. Stages'
    BY <2>1 DEF IInv, Stages, Checking, Committing, Verified, CompletedHasPull
  <2> QED
    BY <2>5, <2>6, <2>7, <2>8 DEF IInv
<1>2. CASE Settle
  <2>1. /\ pc' = "idle" /\ event' = [event EXCEPT !.status = "sent"]
        /\ UNCHANGED <<job, view, repo, snapshot, moved, remote, refused, faults, tampers>>
    BY <1>2 DEF Settle
  <2>2. TypeOK'
    BY <1>0, <2>1 DEF IInv, TypeOK
  <2>3. Rows'
    BY <2>1 DEF IInv, Rows, Committing
  <2>4. Counted'
    BY <1>0, <2>1 DEF IInv, Counted
  <2>5. Stages'
    BY <2>1 DEF IInv, Stages, Checking, Committing, Verified, CompletedHasPull
  <2> QED
    BY <2>2, <2>3, <2>4, <2>5 DEF IInv
<1> QED
  BY <1>1, <1>2

(* A failure of GitHub, or a crash of Control.                             *)
LEMMA InvFault ==
  ASSUME IInv, GitHubFails \/ Crash
  PROVE  IInv'
<1>0. /\ MaxFaults \in Nat /\ faults \in 0 .. MaxFaults /\ event.attempts \in Nat
      /\ event \in [status : {"due", "sent", "dead"}, attempts : 0 .. MostAttempts]
  BY PublicationAssumption DEF IInv, TypeOK, AttemptLimit, MostAttempts
<1>1. /\ pc # "idle" /\ pc' = "idle" /\ faults < MaxFaults /\ faults' = faults + 1
      /\ event' \in {event, AfterFailure(event), [event EXCEPT !.status = "dead"]}
      /\ UNCHANGED <<job, view, repo, snapshot, moved, remote, refused, tampers>>
  BY DEF GitHubFails, Crash
<1>2. /\ event' \in [status : {"due", "sent", "dead"}, attempts : 0 .. MostAttempts]
      /\ event'.attempts = event.attempts
  BY <1>0, <1>1 DEF AfterFailure
<1>3. TypeOK'
  BY <1>0, <1>1, <1>2 DEF IInv, TypeOK
<1>4. Rows'
  BY <1>1 DEF IInv, Rows, Committing
<1>5. Counted'
  BY <1>0, <1>1, <1>2 DEF IInv, Counted, AttemptLimit
<1>6. Stages'
  BY <1>1 DEF IInv, Stages, Checking, Committing, Verified, CompletedHasPull
<1> QED
  BY <1>3, <1>4, <1>5, <1>6 DEF IInv

(* What happens meanwhile to the row, to the default branch and to the     *)
(* files.                                                                  *)
LEMMA InvMeanwhile ==
  ASSUME IInv, Cancel \/ MoveBase \/ Tamper
  PROVE  IInv'
<1>1. CASE Cancel
  <2>1. /\ job.status = "ready_to_publish" /\ job' = [job EXCEPT !.status = "cancelled"]
        /\ UNCHANGED <<view, pc, event, repo, snapshot, moved, remote, refused, faults, tampers>>
    BY <1>1 DEF Cancel
  <2>2. job \in [status : {"ready_to_publish", "publishing", "completed", "stale", "cancelled"},
                recorded : BOOLEAN]
    BY DEF IInv, TypeOK
  <2>3. job'.status = "cancelled" /\ job'.recorded = job.recorded
    BY <2>1, <2>2
  <2>4. view = job
    BY <2>1, <2>2 DEF IInv, TypeOK, Rows
  <2>5. TypeOK'
    BY <2>1, <2>2 DEF IInv, TypeOK
  <2>6. Rows'
    BY <2>1, <2>4 DEF IInv, Rows, Committing
  <2>7. Counted'
    BY <2>1 DEF IInv, Counted
  <2>8. Stages'
    BY <2>1, <2>3 DEF IInv, Stages, Checking, Committing, Verified, CompletedHasPull
  <2> QED
    BY <2>5, <2>6, <2>7, <2>8 DEF IInv
<1>2. CASE MoveBase
  BY <1>2 DEF MoveBase, IInv, TypeOK, Rows, Counted, Stages, CompletedHasPull
<1>3. CASE Tamper
  <2>1. /\ tampers < MaxTampers /\ tampers' = tampers + 1
        /\ repo' = [repo EXCEPT !.files = IF @ = "draft" THEN "other" ELSE "draft"]
        /\ UNCHANGED <<job, view, pc, event, snapshot, moved, remote, refused, faults>>
    BY <1>3 DEF Tamper
  <2>2. repo \in [files : Content, index : Content \cup {"none"},
                 commit : Content \cup {"none"}, identity : BOOLEAN]
    BY DEF IInv, TypeOK
  <2>3. /\ repo' \in [files : Content, index : Content \cup {"none"},
                      commit : Content \cup {"none"}, identity : BOOLEAN]
        /\ repo'.index = repo.index /\ repo'.commit = repo.commit
        /\ repo'.identity = repo.identity
    BY <2>1, <2>2 DEF Content
  <2>4. TypeOK'
    BY <2>1, <2>3, PublicationAssumption DEF IInv, TypeOK
  <2>5. Rows'
    BY <2>1 DEF IInv, Rows, Committing
  <2>6. Counted'
    BY <2>1 DEF IInv, Counted
  <2>7. Stages'
    BY <2>1, <2>3 DEF IInv, Stages, Checking, Committing, Verified, CompletedHasPull
  <2> QED
    BY <2>4, <2>5, <2>6, <2>7 DEF IInv
<1> QED
  BY <1>1, <1>2, <1>3

(* Every step, and every stutter.                                          *)
LEMMA InvNext == IInv /\ [Next]_vars => IInv'
<1> SUFFICES ASSUME IInv, [Next]_vars PROVE IInv'
  OBVIOUS
<1>1. CASE UNCHANGED vars
  BY <1>1 DEF vars, IInv, TypeOK, Rows, Counted, Stages, CompletedHasPull
<1>2. CASE Next
  BY <1>2, InvChecks, InvCommits, InvWork, InvPublish, InvEvent, InvFault, InvMeanwhile
     DEF Next, Dispatch
<1> QED
  BY <1>1, <1>2

(* The invariant holds in every reachable state.                           *)
LEMMA Inductive == Spec => []IInv
<1>1. Init => IInv
  BY InvInit
<1>2. IInv /\ [Next]_vars => IInv'
  BY InvNext
<1> QED
  BY <1>1, <1>2, PTL DEF Spec

-----------------------------------------------------------------------------
(* The contents, up to the second late write: the first changes the files  *)
(* and the second restores them.                                           *)

(* A staged content that is not the validated one took both writes, so the *)
(* files differ from it and the next check refuses it.                     *)
Caught == tampers = 2 /\ repo.files # repo.index

(* Where each content can be, and when.  The publisher compares the files  *)
(* with the snapshot after it staged them, and with the commit after it    *)
(* made it; one write more, and both comparisons could succeed.            *)
Written ==
  /\ repo.files = IF tampers = 1 THEN "other" ELSE "draft"
  /\ snapshot.files = "other" => tampers >= 1
  /\ repo.index = "other" => tampers >= 1
  /\ repo.identity /\ repo.index = "draft" /\ snapshot.files = "other" => tampers = 2
  /\ pc = "commit" => repo.index = snapshot.files \/ Caught
  /\ pc \in {"record", "verify"} =>
       /\ repo.commit = repo.index
       /\ repo.index = snapshot.files \/ Caught
  /\ pc \in {"recheck", "push"} => repo.commit = snapshot.files
  /\ remote.branch \in {"none", snapshot.files}

LEMMA WrittenInit == Init => Written
BY DEF Init, Written, Caught, NoPatch

(* A step that leaves the clone, the snapshot, the writes and the branch   *)
(* alone and does not enter a place that Written speaks about.             *)
LEMMA WrittenKept ==
  ASSUME Written, UNCHANGED <<repo, snapshot, tampers>>, remote'.branch = remote.branch,
         pc' \notin {"commit", "record", "verify", "recheck", "push"} \/ pc' = pc
  PROVE  Written'
BY DEF Written, Caught

(* The publisher goes from one comparison to the next.                     *)
LEMMA WrittenCommits ==
  ASSUME tampers <= 2, IInv, Written, Staged \/ Commit \/ Record \/ Verify \/ Recheck \/ Push
  PROVE  Written'
<1>0. /\ tampers \in 0 .. 2 /\ snapshot.files \in Content
      /\ repo \in [files : Content, index : Content \cup {"none"},
                   commit : Content \cup {"none"}, identity : BOOLEAN]
  BY PublicationAssumption DEF IInv, TypeOK
<1>1. pc \in {"staged", "commit"} => repo.identity /\ repo.index \in Content
  BY <1>0 DEF IInv, Stages, Committing
<1>2. CASE Refuse("staging") \/ Refuse("conflict") \/ Refuse("commit")
  BY <1>2, WrittenKept DEF Refuse
<1>3. CASE Staged /\ Goto("commit")
  <2>1. pc = "staged" /\ pc' = "commit" /\ UNCHANGED <<repo, snapshot, tampers, remote>>
    BY <1>3 DEF Staged, Goto
  <2>2. CASE Patch = snapshot
    <3>1. repo.files = snapshot.files
      BY <2>2 DEF Patch
    <3> QED
      BY <1>0, <1>1, <2>1, <3>1 DEF Written, Caught, Content
  <2>3. CASE Patch # snapshot
    BY <1>2, <1>3, <2>1, <2>3 DEF Staged, Refuse
  <2> QED
    BY <2>2, <2>3
<1>4. CASE Commit
  <2>1. /\ pc = "commit" /\ pc' = "record" /\ repo' = [repo EXCEPT !.commit = repo.index]
        /\ UNCHANGED <<snapshot, tampers, remote>>
    BY <1>4 DEF Commit, Work
  <2>2. /\ repo'.commit = repo.index /\ repo'.index = repo.index
        /\ repo'.files = repo.files /\ repo'.identity = repo.identity
    BY <1>0, <2>1
  <2> QED
    BY <2>1, <2>2 DEF Written, Caught
<1>5. CASE Record /\ pc' = "verify"
  <2>1. pc = "record" /\ UNCHANGED <<repo, snapshot, tampers, remote>>
    BY <1>5 DEF Record, Versioned, Refuse
  <2> QED
    BY <1>5, <2>1 DEF Written, Caught
<1>6. CASE Verify /\ pc' = "recheck"
  <2>1. pc = "verify" /\ repo.files = repo.commit /\ UNCHANGED <<repo, snapshot, tampers, remote>>
    BY <1>6 DEF Verify, CleanCommit, Goto, Refuse
  <2> QED
    BY <1>6, <2>1 DEF Written, Caught
<1>7. CASE Recheck
  <2>1. /\ pc = "recheck" /\ pc' \in {"idle", "settle", "push"}
        /\ UNCHANGED <<repo, snapshot, tampers, remote>>
    BY <1>7 DEF Recheck, Versioned, Refuse, Goto
  <2> QED
    BY <2>1 DEF Written, Caught
<1>8. CASE Push
  <2>1. /\ pc = "push" /\ pc' = "find" /\ remote' = [remote EXCEPT !.branch = repo.commit]
        /\ UNCHANGED <<repo, snapshot, tampers>>
    BY <1>8 DEF Push, Publish
  <2>2. remote'.branch = repo.commit
    BY <2>1 DEF IInv, TypeOK
  <2> QED
    BY <2>1, <2>2 DEF Written, Caught
<1>9. /\ Staged => Goto("commit") \/ Refuse("staging")
      /\ Record => pc' = "verify" \/ Refuse("conflict")
      /\ Verify => pc' = "recheck" \/ Refuse("commit")
  BY DEF Staged, Record, Verify, Versioned, Goto
<1> QED
  BY <1>2, <1>3, <1>4, <1>5, <1>6, <1>7, <1>8, <1>9

(* A late write is not forgotten.                                          *)
LEMMA TampersGrow ==
  ASSUME IInv, [Next]_vars
  PROVE  tampers' = tampers \/ tampers' = tampers + 1
<1>1. CASE UNCHANGED vars
  BY <1>1 DEF vars
<1>2. CASE Pick \/ Settle \/ Metadata \/ Head \/ Tree \/ Snapshot \/ Begin
  BY <1>2 DEF Pick, Settle, Metadata, Head, Tree, Snapshot, Begin, Versioned, Refuse, Goto
<1>3. CASE Config \/ Add \/ Staged \/ Commit \/ Record \/ Verify \/ Recheck
  BY <1>3 DEF Config, Add, Work, Staged, Commit, Record, Verify, Recheck, Versioned, Refuse, Goto
<1>4. CASE Push \/ Find \/ Create \/ Complete
  BY <1>4 DEF Push, Find, Create, Complete, Publish, Versioned, Refuse, Goto
<1>5. CASE GitHubFails \/ Crash \/ Cancel \/ MoveBase \/ Tamper
  BY <1>5 DEF GitHubFails, Crash, Cancel, MoveBase, Tamper
<1> QED
  BY <1>1, <1>2, <1>3, <1>4, <1>5 DEF Next, Dispatch

(* Every step keeps the contents where they may be.                        *)
LEMMA WrittenNext ==
  ASSUME tampers <= 2, tampers' <= 2, IInv, Written, [Next]_vars
  PROVE  Written'
<1>0. /\ tampers \in 0 .. 2 /\ snapshot.files \in Content
      /\ repo \in [files : Content, index : Content \cup {"none"},
                   commit : Content \cup {"none"}, identity : BOOLEAN]
      /\ remote \in [branch : Content \cup {"none"}, pulls : 0 .. 1]
  BY PublicationAssumption DEF IInv, TypeOK
<1>1. CASE UNCHANGED vars
  BY <1>1, WrittenKept DEF vars
<1>2. CASE Staged \/ Commit \/ Record \/ Verify \/ Recheck \/ Push
  BY <1>2, WrittenCommits
<1>3. CASE Pick \/ Settle \/ Metadata \/ Head \/ Tree
  BY <1>3, WrittenKept DEF Pick, Settle, Metadata, Head, Tree, Versioned, Refuse, Goto
<1>4. CASE Snapshot
  <2>1. CASE Refuse("policy")
    BY <2>1, WrittenKept DEF Refuse
  <2>2. CASE ~Refuse("policy")
    <3>1. /\ pc = "snapshot" /\ pc' = "begin" /\ snapshot' = Patch
          /\ UNCHANGED <<repo, tampers, remote>>
      BY <1>4, <2>2 DEF Snapshot
    <3>2. ~repo.identity /\ remote.branch = "none"
      BY <1>0, <3>1 DEF IInv, Stages, Checking
    <3>3. snapshot'.files = repo.files
      BY <3>1 DEF Patch
    <3> QED
      BY <1>0, <3>1, <3>2, <3>3 DEF Written, Caught
  <2> QED
    BY <2>1, <2>2
<1>5. CASE Begin
  <2>1. AfterBegin = "config" \/ ~(pc = "begin")
    <3>1. pc = "begin" => ~job.recorded /\ repo.commit = "none"
      BY DEF IInv, Stages, Checking
    <3>2. pc = "begin" => ~view.recorded
      BY <3>1 DEF IInv, TypeOK, Rows
    <3> QED
      BY <3>1, <3>2 DEF AfterBegin, AtBase
  <2>2. /\ pc' \in {"config", "idle"} /\ UNCHANGED <<repo, snapshot, tampers, remote>>
    BY <1>5, <2>1 DEF Begin, Versioned, Refuse, Goto
  <2> QED
    BY <2>2, WrittenKept
<1>6. CASE Config
  <2>1. /\ pc = "config" /\ pc' = "add" /\ repo' = [repo EXCEPT !.identity = TRUE]
        /\ UNCHANGED <<snapshot, tampers, remote>>
    BY <1>6 DEF Config, Work
  <2>2. repo.index = "none"
    BY <2>1 DEF IInv, Stages, Checking
  <2>3. /\ repo'.commit = repo.commit /\ repo'.index = "none" /\ repo'.files = repo.files
    BY <1>0, <2>1, <2>2
  <2> QED
    BY <2>1, <2>2, <2>3 DEF Written, Caught
<1>7. CASE Add
  <2>1. /\ pc = "add" /\ pc' = "staged" /\ repo' = [repo EXCEPT !.index = repo.files]
        /\ UNCHANGED <<snapshot, tampers, remote>>
    BY <1>7 DEF Add, Work
  <2>2. /\ repo'.commit = repo.commit /\ repo'.index = repo.files /\ repo'.files = repo.files
        /\ repo'.identity = repo.identity
    BY <1>0, <2>1
  <2> QED
    BY <1>0, <2>1, <2>2 DEF Written, Caught, Content
<1>8. CASE Find \/ Create \/ Complete
  BY <1>0, <1>8, WrittenKept DEF Find, Create, Complete, Publish, Versioned, Refuse, Goto
<1>9. CASE GitHubFails \/ Crash \/ Cancel \/ MoveBase
  BY <1>9, WrittenKept DEF GitHubFails, Crash, Cancel, MoveBase
<1>10. CASE Tamper
  <2>1. /\ tampers' = tampers + 1 /\ tampers < 2
        /\ repo' = [repo EXCEPT !.files = IF repo.files = "draft" THEN "other" ELSE "draft"]
        /\ UNCHANGED <<pc, snapshot, remote>>
    BY <1>0, <1>10, PublicationAssumption DEF Tamper
  <2>2. /\ repo'.commit = repo.commit /\ repo'.index = repo.index /\ repo'.identity = repo.identity
        /\ repo'.files = IF repo.files = "draft" THEN "other" ELSE "draft"
    BY <1>0, <2>1
  <2> QED
    BY <1>0, <2>1, <2>2 DEF Written, Caught
<1> QED
  BY <1>1, <1>2, <1>3, <1>4, <1>5, <1>6, <1>7, <1>8, <1>9, <1>10 DEF Next, Dispatch

-----------------------------------------------------------------------------
(* Every variable keeps its type: in particular TrustedPublisher delivers  *)
(* an event no more often than its limit and the faults allow, and never   *)
(* opens a second pull request, after any crashes and failures of GitHub.  *)
THEOREM TypeCorrect == Spec => []TypeOK
<1>1. IInv => TypeOK
  BY DEF IInv
<1> QED
  BY <1>1, Inductive, PTL

(* A job cancelled by /osc-agent cancel has no branch and no pull request: *)
(* begin_publication writes the row under the version the publisher read,  *)
(* and nothing is pushed before it, whatever fails and is delivered again. *)
THEOREM CancelledStaysPrivate == Spec => []CancelledIsUnpublished
<1>1. IInv => CancelledIsUnpublished
  BY DEF IInv, Stages, CancelledIsUnpublished
<1> QED
  BY <1>1, Inductive, PTL

(* complete_publication is reached only with the branch pushed and exactly *)
(* one pull request open, after any crashes, failures and redeliveries.    *)
THEOREM CompletedIsPublished == Spec => []CompletedHasPull
<1>1. IInv => CompletedHasPull
  BY DEF IInv, Stages
<1> QED
  BY <1>1, Inductive, PTL

(* Up to the second late write of a run that lost its lease, what          *)
(* publish() pushes is what it validated, after any number of crashes and  *)
(* failures and whatever comes after; with a third write the two           *)
(* comparisons with the clone can both succeed.                            *)
THEOREM PushedAsValidated == Spec => []PushedIsValidated
<1> DEFINE Inv == tampers <= 2 => Written
<1>1. Init => Inv
  BY WrittenInit
<1>2. IInv /\ Inv /\ [Next]_vars => Inv'
  <2> SUFFICES ASSUME IInv, Inv, [Next]_vars, tampers' <= 2 PROVE Written'
    OBVIOUS
  <2>1. tampers \in Nat
    BY PublicationAssumption DEF IInv, TypeOK
  <2>2. tampers <= 2
    BY <2>1, TampersGrow
  <2> QED
    BY <2>2, WrittenNext
<1>3. Inv => PushedIsValidated
  BY DEF Written, PushedIsValidated
<1> QED
  BY <1>1, <1>2, <1>3, Inductive, PTL DEF Spec

=============================================================================

------------------------- MODULE CompletionEvidence -------------------------
(***************************************************************************)
(* What a run must show before it may stop: CompletionEvaluator of         *)
(* completion/evaluator.py over the results that the tools of tools/bash,  *)
(* tools/questions, tools/git, subagents/ and bot/worker/artifact_tools    *)
(* leave in the transcript, and CompletionRequirements.tighten of          *)
(* completion/models.py.                                                   *)
(*                                                                         *)
(* The transcript is the sequence of the results that count as evidence.   *)
(* `at` is the index of the message that carries the result: the results   *)
(* of one answer of the model share it.  A fingerprint is the content of   *)
(* the workspace it was taken of.                                          *)
(***************************************************************************)
EXTENDS Integers, Sequences, CompletionRequirements

CONSTANTS
  MaxResults,   \* bound: results in the transcript
  Contents,     \* contents of the workspace; 0 is that of the base commit
  Children,     \* child Session ids of the verify Agent, numbers in any order
  Validations,  \* configured validation commands
  Profiles,     \* requirements: of the application, of a skill
  Observed,     \* results this instance is about
  MayShare      \* may one answer of the model call several tools?

\* The shell commands of interest: classify_command takes one for a test.
Commands == {"test", "lint"}

\* What an instance has to give the constants.
EvidenceAssumption ==
  /\ MaxResults \in Nat /\ Observed \subseteq STRING /\ Contents \subseteq Nat /\ 0 \in Contents
  /\ Children \subseteq Nat /\ Validations \subseteq Commands
  /\ Profiles \subseteq Requirements /\ MayShare \in BOOLEAN

VARIABLES
  files,   \* content of the workspace
  log      \* results of the transcript that count as evidence

vars == <<files, log>>

-----------------------------------------------------------------------------
(* The evaluation.                                                          *)

None == [at |-> 0, fp |-> -1]

\* max() over tuples that begin with the message index: the last message
\* wins, and in it the greatest second element, whatever came first.
Latest(items, tie) ==
  IF items = {} THEN None
  ELSE CHOOSE e \in items :
         \A o \in items : o.at < e.at \/ (o.at = e.at /\ o[tie] <= e[tie])

Entries(tools) == {log[i] : i \in {k \in 1..Len(log) : log[k].tool \in tools}}

\* successful_test or a waiver of it, whichever is later
Primary(needs) ==
  Latest(Entries(IF "successful_test" \in needs.waivable
                 THEN {"test", "waiver"} ELSE {"test"}), "fp")

Report == Latest(Entries({"report"}), "child")

PartialWaivers ==
  {w \in Entries({"partial_waiver"}) :
     Report # None /\ Report.verdict = "PARTIAL" /\ w.at > Report.at
       /\ w.child = Report.child}

Independent(needs) ==
  Latest((IF Report # None /\ Report.verdict = "PASS" THEN {Report} ELSE {})
           \union (IF "independent_verification" \in needs.waivable
                   THEN PartialWaivers ELSE {}), "fp")

Snapshot == Latest(Entries({"diff"}), "fp")
Draft == Latest(Entries({"draft"}), "fp")

TestMissing(needs) == Primary(needs).fp # files

\* Mutant of VerificationMissing: a test after the verification does not count.
VerificationMissingUnordered(needs) == Independent(needs).fp # files

VerificationMissing(needs) ==
  \/ Independent(needs) = None
  \/ Independent(needs).at <= Primary(needs).at
  \/ Independent(needs).fp # files

SnapshotMissing(needs) ==
  \/ Snapshot = None
  \/ Snapshot.at <= Primary(needs).at \/ Snapshot.at <= Independent(needs).at
  \/ Snapshot.fp # files
  \/ Snapshot.fp = 0

DraftMissing ==
  \/ Draft = None \/ Snapshot = None
  \/ Draft.at <= Snapshot.at
  \/ Draft.fp # files

\* _configured_validation_reasons: the last success of each command, in the
\* order of the results.
LastIndex(tool) ==
  LET at == {i \in 1..Len(log) : log[i].tool = tool}
  IN  IF at = {} THEN 0 ELSE CHOOSE i \in at : \A k \in at : k <= i

\* Mutant of LastWrite: fingerprints alone decide.
LastWriteIgnored == 0

LastWrite == IF LastIndex("write") = 0 THEN 0 ELSE log[LastIndex("write")].at

ValidationMissing ==
  \E command \in Validations :
    \/ LastIndex(command) = 0
    \/ log[LastIndex(command)].at <= LastWrite
    \/ log[LastIndex(command)].fp # files

\* The reasons: what is required and missing.
Missing(kind, needs) ==
  CASE kind = "successful_test"          -> TestMissing(needs)
    [] kind = "independent_verification" -> VerificationMissing(needs)
    [] kind = "git_change_snapshot"      -> SnapshotMissing(needs)
    [] kind = "issue_plan"               -> LastIndex("plan") = 0
    [] kind = "delivery_draft"           -> DraftMissing

\* CompletionStopHook: without a reason the run completes.
Accepts(needs) ==
  /\ \A kind \in needs.required : ~Missing(kind, needs)
  /\ "successful_test" \in needs.required => ~ValidationMissing

-----------------------------------------------------------------------------
(* The tools.  A result goes into a message of its own or, when the same    *)
(* answer called the tool before, into that of the previous result.  Tools  *)
(* take the fingerprint when they have done their work.                     *)

Init == files \in Contents /\ log = <<>>

Record(entry, shared) ==
  /\ Len(log) < MaxResults /\ entry.tool \in Observed
  /\ shared => MayShare /\ log # <<>>
  /\ LET last == IF log = <<>> THEN 0 ELSE log[Len(log)].at
     IN  log' = Append(log, [at |-> IF shared THEN last ELSE last + 1, tool |-> entry.tool,
                             fp |-> files', child |-> entry.child, verdict |-> entry.verdict])

Plain(tool) == [tool |-> tool, child |-> 0, verdict |-> "none"]

\* write_file, edit_file; the text may be what was there
Write(content, shared) ==
  /\ files' = content
  /\ Record(Plain("write"), shared)

\* A command that succeeds may have changed files.
Bash(command, content, shared) ==
  /\ files' = content
  /\ Record(Plain(command), shared)

\* A command that fails, or a verify Agent stopped by its guard
\* (AGENT_READ_ONLY_VIOLATION), changes files and is no evidence.
ChangeOnly(content) ==
  /\ "failure" \in Observed /\ content # files /\ files' = content
  /\ UNCHANGED log

\* ask_user_question, answered with proceed_without_tests
Waive(shared) ==
  /\ UNCHANGED files
  /\ Record(Plain("waiver"), shared)

\* the same, answered with proceed_with_partial_verification
WaivePartial(child, shared) ==
  /\ UNCHANGED files
  /\ Record([tool |-> "partial_waiver", child |-> child, verdict |-> "none"], shared)

\* SubagentRunner draws a fresh child id; the files are as before the run.
\* The order of the ids matters only within a message, so they are drawn in
\* order where messages carry one result.
Verify(child, verdict, shared) ==
  /\ MayShare \/ \A c \in Children : c < child => \E e \in Entries({"report"}) : e.child = c
  /\ \A i \in 1..Len(log) : log[i].tool = "report" => log[i].child # child
  /\ UNCHANGED files
  /\ Record([tool |-> "report", child |-> child, verdict |-> verdict], shared)

Diff(shared) == UNCHANGED files /\ Record(Plain("diff"), shared)

SubmitPlan(shared) == UNCHANGED files /\ Record(Plain("plan"), shared)

SubmitDraft(shared) == UNCHANGED files /\ Record(Plain("draft"), shared)

Next ==
  \/ \E content \in Contents, shared \in BOOLEAN : Write(content, shared)
  \/ \E command \in Commands, content \in Contents, shared \in BOOLEAN :
       Bash(command, content, shared)
  \/ \E content \in Contents : ChangeOnly(content)
  \/ \E shared \in BOOLEAN :
       \/ Waive(shared) \/ Diff(shared) \/ SubmitPlan(shared) \/ SubmitDraft(shared)
       \/ \E child \in Children : WaivePartial(child, shared)
       \/ \E child \in Children, verdict \in {"PASS", "FAIL", "PARTIAL"} :
            Verify(child, verdict, shared)

Spec == Init /\ [][Next]_vars

-----------------------------------------------------------------------------
Merged == Profiles \union {Tighten(a, b) : a, b \in Profiles}

\* Some position holds a result of one of the tools, taken of the files as
\* they are now.
Holds(p, tools) == log[p].tool \in tools /\ log[p].fp = files

\* A run that has to show tests, verification, snapshot and draft is let go
\* only if these happened in that order and each saw the files as they are
\* now: nothing older was reused, no report came between, and what was waived
\* was waivable and, for a verification, PARTIAL and the last.
AcceptedInOrder ==
  \A needs \in Merged :
    (Accepts(needs) /\ {"successful_test", "independent_verification",
                        "git_change_snapshot", "delivery_draft"} \subseteq needs.required) =>
      \E t, v, s, d \in 1..Len(log) :
        /\ t < v /\ v < s /\ s < d
        /\ \/ Holds(t, {"test"})
           \/ Holds(t, {"waiver"}) /\ "successful_test" \in needs.waivable
        /\ \/ Holds(v, {"report"}) /\ log[v].verdict = "PASS"
           \/ /\ Holds(v, {"partial_waiver"})
              /\ "independent_verification" \in needs.waivable
              /\ \E r \in 1..(v - 1) :
                   /\ log[r].tool = "report" /\ log[r].verdict = "PARTIAL"
                   /\ log[r].child = log[v].child
                   /\ \A k \in 1..Len(log) :
                        (k > r /\ log[k].tool = "report") => log[k].at = log[r].at
        /\ Holds(s, {"diff"}) /\ files # 0
        /\ Holds(d, {"draft"})

\* What the merged requirements of an application and a skill accept, rests
\* on a test that passed on these files whenever one of the two demands it
\* without a waiver, whichever of them came first.
StrictSideDecides ==
  \A a, b \in Profiles :
    (Accepts(Tighten(a, b)) /\ "successful_test" \in Strict(a) \union Strict(b)) =>
      /\ \E i \in 1..Len(log) : Holds(i, {"test"})
      /\ Accepts(Tighten(b, a))

\* Where tests are demanded, every configured command has succeeded on the files
\* as they are now, and no file was written in a later answer, not even to restore
\* them; this cannot be waived.  And a snapshot, where it is demanded, is of changed
\* files and younger than a test of them or, where it may be, its waiver.
ValidatedSinceWrite ==
  \A needs \in Profiles :
    (Accepts(needs) /\ "successful_test" \in needs.required) =>
      /\ \A command \in Validations :
           \E i \in 1..Len(log) :
             /\ Holds(i, {command})
             /\ \A k \in 1..Len(log) : log[k].tool = "write" => log[k].at < log[i].at
      /\ \E t \in 1..Len(log) :
           /\ \/ Holds(t, {"test"})
              \/ Holds(t, {"waiver"}) /\ "successful_test" \in needs.waivable
           /\ "git_change_snapshot" \in needs.required =>
                /\ files # 0
                /\ \E s \in 1..Len(log) : Holds(s, {"diff"}) /\ log[t].at < log[s].at

\* The gate can always be passed by doing what its reasons say: a run whose
\* last results, one answer each, are the validations, a passing test, a PASS
\* and a diff of changed files, and the draft, is let go whatever came before.
ChecklistSuffices ==
  \A needs \in Merged :
    LET n == Len(log)
        Back(k) == log[n - k]
    IN  (/\ n >= 4 /\ needs.required # {} /\ "issue_plan" \notin needs.required
         /\ files # 0 /\ \A k \in 0..3 : Back(k).fp = files
         /\ Back(3).tool = "test" /\ Back(2).tool = "report" /\ Back(2).verdict = "PASS"
         /\ Back(1).tool = "diff" /\ Back(0).tool = "draft"
         /\ Back(3).at < Back(2).at /\ Back(2).at < Back(1).at /\ Back(1).at < Back(0).at
         /\ n > 4 => log[n - 4].at < Back(3).at
         /\ Validations \subseteq {"test"}) => Accepts(needs)

\* Read by its name, the test test_latest_fail_or_later_edit_invalidates_
\* independent_pass: after a PASS, a later FAIL has to be repaired.
LatestFailInvalidates ==
  \A needs \in Profiles :
    (Accepts(needs) /\ "independent_verification" \in needs.required) =>
      \A i \in 1..Len(log) : (log[i].tool = "report" /\ log[i].verdict = "FAIL") =>
        \E k \in (i + 1)..Len(log) : log[k].tool \in {"report", "partial_waiver"}

\* Merging requirements can only tighten them: what the merged requirements
\* accept, each of the two accepts.
TightenOnlyTightens ==
  \A a, b \in Profiles : Accepts(Tighten(a, b)) => Accepts(a) /\ Accepts(b)

=============================================================================

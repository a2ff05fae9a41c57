------------------------- MODULE CompletionProfiles -------------------------
(* The requirements the repository uses, and results to meet them with.    *)

\* skills/builtins/open-source-contribution/SKILL.md
Contribution ==
  [required |-> {"successful_test", "independent_verification", "git_change_snapshot"},
   waivable |-> {"successful_test", "independent_verification"}]

\* create_implementation_executor of bot/worker/agent_jobs.py
BotImplementation ==
  [required |-> {"successful_test", "independent_verification", "git_change_snapshot",
                 "delivery_draft"},
   waivable |-> {}]

\* the same list where everything a user may waive is waivable
Lenient ==
  [required |-> BotImplementation.required,
   waivable |-> {"successful_test", "independent_verification"}]

\* a profile that asks for tests and a snapshot of its own
TestsAndSnapshot ==
  [required |-> {"successful_test", "git_change_snapshot"}, waivable |-> {}]

\* and one that asks for tests and a plan
TestsAndPlan ==
  [required |-> {"successful_test", "issue_plan"}, waivable |-> {}]

VerifiedProfiles == {BotImplementation, Lenient}
UsedProfiles == {Contribution, BotImplementation}
FileProfiles == {TestsAndSnapshot, TestsAndPlan}
VerifiedTools == {"test", "waiver", "partial_waiver", "report", "diff", "draft"}
FileTools == {"write", "test", "lint", "diff", "plan", "failure"}
=============================================================================

--------------------------- MODULE ToolPermissions ---------------------------
(***************************************************************************)
(* What the Agent may do to the repository: ToolExecutor with its          *)
(* permission policy (runtime/tool_execution.py, runtime/permissions.py,   *)
(* bot/worker/policy.py), the plan mode tools, the Skill tool that narrows *)
(* the capabilities, and a read-only child Agent that runs through the     *)
(* same executor in a Session of its own.                                  *)
(*                                                                         *)
(* A call is proposed, decided, perhaps put to the user, and run; the      *)
(* Session state changes only with its result.  Deaths and the order of    *)
(* concurrent results are QueryLoop's subject.                             *)
(***************************************************************************)
EXTENDS Naturals, FiniteSets

CONSTANTS
  Policies,      \* of the Agents: "user", "bot_plan", "bot_implement"
  PlanFirst,     \* the policies of Agents that start in plan mode
  SkillTools,    \* the tools a Skill allows
  Inputs,        \* inputs that tell calls of one tool apart
  MaxCalls       \* bound: calls of the parent and the child together

ASSUME PermissionAssumption ==
  /\ Policies \subseteq {"user", "bot_plan", "bot_implement"} /\ PlanFirst \subseteq Policies
  /\ MaxCalls \in Nat /\ IsFiniteSet(Inputs)

Sessions == {"parent", "child"}
Dirs == {"main", "worktree"}

\* is_read_only, requires_approval and permission_risk of the tools.
Traits == [
  read_file       |-> [readOnly |-> TRUE,  asks |-> FALSE, risk |-> "destructive"],
  write_file      |-> [readOnly |-> FALSE, asks |-> TRUE,  risk |-> "write"],
  bash            |-> [readOnly |-> FALSE, asks |-> TRUE,  risk |-> "process"],
  enter_plan_mode |-> [readOnly |-> TRUE,  asks |-> TRUE,  risk |-> "destructive"],
  write_plan      |-> [readOnly |-> FALSE, asks |-> FALSE, risk |-> "destructive"],
  exit_plan_mode  |-> [readOnly |-> TRUE,  asks |-> TRUE,  risk |-> "destructive"],
  skill           |-> [readOnly |-> FALSE, asks |-> FALSE, risk |-> "destructive"],
  enter_worktree  |-> [readOnly |-> FALSE, asks |-> TRUE,  risk |-> "write"],
  exit_worktree   |-> [readOnly |-> FALSE, asks |-> FALSE, risk |-> "write"],
  agent           |-> [readOnly |-> TRUE,  asks |-> FALSE, risk |-> "destructive"]]
Tools == DOMAIN Traits
Mutating == {"write_file", "bash"}       \* tools that change files of the repository
VerifyTools == {"read_file", "bash"}     \* VERIFY_TOOLS

ASSUME SkillAssumption == SkillTools \subseteq Tools

VARIABLES
  policy,     \* the policy the executor was made with
  state,      \* state[s]: AgentRunState of Session s
  call,       \* call[s]: the call Session s is in, or NoCall
  calls,      \* calls proposed so far
  childRuns,  \* is the child Agent running?
  planFile,   \* is the plan file of the parent there?
  changed,    \* did the child change the working tree?
  allowed,    \* what the user has allowed for a Session, as <<session, tool, directory, input>>
  excluded,   \* excluded[s]: tools a Skill or the parent has excluded from s
  effects,    \* changes of files made so far
  exits       \* was plan mode left without a plan file there?

vars == <<policy, state, call, calls, childRuns, planFile, changed, allowed, excluded, effects, exits>>

NoCall == [tool |-> "none", input |-> "none", stage |-> "none", once |-> FALSE, granted |-> {}]

-----------------------------------------------------------------------------
\* As it could be by mistake: the grant does not say where.
GrantAnywhere(s, tool, input) == [tool |-> tool, cwd |-> "main", input |-> input]

\* _permission_grant: tool, risk, directory and input, for two risks only.
Grant(s, tool, input) == [tool |-> tool, cwd |-> state[s].cwd, input |-> input]
Rememberable(tool) == Traits[tool].risk \in {"write", "process"}

\* validate_input
Valid(s, tool) ==
  CASE tool = "enter_plan_mode" -> state[s].mode # "plan"
    [] tool = "write_plan"      -> state[s].mode = "plan"
    [] tool = "exit_plan_mode"  -> state[s].mode = "plan" /\ state[s].planPath /\ planFile
    [] tool = "enter_worktree"  -> state[s].cwd = "main"
    [] tool = "exit_worktree"   -> state[s].cwd = "worktree"
    [] OTHER -> TRUE

\* permits_tool
Permits(s, tool) == tool \in state[s].caps

\* DefaultPermissionPolicy.decide and BotPermissionPolicy.decide
PlanDenies(s, tool) ==
  state[s].mode = "plan" /\ ~Traits[tool].readOnly /\ tool # "write_plan"
DefaultDecide(s, tool) ==
  IF PlanDenies(s, tool) THEN "deny" ELSE IF Traits[tool].asks THEN "ask" ELSE "allow"
\* As it could be by mistake: an approved implementation allows every tool that asks.
BotDecideApproved(s, tool) ==
  IF PlanDenies(s, tool) \/ (Traits[tool].asks /\ policy = "bot_plan" /\ s = "parent")
    THEN "deny" ELSE "allow"
BotDecide(s, tool) ==
  IF \/ PlanDenies(s, tool)
     \/ Traits[tool].asks /\ ~(policy = "bot_implement" /\ Rememberable(tool))
    THEN "deny" ELSE "allow"
Decide(s, tool) == IF policy = "user" THEN DefaultDecide(s, tool) ELSE BotDecide(s, tool)

\* The Session whose turn it is: the parent waits for its child.
Running == IF childRuns THEN "child" ELSE "parent"

-----------------------------------------------------------------------------
Fresh(caps, cwd, plan) ==
  [mode |-> IF plan THEN "plan" ELSE "default", planPath |-> plan, grants |-> {}, caps |-> caps, cwd |-> cwd]

\* StartQueryParams.start_in_plan_mode
StartInPlan == policy \in PlanFirst

Init ==
  /\ policy \in Policies
  /\ state = [s \in Sessions |-> Fresh(Tools, "main", s = "parent" /\ StartInPlan)]
  /\ call = [s \in Sessions |-> NoCall]
  /\ calls = 0 /\ childRuns = FALSE /\ planFile = StartInPlan /\ changed = FALSE
  /\ allowed = {} /\ excluded = [s \in Sessions |-> {}] /\ effects = {} /\ exits = FALSE

\* Validation, capability and policy: the call is answered, put to the user, or
\* goes on.  A remembered grant answers for the user.
Propose(tool, input) ==
  LET s == Running
      ask == Decide(s, tool) = "ask" /\ Grant(s, tool, input) \notin state[s].grants
      refused == ~Valid(s, tool) \/ ~Permits(s, tool) \/ Decide(s, tool) = "deny"
  IN /\ call[s] = NoCall /\ calls < MaxCalls
     /\ calls' = calls + 1
     /\ call' = IF refused THEN call
                ELSE [call EXCEPT ![s] = [tool |-> tool, input |-> input, once |-> FALSE, granted |-> {},
                                          stage |-> IF ask THEN "asked" ELSE "allowed"]]
     /\ UNCHANGED <<state, childRuns, planFile, changed, allowed, excluded, effects, exits>>

\* "allow_once"; the input is validated again after the wait.
Approve(s) ==
  /\ s = Running /\ call[s].stage = "asked"
  /\ call' = [call EXCEPT ![s] = IF Valid(s, @.tool) THEN [@ EXCEPT !.stage = "allowed", !.once = TRUE]
                                 ELSE NoCall]
  /\ UNCHANGED <<state, calls, childRuns, planFile, changed, allowed, excluded, effects, exits>>

\* "allow_for_session"; what cannot be remembered is an error.  The grant
\* becomes a part of the state with the result, whatever the result is.
ApproveForSession(s) ==
  LET grant == Grant(s, call[s].tool, call[s].input)
      valid == Valid(s, call[s].tool)
  IN /\ s = Running /\ call[s].stage = "asked"
     /\ IF Rememberable(call[s].tool)
          THEN /\ call' = [call EXCEPT ![s] =
                    IF valid THEN [@ EXCEPT !.stage = "allowed", !.once = TRUE, !.granted = {grant}] ELSE NoCall]
               /\ state' = IF valid THEN state ELSE [state EXCEPT ![s].grants = @ \union {grant}]
               /\ allowed' = allowed \union {<<s, grant.tool, state[s].cwd, grant.input>>}
          ELSE call' = [call EXCEPT ![s] = NoCall] /\ UNCHANGED <<state, allowed>>
     /\ UNCHANGED <<calls, childRuns, planFile, changed, excluded, effects, exits>>

\* "deny", no approval handler, or a hook that blocks an allowed call.
Deny(s) ==
  /\ s = Running /\ call[s].stage \in {"asked", "allowed"}
  /\ call' = [call EXCEPT ![s] = NoCall]
  /\ state' = [state EXCEPT ![s].grants = @ \union call[s].granted]
  /\ UNCHANGED <<calls, childRuns, planFile, changed, allowed, excluded, effects, exits>>

\* The result of a call that was run, with its grants and its other changes.
Commit(s, new) ==
  /\ call[s].stage = "allowed" /\ s = Running
  /\ state' = [state EXCEPT ![s] = [new EXCEPT !.grants = @ \union call[s].granted]]
  /\ call' = [call EXCEPT ![s] = NoCall]

Mutate(s) ==
  /\ call[s].tool \in Mutating
  /\ Commit(s, state[s])
  /\ effects' = effects \union
       {[session |-> s, tool |-> call[s].tool, cwd |-> state[s].cwd,
         planning |-> \E t \in Sessions : state[t].mode = "plan",
         approved |-> call[s].once \/ <<s, call[s].tool, state[s].cwd, call[s].input>> \in allowed,
         excluded |-> call[s].tool \in excluded[s]]}
  /\ changed' = (changed \/ s = "child")
  /\ UNCHANGED <<calls, childRuns, planFile, allowed, excluded, exits>>

Read(s) ==
  /\ call[s].tool = "read_file" /\ Commit(s, state[s])
  /\ UNCHANGED <<calls, childRuns, planFile, changed, allowed, excluded, effects, exits>>

EnterPlanMode(s) ==
  /\ call[s].tool = "enter_plan_mode" /\ Commit(s, [state[s] EXCEPT !.mode = "plan"])
  /\ UNCHANGED <<calls, childRuns, planFile, changed, allowed, excluded, effects, exits>>

WritePlan(s) ==
  /\ call[s].tool = "write_plan" /\ Commit(s, [state[s] EXCEPT !.planPath = TRUE])
  /\ planFile' = TRUE
  /\ UNCHANGED <<calls, childRuns, changed, allowed, excluded, effects, exits>>

ExitPlanMode(s) ==
  /\ call[s].tool = "exit_plan_mode" /\ Commit(s, [state[s] EXCEPT !.mode = "default"])
  /\ exits' = (exits \/ ~planFile \/ ~call[s].once)
  /\ UNCHANGED <<calls, childRuns, planFile, changed, allowed, excluded, effects>>

EnterWorktree(s) ==
  /\ call[s].tool = "enter_worktree" /\ Commit(s, [state[s] EXCEPT !.cwd = "worktree"])
  /\ UNCHANGED <<calls, childRuns, planFile, changed, allowed, excluded, effects, exits>>

ExitWorktree(s) ==
  /\ call[s].tool = "exit_worktree" /\ Commit(s, [state[s] EXCEPT !.cwd = "main"])
  /\ UNCHANGED <<calls, childRuns, planFile, changed, allowed, excluded, effects, exits>>

\* SkillTool: the capabilities of the caller and of the Skill, intersected.
UseSkill(s) ==
  /\ call[s].tool = "skill" /\ Commit(s, [state[s] EXCEPT !.caps = @ \intersect SkillTools])
  /\ excluded' = [excluded EXCEPT ![s] = @ \union (Tools \ SkillTools)]
  /\ UNCHANGED <<calls, childRuns, planFile, changed, allowed, effects, exits>>

\* AgentTool.call: an allowed call of the agent tool, which needs no approval.
Delegates(s) == call[s].tool = "agent" /\ call[s].stage = "allowed"

\* SubagentRunner._resolve_capabilities
ChildCaps(s) == state[s].caps \intersect VerifyTools

\* AgentTool.call: a Session of its own, in default mode and without grants.
StartChild ==
  /\ ~childRuns /\ Delegates("parent")
  /\ childRuns' = TRUE /\ changed' = FALSE
  /\ state' = [state EXCEPT !["child"] = Fresh(ChildCaps("parent"), state["parent"].cwd, FALSE)]
  /\ allowed' = {pair \in allowed : pair[1] # "child"}
  /\ excluded' = [excluded EXCEPT !["child"] = excluded["parent"] \union (Tools \ VerifyTools)]
  /\ UNCHANGED <<call, calls, planFile, effects, exits>>

\* The fingerprint is taken again: a child that changed the tree is an error
\* of the call, and its changes stay.
EndChild ==
  /\ childRuns /\ call["child"] = NoCall
  /\ childRuns' = FALSE
  /\ call' = [call EXCEPT !["parent"] = NoCall]
  /\ UNCHANGED <<state, calls, planFile, changed, allowed, excluded, effects, exits>>

\* Somebody deletes the plan while the user is asked.
LosePlan ==
  /\ planFile /\ \E s \in Sessions : call[s].stage = "asked"
  /\ planFile' = FALSE
  /\ UNCHANGED <<state, call, calls, childRuns, changed, allowed, excluded, effects, exits>>

RunTool(s) ==
  \/ Mutate(s) \/ Read(s) \/ EnterPlanMode(s) \/ WritePlan(s) \/ ExitPlanMode(s)
  \/ EnterWorktree(s) \/ ExitWorktree(s) \/ UseSkill(s)

Next ==
  /\ UNCHANGED policy
  /\ \/ \E tool \in Tools, input \in Inputs : Propose(tool, input)
     \/ \E s \in Sessions : Approve(s) \/ ApproveForSession(s) \/ Deny(s) \/ RunTool(s)
     \/ StartChild \/ EndChild \/ LosePlan

Spec == Init /\ [][Next]_vars

-----------------------------------------------------------------------------
(* Properties.                                                             *)

\* Every variable keeps its shape; grants are for remembered risks only, and
\* nothing of a child is left in its parent but the waiting call.
TypeOK ==
  /\ \A s \in Sessions :
       /\ state[s].caps \subseteq Tools /\ state[s].cwd \in Dirs /\ state[s].mode \in {"default", "plan"}
       /\ \A grant \in state[s].grants : Rememberable(grant.tool)
       /\ call[s].stage \in {"none", "asked", "allowed"}
  /\ childRuns => call["parent"].tool = "agent"
  /\ ~childRuns => call["child"] = NoCall

\* A file of the repository changes only by a call the user allowed: this one, or
\* for the rest of the same Session the same tool on the same input in the same
\* directory, whatever worktree, plan or child came in between.
UserAllowed == \A effect \in effects : effect.approved

\* A tool that a Skill has excluded changes nothing afterwards, neither in the
\* Session nor in a child Agent it starts.
ExcludedStayOut == \A effect \in effects : ~effect.excluded

\* Plan mode is left only by an approval given in that call, with the plan still
\* there after the wait for the user.
PlanExitIsApproved == ~exits

\* What changes files was allowed for its Session, tool, directory and input by the
\* user, if there is one, and what a Skill or a parent excluded stays out; plan mode
\* ends with a plan, and where nobody answers it does not end.
ChangesWereAllowed ==
  (policy = "user" => UserAllowed) /\ ExcludedStayOut /\ PlanExitIsApproved

\* The planning job of the bot changes no file of the repository, although its
\* child Agents do not run in plan mode.
PlanJobChangesNothing == policy = "bot_plan" => effects = {}

\* Plan mode forbids every change but the plan: neither the Session nor a child
\* Agent it runs changes a file while it plans.
PlanModeChangesNothing == \A effect \in effects : ~effect.planning
=============================================================================

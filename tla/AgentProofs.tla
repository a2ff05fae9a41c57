----------------------------- MODULE AgentProofs -----------------------------
(***************************************************************************)
(* What holds within a run of an Agent, for any values of the constants:   *)
(* what its tools may do (ToolPermissions) and what it shows the model     *)
(* (ContextProjection), proved here, and what it must have shown before it *)
(* may stop (CompletionEvidence), what it may overwrite (FileObservations) *)
(* and the worktrees it works in (Worktrees), from WorkspaceProofs and     *)
(* WorktreesProofs.  The last section puts them together: the invariants   *)
(* that TLC checks of MCAgent hold for any bounds.                         *)
(***************************************************************************)
EXTENDS MCAgent, Sequences, FiniteSetTheorems, NaturalsInduction,
        WellFoundedInduction, SequenceTheorems, TLAPS

-----------------------------------------------------------------------------
(* Permissions: a change of the repository was allowed where and as it was *)
(* made, what is excluded stays out, and plan mode ends with a plan.  Each *)
(* property speaks of a call that is run; the invariant says the same of   *)
(* the calls that wait, and of the grants that may answer for the user     *)
(* later.                                                                  *)

-----------------------------------------------------------------------------
(* The tools.                                                              *)

(* What the proofs use of the table of tools.                              *)
LEMMA ToolFacts ==
  /\ \A tool \in Mutating :
       tool \in Tools /\ Traits[tool].asks /\ ~Traits[tool].readOnly /\ Rememberable(tool)
         /\ tool \notin {"none", "exit_plan_mode", "agent", "write_plan"}
  /\ Traits["exit_plan_mode"].asks /\ ~Rememberable("exit_plan_mode")
  /\ Traits["exit_plan_mode"].readOnly /\ "exit_plan_mode" \in Tools
  /\ "none" \notin Tools
BY DEF Tools, Traits, Mutating, Rememberable

(* Plan mode is left only with a plan.                                     *)
LEMMA ExitNeedsPlan ==
  ASSUME NEW s, Valid(s, "exit_plan_mode")
  PROVE  planFile
BY DEF Valid

-----------------------------------------------------------------------------
(* Types.                                                                  *)

Grants == [tool : Tools, cwd : Dirs, input : Inputs]

RunStates ==
  [mode : {"default", "plan"}, planPath : BOOLEAN, grants : SUBSET Grants,
   caps : SUBSET Tools, cwd : Dirs]

Calls ==
  [tool : Tools, input : Inputs, stage : {"asked", "allowed"}, once : BOOLEAN,
   granted : SUBSET Grants]

Types ==
  /\ state \in [Sessions -> RunStates]
  /\ call \in [Sessions -> Calls \cup {NoCall}]
  /\ excluded \in [Sessions -> SUBSET Tools]

(* A call has a tool, and NoCall has none.                                 *)
LEMMA NoCallIsNone ==
  /\ NoCall.tool = "none" /\ NoCall.stage = "none" /\ NoCall.granted = {}
  /\ \A c : c.tool \in Tools => c # NoCall
BY ToolFacts DEF NoCall

-----------------------------------------------------------------------------
(* The invariant.                                                          *)

(* A grant, kept or on its way, is for a risk that may be remembered, and  *)
(* the user gave it to this Session.                                       *)
GrantsGiven(s) ==
  \A grant \in state[s].grants \cup call[s].granted :
    /\ Rememberable(grant.tool)
    /\ <<s, grant.tool, grant.cwd, grant.input>> \in allowed

(* The tool of a call is in the capabilities, and nothing excluded is.     *)
CallPermitted(s) ==
  /\ call[s] # NoCall => call[s].tool \in state[s].caps
  /\ state[s].caps \cap excluded[s] = {}

(* A call that may change files has the leave of the user, where the       *)
(* Session is now; a planning job of the bot has none.                     *)
CallAllowed(s) ==
  /\ policy = "user" /\ call[s].stage = "allowed" /\ call[s].tool \in Mutating =>
       call[s].once \/ <<s, call[s].tool, state[s].cwd, call[s].input>> \in allowed
  /\ policy = "bot_plan" => call[s].tool \notin Mutating

(* An exit from plan mode was approved, and the plan is still there.       *)
ExitApproved(s) ==
  call[s].stage = "allowed" /\ call[s].tool = "exit_plan_mode" =>
    call[s].once /\ planFile

Fits(s) == GrantsGiven(s) /\ CallPermitted(s) /\ CallAllowed(s) /\ ExitApproved(s)

(* The parent waits in its call while the child runs, and a child that     *)
(* does not run is in no call.                                             *)
TurnsTaken ==
  /\ childRuns => call["parent"].tool = "agent" /\ call["parent"].stage = "allowed"
  /\ ~childRuns => call["child"] = NoCall

PermissionInv ==
  /\ Types
  /\ \A s \in Sessions : Fits(s)
  /\ TurnsTaken
  /\ ChangesWereAllowed
  /\ PlanJobChangesNothing

(* A Session that takes no part in a step fits afterwards.                 *)
LEMMA OtherFits ==
  ASSUME NEW s \in Sessions, Fits(s), policy' = policy,
         state'[s] = state[s], call'[s] = call[s], excluded'[s] = excluded[s],
         \A tool, cwd, input : <<s, tool, cwd, input>> \in allowed =>
                                 <<s, tool, cwd, input>> \in allowed',
         planFile /\ ~planFile' => call[s].tool # "exit_plan_mode" \/ call[s].stage # "allowed"
  PROVE  Fits(s)'
BY DEF Fits, GrantsGiven, CallPermitted, CallAllowed, ExitApproved

(* The other Session stays as it is.                                       *)
ActsAlone(s) ==
  \A t \in Sessions \ {s} :
    state'[t] = state[t] /\ call'[t] = call[t] /\ excluded'[t] = excluded[t]

(* What a step of one Session has to show.                                 *)
LEMMA StepOfOne ==
  ASSUME PermissionInv, policy' = policy,
         \/ UNCHANGED <<effects, exits>>
         \/ ChangesWereAllowed' /\ PlanJobChangesNothing',
         NEW s \in Sessions, ActsAlone(s), Types', Fits(s)', TurnsTaken',
         allowed \subseteq allowed', planFile => planFile'
  PROVE  PermissionInv'
<1>1. \A t \in Sessions : Fits(t)'
  <2> SUFFICES ASSUME NEW t \in Sessions, t # s PROVE Fits(t)'
    OBVIOUS
  <2>1. Fits(t) /\ state'[t] = state[t] /\ call'[t] = call[t] /\ excluded'[t] = excluded[t]
    BY DEF PermissionInv, ActsAlone
  <2> QED BY <2>1, OtherFits
<1>2. ChangesWereAllowed' /\ PlanJobChangesNothing'
  BY DEF PermissionInv, ChangesWereAllowed, UserAllowed, ExcludedStayOut,
     PlanExitIsApproved, PlanJobChangesNothing
<1> QED BY <1>1, <1>2 DEF PermissionInv

(* The Session whose turn it is keeps the turns if it keeps the child's    *)
(* start and end.                                                          *)
LEMMA TurnsKept ==
  ASSUME TurnsTaken, childRuns' = childRuns, NEW s \in Sessions, s = Running, ActsAlone(s)
  PROVE  TurnsTaken'
BY DEF TurnsTaken, Running, ActsAlone, Sessions

(* What the policies let through.                                          *)
LEMMA Decided ==
  ASSUME PermissionInv, NEW s \in Sessions, NEW tool \in Tools, NEW input \in Inputs,
         Decide(s, tool) # "deny"
  PROVE  /\ policy = "bot_plan" => tool \notin Mutating
         /\ policy = "user" /\ tool \in Mutating => Decide(s, tool) = "ask"
         /\ tool = "exit_plan_mode" =>
              Decide(s, tool) = "ask" /\ Grant(s, tool, input) \notin state[s].grants
<1>1. tool \in Mutating \/ tool = "exit_plan_mode" => Traits[tool].asks
  BY ToolFacts
<1>2. tool = "exit_plan_mode" => ~Rememberable(tool)
  BY ToolFacts
<1>3. \A grant \in state[s].grants : Rememberable(grant.tool)
  BY DEF PermissionInv, Fits, GrantsGiven
<1>4. Grant(s, tool, input).tool = tool
  BY DEF Grant
<1> QED BY <1>1, <1>2, <1>3, <1>4 DEF Decide, DefaultDecide, BotDecide

(* A call is proposed.                                                     *)
LEMMA ProposeKeeps ==
  ASSUME PermissionInv, policy' = policy,
         NEW tool \in Tools, NEW input \in Inputs, Propose(tool, input)
  PROVE  PermissionInv'
<1>1. PICK s \in Sessions : s = Running
  BY DEF Running, Sessions
<1>2. /\ call[s] = NoCall
      /\ UNCHANGED <<state, childRuns, planFile, changed, allowed, excluded, effects, exits>>
  BY <1>1 DEF Propose
<1>3. CASE call' = call
  BY <1>2, <1>3 DEF PermissionInv, Types, Fits, GrantsGiven, CallPermitted, CallAllowed,
     ExitApproved, TurnsTaken, ChangesWereAllowed, UserAllowed, ExcludedStayOut,
     PlanExitIsApproved, PlanJobChangesNothing
<1>4. CASE call' # call
  <2> DEFINE asks == Decide(s, tool) = "ask" /\ Grant(s, tool, input) \notin state[s].grants
  <2>1. /\ Permits(s, tool) /\ Decide(s, tool) # "deny"
        /\ call' = [call EXCEPT ![s] =
                      [tool |-> tool, input |-> input, once |-> FALSE, granted |-> {},
                       stage |-> IF asks THEN "asked" ELSE "allowed"]]
    BY <1>1, <1>4 DEF Propose
  <2>2. /\ call'[s].tool = tool /\ call'[s].input = input /\ call'[s].once = FALSE
        /\ call'[s].granted = {} /\ call'[s] \in Calls
        /\ call'[s].stage = "allowed" => ~asks
    BY <1>1, <2>1 DEF PermissionInv, Types, Calls
  <2>3. ActsAlone(s) /\ Types'
    BY <1>1, <1>2, <2>1, <2>2 DEF ActsAlone, PermissionInv, Types
  <2>4. GrantsGiven(s)' /\ CallPermitted(s)'
    BY <1>1, <1>2, <2>1, <2>2 DEF PermissionInv, Fits, GrantsGiven, CallPermitted, Permits
  <2>5. asks \/ tool # "exit_plan_mode"
    BY <1>1, <2>1, Decided
  <2>6. policy = "bot_plan" => tool \notin Mutating
    BY <1>1, <2>1, Decided
  <2>7. ASSUME policy = "user", tool \in Mutating, ~asks
        PROVE  <<s, tool, state[s].cwd, input>> \in allowed
    <3>1. Grant(s, tool, input) \in state[s].grants
      BY <1>1, <2>1, <2>7, Decided
    <3> QED BY <1>1, <3>1 DEF PermissionInv, Fits, GrantsGiven, Grant
  <2>8. CallAllowed(s)' /\ ExitApproved(s)'
    BY <1>2, <2>2, <2>5, <2>6, <2>7 DEF CallAllowed, ExitApproved
  <2>9. TurnsTaken'
    BY <1>1, <1>2, <2>3, TurnsKept DEF PermissionInv
  <2> QED BY <1>1, <1>2, <2>3, <2>4, <2>8, <2>9, StepOfOne DEF Fits
<1> QED BY <1>3, <1>4

(* A Session whose call ends, and which keeps no more than it was given.   *)
LEMMA CallEnds ==
  ASSUME PermissionInv, NEW s \in Sessions, call'[s] = NoCall,
         state'[s].grants \subseteq state[s].grants \cup call[s].granted,
         state'[s].caps \cap excluded'[s] = {}, allowed' = allowed
  PROVE  Fits(s)'
<1>1. "none" \notin Mutating
  BY DEF Mutating
<1>2. /\ call'[s].tool = "none" /\ call'[s].stage = "none" /\ call'[s].granted = {}
  BY DEF NoCall
<1>3. GrantsGiven(s)
  BY DEF PermissionInv, Fits
<1>4. GrantsGiven(s)'
  BY <1>2, <1>3 DEF GrantsGiven
<1> QED BY <1>1, <1>2, <1>4 DEF Fits, CallPermitted, CallAllowed, ExitApproved

(* The user answers.                                                       *)
LEMMA AnswersKeep ==
  ASSUME PermissionInv, policy' = policy,
         NEW s \in Sessions, Approve(s) \/ ApproveForSession(s) \/ Deny(s)
  PROVE  PermissionInv'
<1>1. /\ s = Running /\ call[s] \in Calls
      /\ UNCHANGED <<childRuns, planFile, excluded, effects, exits>>
  BY DEF Approve, ApproveForSession, Deny, PermissionInv, Types, NoCall
<1>2. /\ state[s] \in RunStates
      /\ state[s].caps \cap excluded[s] = {}
  BY DEF PermissionInv, Types, Fits, CallPermitted
<1>3. CASE Approve(s) /\ Valid(s, call[s].tool)
  <2>1. /\ call' = [call EXCEPT ![s] = [@ EXCEPT !.stage = "allowed", !.once = TRUE]]
        /\ UNCHANGED <<state, allowed>>
    BY <1>3 DEF Approve
  <2>2. /\ call'[s] = [call[s] EXCEPT !.stage = "allowed", !.once = TRUE]
        /\ ActsAlone(s) /\ Types'
    BY <1>1, <2>1 DEF ActsAlone, PermissionInv, Types, Calls
  <2>3. /\ call'[s].once /\ call'[s].tool = call[s].tool /\ call'[s] # NoCall
        /\ call'[s].granted = call[s].granted /\ call[s] # NoCall
    BY <1>1, <2>2, NoCallIsNone DEF Calls
  <2>4. call[s].tool = "exit_plan_mode" => planFile
    BY <1>3, ExitNeedsPlan
  <2>5. Fits(s)'
    BY <1>1, <2>1, <2>3, <2>4 DEF PermissionInv, Fits, GrantsGiven, CallPermitted, CallAllowed,
       ExitApproved
  <2> QED BY <1>1, <2>1, <2>2, <2>5, TurnsKept, StepOfOne DEF PermissionInv
<1>4. CASE ApproveForSession(s) /\ Rememberable(call[s].tool) /\ Valid(s, call[s].tool)
  <2> DEFINE grant == Grant(s, call[s].tool, call[s].input)
  <2>1. /\ call' = [call EXCEPT ![s] =
                      [@ EXCEPT !.stage = "allowed", !.once = TRUE, !.granted = {grant}]]
        /\ state' = state
        /\ allowed' = allowed \cup {<<s, grant.tool, state[s].cwd, grant.input>>}
    BY <1>4 DEF ApproveForSession
  <2>2. grant \in Grants /\ grant.tool = call[s].tool /\ grant.cwd = state[s].cwd
    BY <1>1, <1>2 DEF Grant, Grants, Calls, RunStates
  <2>3. /\ call'[s] = [call[s] EXCEPT !.stage = "allowed", !.once = TRUE, !.granted = {grant}]
        /\ ActsAlone(s) /\ Types'
    BY <1>1, <2>1, <2>2 DEF ActsAlone, PermissionInv, Types, Calls
  <2>4. /\ call'[s].once /\ call'[s].tool = call[s].tool /\ call'[s] # NoCall
        /\ call'[s].granted = {grant} /\ call[s] # NoCall
    BY <1>1, <2>3, NoCallIsNone DEF Calls
  <2>5. call[s].tool # "exit_plan_mode"
    BY <1>4, ToolFacts
  <2>6. GrantsGiven(s)'
    BY <1>4, <2>1, <2>2, <2>4 DEF PermissionInv, Fits, GrantsGiven
  <2>7. CallPermitted(s)' /\ CallAllowed(s)' /\ ExitApproved(s)'
    BY <1>1, <2>1, <2>4, <2>5 DEF PermissionInv, Fits, CallPermitted, CallAllowed, ExitApproved
  <2> QED BY <1>1, <2>1, <2>3, <2>6, <2>7, TurnsKept, StepOfOne DEF PermissionInv, Fits
<1>5. CASE ApproveForSession(s) /\ Rememberable(call[s].tool) /\ ~Valid(s, call[s].tool)
  <2> DEFINE grant == Grant(s, call[s].tool, call[s].input)
  <2>1. /\ call' = [call EXCEPT ![s] = NoCall]
        /\ state' = [state EXCEPT ![s].grants = @ \cup {grant}]
        /\ allowed' = allowed \cup {<<s, grant.tool, state[s].cwd, grant.input>>}
    BY <1>5 DEF ApproveForSession
  <2>2. grant \in Grants /\ grant.tool = call[s].tool /\ grant.cwd = state[s].cwd
    BY <1>1, <1>2 DEF Grant, Grants, Calls, RunStates
  <2>3. /\ call'[s] = NoCall /\ state'[s] \in RunStates
        /\ state'[s].grants = state[s].grants \cup {grant} /\ state'[s].caps = state[s].caps
        /\ ActsAlone(s) /\ Types'
    BY <1>1, <1>2, <2>1, <2>2 DEF ActsAlone, PermissionInv, Types, RunStates
  <2>4. GrantsGiven(s)'
    BY <1>5, <2>1, <2>2, <2>3 DEF PermissionInv, Fits, GrantsGiven, NoCall
  <2>5. CallPermitted(s)' /\ CallAllowed(s)' /\ ExitApproved(s)'
    BY <1>1, <1>2, <2>3 DEF CallPermitted, CallAllowed, ExitApproved, NoCall, Mutating
  <2> QED BY <1>1, <2>1, <2>3, <2>4, <2>5, TurnsKept, StepOfOne DEF PermissionInv, Fits
<1>6. CASE \/ Approve(s) /\ ~Valid(s, call[s].tool)
           \/ ApproveForSession(s) /\ ~Rememberable(call[s].tool)
           \/ Deny(s)
  <2>1. /\ call' = [call EXCEPT ![s] = NoCall] /\ allowed' = allowed
        /\ \/ state' = state
           \/ state' = [state EXCEPT ![s].grants = @ \cup call[s].granted]
    BY <1>6 DEF Approve, ApproveForSession, Deny
  <2>2. /\ call'[s] = NoCall
        /\ state'[s].grants \subseteq state[s].grants \cup call[s].granted
        /\ state'[s].caps = state[s].caps /\ ActsAlone(s) /\ Types'
    BY <1>1, <1>2, <2>1 DEF ActsAlone, PermissionInv, Types, Calls, RunStates
  <2>3. Fits(s)'
    BY <1>1, <1>2, <2>1, <2>2, CallEnds
  <2> QED BY <1>1, <2>1, <2>2, <2>3, TurnsKept, StepOfOne DEF PermissionInv
<1> QED BY <1>3, <1>4, <1>5, <1>6

(* A call that was allowed is run.                                         *)
LEMMA RunKeeps ==
  ASSUME PermissionInv, policy' = policy, NEW s \in Sessions, RunTool(s)
  PROVE  PermissionInv'
<1>1. /\ s = Running /\ call[s].stage = "allowed"
      /\ call' = [call EXCEPT ![s] = NoCall]
      /\ UNCHANGED <<allowed, childRuns>>
  BY DEF RunTool, Mutate, Read, EnterPlanMode, WritePlan, ExitPlanMode, EnterWorktree,
     ExitWorktree, UseSkill, Commit
<1>2. /\ call \in [Sessions -> Calls \cup {NoCall}] /\ state \in [Sessions -> RunStates]
      /\ excluded \in [Sessions -> SUBSET Tools]
  BY DEF PermissionInv, Types
<1>3. Fits(s) /\ TurnsTaken /\ ChangesWereAllowed /\ PlanJobChangesNothing
  BY DEF PermissionInv
<1>4. call[s] \in Calls
  BY <1>1, <1>2, NoCallIsNone
<1>5. PICK new \in RunStates :
        /\ state' = [state EXCEPT ![s] = [new EXCEPT !.grants = @ \cup call[s].granted]]
        /\ new.grants = state[s].grants
        /\ \/ new.caps = state[s].caps /\ excluded' = excluded
           \/ /\ new.caps = state[s].caps \cap SkillTools
              /\ excluded' = [excluded EXCEPT ![s] = @ \cup (Tools \ SkillTools)]
  <2>1. CASE Mutate(s) \/ Read(s)
    BY <1>2, <2>1 DEF Mutate, Read, Commit
  <2>2. CASE EnterPlanMode(s)
    <3> DEFINE to == [state[s] EXCEPT !.mode = "plan"]
    <3>1. to \in RunStates /\ to.grants = state[s].grants /\ to.caps = state[s].caps
      BY <1>2 DEF RunStates
    <3>2. /\ state' = [state EXCEPT ![s] = [to EXCEPT !.grants = @ \cup call[s].granted]]
          /\ excluded' = excluded
      BY <2>2 DEF EnterPlanMode, Commit
    <3> HIDE DEF to
    <3> QED BY <3>1, <3>2
  <2>3. CASE WritePlan(s)
    <3> DEFINE to == [state[s] EXCEPT !.planPath = TRUE]
    <3>1. to \in RunStates /\ to.grants = state[s].grants /\ to.caps = state[s].caps
      BY <1>2 DEF RunStates
    <3>2. /\ state' = [state EXCEPT ![s] = [to EXCEPT !.grants = @ \cup call[s].granted]]
          /\ excluded' = excluded
      BY <2>3 DEF WritePlan, Commit
    <3> HIDE DEF to
    <3> QED BY <3>1, <3>2
  <2>4. CASE ExitPlanMode(s)
    <3> DEFINE to == [state[s] EXCEPT !.mode = "default"]
    <3>1. to \in RunStates /\ to.grants = state[s].grants /\ to.caps = state[s].caps
      BY <1>2 DEF RunStates
    <3>2. /\ state' = [state EXCEPT ![s] = [to EXCEPT !.grants = @ \cup call[s].granted]]
          /\ excluded' = excluded
      BY <2>4 DEF ExitPlanMode, Commit
    <3> HIDE DEF to
    <3> QED BY <3>1, <3>2
  <2>5. CASE EnterWorktree(s)
    <3> DEFINE to == [state[s] EXCEPT !.cwd = "worktree"]
    <3>1. to \in RunStates /\ to.grants = state[s].grants /\ to.caps = state[s].caps
      BY <1>2 DEF RunStates, Dirs
    <3>2. /\ state' = [state EXCEPT ![s] = [to EXCEPT !.grants = @ \cup call[s].granted]]
          /\ excluded' = excluded
      BY <2>5 DEF EnterWorktree, Commit
    <3> HIDE DEF to
    <3> QED BY <3>1, <3>2
  <2>6. CASE ExitWorktree(s)
    <3> DEFINE to == [state[s] EXCEPT !.cwd = "main"]
    <3>1. to \in RunStates /\ to.grants = state[s].grants /\ to.caps = state[s].caps
      BY <1>2 DEF RunStates, Dirs
    <3>2. /\ state' = [state EXCEPT ![s] = [to EXCEPT !.grants = @ \cup call[s].granted]]
          /\ excluded' = excluded
      BY <2>6 DEF ExitWorktree, Commit
    <3> HIDE DEF to
    <3> QED BY <3>1, <3>2
  <2>7. CASE UseSkill(s)
    <3> DEFINE to == [state[s] EXCEPT !.caps = @ \cap SkillTools]
    <3>1. /\ to \in RunStates /\ to.grants = state[s].grants
          /\ to.caps = state[s].caps \cap SkillTools
      BY <1>2 DEF RunStates
    <3>2. /\ state' = [state EXCEPT ![s] = [to EXCEPT !.grants = @ \cup call[s].granted]]
          /\ excluded' = [excluded EXCEPT ![s] = @ \cup (Tools \ SkillTools)]
      BY <2>7 DEF UseSkill, Commit
    <3> HIDE DEF to
    <3> QED BY <3>1, <3>2
  <2> QED BY <2>1, <2>2, <2>3, <2>4, <2>5, <2>6, <2>7 DEF RunTool
<1>6. /\ state'[s] = [new EXCEPT !.grants = @ \cup call[s].granted]
      /\ call'[s] = NoCall /\ ActsAlone(s)
  BY <1>1, <1>2, <1>5 DEF ActsAlone
<1>7. /\ state'[s] \in RunStates /\ state'[s].caps = new.caps
      /\ state'[s].grants = state[s].grants \cup call[s].granted
  BY <1>4, <1>5, <1>6 DEF RunStates, Calls
<1>8. Types'
  BY <1>1, <1>2, <1>5, <1>6, <1>7 DEF Types
<1>9. state'[s].caps \cap excluded'[s] = {}
  BY <1>2, <1>3, <1>5, <1>7 DEF Fits, CallPermitted, RunStates
<1>10. Fits(s)'
  BY <1>1, <1>6, <1>7, <1>9, CallEnds
<1>11. TurnsTaken'
  BY <1>1, <1>3, <1>6, TurnsKept
<1>12. planFile => planFile'
  BY DEF RunTool, Mutate, Read, EnterPlanMode, WritePlan, ExitPlanMode, EnterWorktree,
     ExitWorktree, UseSkill
<1>13. PlanExitIsApproved'
  <2>1. PlanExitIsApproved
    BY <1>3 DEF ChangesWereAllowed
  <2>2. CASE ExitPlanMode(s)
    <3>1. call[s].once /\ planFile
      BY <1>1, <1>3, <2>2 DEF ExitPlanMode, Fits, ExitApproved
    <3>2. exits' = (exits \/ ~planFile \/ ~call[s].once)
      BY <2>2 DEF ExitPlanMode
    <3> QED BY <2>1, <3>1, <3>2 DEF PlanExitIsApproved
  <2>3. CASE exits' = exits
    BY <2>1, <2>3 DEF PlanExitIsApproved
  <2> QED BY <2>2, <2>3 DEF RunTool, Mutate, Read, EnterPlanMode, WritePlan, EnterWorktree,
             ExitWorktree, UseSkill
<1>14. CASE effects' = effects
  <2>1. ChangesWereAllowed' /\ PlanJobChangesNothing'
    BY <1>3, <1>13, <1>14 DEF ChangesWereAllowed, UserAllowed, ExcludedStayOut,
       PlanJobChangesNothing
  <2> QED BY <1>1, <1>6, <1>8, <1>10, <1>11, <1>12, <2>1, StepOfOne
<1>15. CASE effects' # effects
  <2>1. Mutate(s)
    BY <1>15 DEF RunTool, Read, EnterPlanMode, WritePlan, ExitPlanMode, EnterWorktree,
       ExitWorktree, UseSkill
  <2> DEFINE effect ==
        [session |-> s, tool |-> call[s].tool, cwd |-> state[s].cwd,
         planning |-> \E t \in Sessions : state[t].mode = "plan",
         approved |-> call[s].once \/ <<s, call[s].tool, state[s].cwd, call[s].input>> \in allowed,
         excluded |-> call[s].tool \in excluded[s]]
  <2>2. /\ effects' = effects \cup {effect}
        /\ effect.approved =
             (call[s].once \/ <<s, call[s].tool, state[s].cwd, call[s].input>> \in allowed)
        /\ effect.excluded = (call[s].tool \in excluded[s])
    BY <2>1 DEF Mutate
  <2> HIDE DEF effect
  <2>3. call[s].tool \in Mutating
    BY <2>1 DEF Mutate
  <2>4. ~effect.excluded
    BY <1>1, <1>3, <2>2, NoCallIsNone DEF Fits, CallPermitted
  <2>5. policy = "user" => effect.approved
    BY <1>1, <1>3, <2>2, <2>3 DEF Fits, CallAllowed
  <2>6. policy # "bot_plan"
    BY <1>3, <2>3 DEF Fits, CallAllowed
  <2>7. ChangesWereAllowed' /\ PlanJobChangesNothing'
    BY <1>3, <1>13, <2>2, <2>4, <2>5, <2>6 DEF ChangesWereAllowed, UserAllowed,
       ExcludedStayOut, PlanJobChangesNothing
  <2> QED BY <1>1, <1>6, <1>8, <1>10, <1>11, <1>12, <2>7, StepOfOne
<1> QED BY <1>14, <1>15

-----------------------------------------------------------------------------
(* The child, and the plan file.                                           *)

(* A child starts with fewer tools and without grants.                     *)
LEMMA StartKeeps ==
  ASSUME PermissionInv, policy' = policy, StartChild
  PROVE  PermissionInv'
<1> USE DEF StartChild
<1>1. /\ Types /\ Fits("parent") /\ TurnsTaken /\ ChangesWereAllowed /\ PlanJobChangesNothing
      /\ "parent" \in Sessions /\ "child" \in Sessions /\ call["child"] = NoCall
  BY DEF PermissionInv, TurnsTaken, Sessions
<1>2. /\ state'["child"] = Fresh(ChildCaps("parent"), state["parent"].cwd, FALSE)
      /\ excluded'["child"] = excluded["parent"] \cup (Tools \ VerifyTools)
      /\ call'["child"] = NoCall
  BY <1>1 DEF Types
<1>3. state'["child"] \in RunStates
  BY <1>1, <1>2 DEF Types, RunStates, Fresh, ChildCaps
<1>4. Types'
  BY <1>1, <1>2, <1>3 DEF Types
<1>5. Fits("parent")'
  <2>1. /\ state'["parent"] = state["parent"] /\ call'["parent"] = call["parent"]
        /\ excluded'["parent"] = excluded["parent"]
    BY <1>1 DEF Types
  <2>2. \A tool, cwd, input : <<"parent", tool, cwd, input>> \in allowed =>
                                 <<"parent", tool, cwd, input>> \in allowed'
    OBVIOUS
  <2> QED BY <1>1, <2>1, <2>2, OtherFits
<1>6. Fits("child")'
  <2>1. /\ state'["child"].grants = {} /\ state'["child"].caps = state["parent"].caps \cap VerifyTools
    BY <1>2 DEF Fresh, ChildCaps
  <2>2. state'["child"].caps \cap excluded'["child"] = {}
    BY <1>1, <1>2, <2>1 DEF Fits, CallPermitted
  <2>3. /\ call'["child"].tool = "none" /\ call'["child"].stage = "none"
        /\ call'["child"].granted = {} /\ "none" \notin Mutating
    BY <1>2, NoCallIsNone DEF Mutating
  <2> QED BY <1>2, <2>1, <2>2, <2>3 DEF Fits, GrantsGiven, CallPermitted, CallAllowed, ExitApproved
<1>7. TurnsTaken'
  BY DEF TurnsTaken, Delegates
<1>8. ChangesWereAllowed' /\ PlanJobChangesNothing'
  BY <1>1 DEF ChangesWereAllowed, UserAllowed, ExcludedStayOut, PlanExitIsApproved,
     PlanJobChangesNothing
<1> QED BY <1>4, <1>5, <1>6, <1>7, <1>8 DEF PermissionInv, Sessions

(* The call of the parent ends with its child.                             *)
LEMMA EndKeeps ==
  ASSUME PermissionInv, policy' = policy, EndChild
  PROVE  PermissionInv'
<1>1. /\ Types /\ TurnsTaken /\ Fits("parent") /\ "parent" \in Sessions /\ "child" \in Sessions
      /\ call["child"] = NoCall /\ call' = [call EXCEPT !["parent"] = NoCall]
      /\ UNCHANGED <<state, planFile, allowed, excluded, effects, exits>>
  BY DEF PermissionInv, EndChild, Sessions
<1>2. call'["parent"] = NoCall /\ call'["child"] = NoCall /\ ActsAlone("parent") /\ Types'
  BY <1>1 DEF ActsAlone, Types
<1>3. state["parent"].caps \cap excluded["parent"] = {}
  BY <1>1 DEF Fits, CallPermitted
<1>4. Fits("parent")'
  BY <1>1, <1>2, <1>3, CallEnds
<1>5. TurnsTaken'
  BY <1>2 DEF TurnsTaken, EndChild
<1> QED BY <1>1, <1>2, <1>4, <1>5, StepOfOne

(* While the user is asked, no allowed call waits to leave plan mode.      *)
LEMMA LoseKeeps ==
  ASSUME PermissionInv, policy' = policy, LosePlan
  PROVE  PermissionInv'
<1>1. /\ Types /\ TurnsTaken /\ ChangesWereAllowed /\ PlanJobChangesNothing
      /\ UNCHANGED <<state, call, childRuns, allowed, excluded, effects, exits>>
  BY DEF PermissionInv, LosePlan
<1>2. PICK t \in Sessions : call[t].stage = "asked"
  BY DEF LosePlan
<1>3. ASSUME NEW s \in Sessions PROVE Fits(s)'
  <2>1. call[s].tool # "exit_plan_mode" \/ call[s].stage # "allowed"
    BY <1>1, <1>2, NoCallIsNone DEF TurnsTaken, Sessions
  <2>2. Fits(s)
    BY DEF PermissionInv
  <2> QED BY <1>1, <2>1, <2>2, OtherFits
<1>4. Types' /\ TurnsTaken' /\ ChangesWereAllowed' /\ PlanJobChangesNothing'
  BY <1>1 DEF Types, TurnsTaken, ChangesWereAllowed, UserAllowed, ExcludedStayOut,
     PlanExitIsApproved, PlanJobChangesNothing
<1> QED BY <1>3, <1>4 DEF PermissionInv

-----------------------------------------------------------------------------
(* The theorems.                                                           *)

(* An Agent starts without calls, grants, exclusions and changes.          *)
LEMMA PermissionInit == Init => PermissionInv
<1> SUFFICES ASSUME Init PROVE PermissionInv
  OBVIOUS
<1>1. Types
  BY DEF Init, Types, RunStates, Fresh, Dirs
<1>2. ASSUME NEW s \in Sessions PROVE Fits(s)
  <2>1. state[s].grants = {} /\ call[s] = NoCall /\ excluded[s] = {}
    BY DEF Init, Fresh
  <2>2. "none" \notin Mutating
    BY DEF Mutating
  <2> QED BY <2>1, <2>2, NoCallIsNone DEF Fits, GrantsGiven, CallPermitted, CallAllowed, ExitApproved
<1>3. TurnsTaken /\ ChangesWereAllowed /\ PlanJobChangesNothing
  BY DEF Init, TurnsTaken, Sessions, ChangesWereAllowed, UserAllowed, ExcludedStayOut,
     PlanExitIsApproved, PlanJobChangesNothing
<1> QED BY <1>1, <1>2, <1>3 DEF PermissionInv

(* Every step keeps the invariant.                                         *)
LEMMA PermissionNext == PermissionInv /\ [Next]_vars => PermissionInv'
<1> SUFFICES ASSUME PermissionInv, [Next]_vars PROVE PermissionInv'
  OBVIOUS
<1>1. CASE UNCHANGED vars
  BY <1>1 DEF vars, PermissionInv, Types, Fits, GrantsGiven, CallPermitted, CallAllowed,
     ExitApproved, TurnsTaken, ChangesWereAllowed, UserAllowed, ExcludedStayOut,
     PlanExitIsApproved, PlanJobChangesNothing
<1>2. CASE Next
  <2>1. policy' = policy
    BY <1>2 DEF Next
  <2>2. ASSUME NEW tool \in Tools, NEW input \in Inputs, Propose(tool, input)
        PROVE  PermissionInv'
    BY <2>1, <2>2, ProposeKeeps
  <2>3. ASSUME NEW s \in Sessions, Approve(s) \/ ApproveForSession(s) \/ Deny(s)
        PROVE  PermissionInv'
    BY <2>1, <2>3, AnswersKeep
  <2>4. ASSUME NEW s \in Sessions, RunTool(s) PROVE PermissionInv'
    BY <2>1, <2>4, RunKeeps
  <2>5. StartChild \/ EndChild \/ LosePlan => PermissionInv'
    BY <2>1, StartKeeps, EndKeeps, LoseKeeps
  <2> QED BY <1>2, <2>2, <2>3, <2>4, <2>5 DEF Next
<1> QED BY <1>1, <1>2

(* The records of the Sessions and their calls keep their shape; what is   *)
(* remembered is for two risks only; and the parent waits in its call of   *)
(* the agent tool while its child runs (AgentTool.call).                   *)
THEOREM PermissionsAreTyped == Spec => []TypeOK
<1>1. PermissionInv => TypeOK
  <2> SUFFICES ASSUME PermissionInv PROVE TypeOK
    OBVIOUS
  <2>1. ASSUME NEW s \in Sessions
        PROVE  /\ state[s] \in RunStates /\ call[s] \in Calls \cup {NoCall}
               /\ \A grant \in state[s].grants : Rememberable(grant.tool)
    BY DEF PermissionInv, Types, Fits, GrantsGiven
  <2>2. \A s \in Sessions : call[s].stage \in {"none", "asked", "allowed"}
    BY <2>1, NoCallIsNone DEF Calls
  <2>3. TurnsTaken
    BY DEF PermissionInv
  <2> QED BY <2>1, <2>2, <2>3 DEF TypeOK, TurnsTaken, RunStates
<1> QED BY <1>1, PermissionInit, PermissionNext, PTL DEF Spec

(* What changes files was allowed for its Session, tool, directory and     *)
(* input by the user, if there is one (ToolExecutor and                    *)
(* DefaultPermissionPolicy); what a Skill or the parent excluded changes   *)
(* nothing; and plan mode is left only by an approval of that call with    *)
(* the plan file there (ExitPlanModeTool): for any inputs, any Skill and   *)
(* any number of calls, whatever worktrees, plans and children come in     *)
(* between.                                                                *)
THEOREM ChangesAreAllowed == Spec => []ChangesWereAllowed
<1>1. PermissionInv => ChangesWereAllowed
  BY DEF PermissionInv
<1> QED BY <1>1, PermissionInit, PermissionNext, PTL DEF Spec

(* The planning job of the bot (BotPermissionPolicy without an approved    *)
(* implementation) changes no file, itself or through child Agents, which  *)
(* do not run in plan mode.                                                *)
THEOREM PlanningChangesNothing == Spec => []PlanJobChangesNothing
<1>1. PermissionInv => PlanJobChangesNothing
  BY DEF PermissionInv
<1> QED BY <1>1, PermissionInit, PermissionNext, PTL DEF Spec

-----------------------------------------------------------------------------
(* What the model is shown.                                                *)

(* The instance of the library is the library.                             *)
LEMMA ContextCardinality == \A S : Context!Cardinality(S) = Cardinality(S)
BY DEF Context!Cardinality, Cardinality

(* A set of numbers up to n has a greatest one.                            *)
LEMMA GreatestExists ==
  ASSUME NEW n \in Nat, NEW S, S \subseteq 0 .. n, S # {}
  PROVE  \E x \in S : \A y \in S : y <= x
<1> DEFINE back == {n - i : i \in S}
<1>0. \A i \in S : i \in Nat /\ i <= n
  OBVIOUS
<1>1. back \subseteq Nat
  BY <1>0
<1>2. back # {}
  OBVIOUS
<1> HIDE DEF back
<1>3. PICK e \in back : \A y \in back : ~(<<y, e>> \in OpToRel(<, Nat))
  BY <1>1, <1>2, WFMin, NatLessThanWellFounded
<1>4. \A y \in back : ~(y < e)
  BY <1>1, <1>3 DEF OpToRel
<1>5. PICK i \in S : e = n - i
  BY DEF back
<1>6. \A j \in S : j <= i
  <2> SUFFICES ASSUME NEW j \in S PROVE j <= i
    OBVIOUS
  <2>1. n - j \in back
    BY DEF back
  <2>2. ~(n - j < n - i)
    BY <1>4, <1>5, <2>1
  <2> QED BY <1>0, <2>2
<1> QED BY <1>6

(* The greatest of a set of numbers is one of them, and the greatest.      *)
LEMMA ContextMax ==
  ASSUME NEW n \in Nat, NEW S, S \subseteq 0 .. n, S # {}
  PROVE  /\ Context!Max(S) \in S
         /\ \A y \in S : y <= Context!Max(S)
<1>1. \E x \in S : \A y \in S : x >= y
  BY GreatestExists
<1> QED BY <1>1 DEF Context!Max

(* The tools, messages and calls of the transcript.                        *)
ContextTools == {"bash", "read_file", "read_tool_result"}
Texting == [role : {"user", "assistant"}, text : Nat, uses : SUBSET Nat, results : SUBSET Nat]

ShownCalls == [tool : ContextTools, size : Nat]

(* The shape of what is kept, in the process and in the store.             *)
ShownTypes ==
  /\ called \in Seq(ShownCalls)
  /\ shown \in Seq(Texting)
  /\ turn \in {"due", "asked", "tools", "off"}
  /\ force \in BOOLEAN /\ failed \in BOOLEAN
  /\ whole \subseteq Context!Ids /\ partial \subseteq Context!Ids
  /\ whole \intersect partial = {}
  /\ view.cut \in Nat /\ view.of \in Nat /\ view.cut <= view.of /\ view.of <= Len(shown)

(* What a projection leaves out ends before a round: at the start, at the  *)
(* end, or where an answer of the model follows.                           *)
EndsBeforeRound(cut) ==
  cut \in 0 .. Len(shown) /\ (cut \notin {0, Len(shown)} => shown[cut + 1].role = "assistant")

(* The transcript begins with a text of the user; results follow the       *)
(* calls they are of; and while the Agent is at work only its tools keep   *)
(* the last message waiting for them.                                      *)
PairsOf(s) ==
  /\ Len(s) > 0 /\ s[1].role = "user" /\ s[1].text > 0
  /\ \A i \in 1 .. Len(s) :
       /\ s[i].results # {} => s[i].role = "user" /\ i > 1 /\ s[i - 1].uses = s[i].results
       /\ s[i].uses # {} =>
            s[i].role = "assistant" /\ (i < Len(s) => s[i + 1].results = s[i].uses)

ShownPairs ==
  PairsOf(shown) /\ (turn \in {"due", "asked"} => shown[Len(shown)].uses = {})

(* The model has a projection of all of it.                                *)
AskedView ==
  turn = "asked" =>
    /\ view.of = Len(shown) /\ EndsBeforeRound(view.cut)
    /\ view.summary # "model" =>
         \/ Context!Max(Context!Texts) > view.cut
         \/ view.recent = Context!Quote(Context!Max(Context!Texts))

(* The invariant.                                                          *)
ShownInv ==
  ShownTypes /\ ShownPairs /\ AskedView /\ Context!NamedIsStored

(* What the projection does with the results.                              *)
LEMMA PersistedFacts ==
  /\ Context!Persisted \subseteq Context!Ids
  /\ \A c : Context!Form(c) = "name" => c \in Context!Persisted
BY DEF Context!Persisted, Context!Replaced, Context!Budgeted, Context!Form

(* A result is not stored before itself.                                   *)
LEMMA BeforeIsOthers ==
  ASSUME ShownTypes, NEW c \in Context!Ids
  PROVE  c \notin Context!Before(c)
<1>1. c \in 1 .. Len(called) /\ Len(called) \in Nat
  BY DEF ShownTypes, Context!Ids
<1>2. called[c] \in ShownCalls
  BY <1>1 DEF ShownTypes
<1>3. c \in Nat /\ called[c].size \in Nat
  BY <1>1, <1>2 DEF ShownCalls
<1> QED BY <1>3 DEF Context!Before

(* The rounds of the transcript, and the last ones.                        *)
LEMMA CutEndsBeforeRound ==
  ASSUME ShownTypes, ShownPairs
  PROVE  EndsBeforeRound(Context!Cut) /\ Context!Cut \in Nat
<1> DEFINE L == Len(shown)
           G == Context!GroupStarts
           After(i) == {j \in G : j >= i}
           n == Context!Cardinality(G)
           preserve == IF n <= 2 THEN n - 1 ELSE 2
<1>1. L \in Nat /\ L > 0 /\ DOMAIN shown = 1 .. L
  BY DEF ShownTypes, ShownPairs, PairsOf
<1>2. G \subseteq 1 .. L /\ 1 \in G /\ \A i \in G : i = 1 \/ shown[i].role = "assistant"
  BY <1>1 DEF Context!GroupStarts
<1>3. IsFiniteSet(G) /\ n = Cardinality(G) /\ n \in Nat /\ n > 0
  <2>1. IsFiniteSet(1 .. L)
    BY <1>1, FS_Interval
  <2>2. IsFiniteSet(G)
    BY <1>2, <2>1, FS_Subset
  <2>3. n = Cardinality(G)
    BY ContextCardinality
  <2> QED BY <1>2, <2>2, <2>3, FS_CardinalityType, FS_EmptySet
<1>4. Context!Cut = IF preserve = 0 THEN L
                    ELSE (CHOOSE i \in G : Context!Cardinality(After(i)) = preserve) - 1
  BY DEF Context!Cut
<1> HIDE DEF G
<1>5. CASE preserve = 0
  BY <1>1, <1>4, <1>5 DEF EndsBeforeRound
<1>6. CASE preserve # 0
  <2>1. n > 1 /\ preserve \in {1, 2} /\ preserve < n
    BY <1>3, <1>6
  <2>2. PICK m \in G : \A y \in G : y <= m
    <3>1. G \subseteq 0 .. L /\ G # {}
      BY <1>1, <1>2
    <3> HIDE DEF L
    <3> QED BY <3>1, <1>1, GreatestExists
  <2> \A i \in G : i \in Nat /\ i <= L
    BY <1>1, <1>2
  <2>3. After(m) = {m}
    BY <2>2
  <2>4. Cardinality(After(m)) = 1
    BY <2>3, FS_Singleton
  <2>5. \E i \in G : Cardinality(After(i)) = preserve
    <3>1. CASE preserve = 1
      BY <2>2, <2>4, <3>1
    <3>2. CASE preserve = 2
      <4> DEFINE H == G \ {m}
      <4>1. IsFiniteSet(H) /\ Cardinality(H) = n - 1
        BY <1>3, <2>2, FS_RemoveElement
      <4>2. H # {}
        <5> SUFFICES ASSUME H = {} PROVE FALSE
          OBVIOUS
        <5>1. Cardinality(H) = 0
          BY FS_EmptySet
        <5> HIDE DEF H
        <5> QED BY <1>3, <2>1, <4>1, <5>1
      <4>3. H \subseteq 0 .. L
        BY <1>1, <1>2
      <4>4. PICK k \in H : \A y \in H : y <= k
        <5> HIDE DEF H, L
        <5> QED BY <1>1, <4>2, <4>3, GreatestExists
      <4>5. After(k) = {k, m} /\ k # m
        <5>1. k \in G /\ k # m
          BY <4>4
        <5>2. \A y \in G : y >= k => y = k \/ y = m
          BY <4>4
        <5>3. m >= k
          BY <2>2, <5>1
        <5> QED BY <5>1, <5>2, <5>3
      <4>6. Cardinality({k, m}) = 2
        <5>1. IsFiniteSet({k}) /\ Cardinality({k}) = 1 /\ {k, m} = {k} \cup {m} /\ m \notin {k}
          BY <4>5, FS_Singleton
        <5> DEFINE one == {k}
        <5>2. Cardinality(one \cup {m}) = Cardinality(one) + 1
          <6>1. IsFiniteSet(one) /\ m \notin one
            BY <5>1
          <6> HIDE DEF one
          <6> QED BY <6>1, FS_AddElement
        <5>3. Cardinality(one) = 1 /\ {k, m} = one \cup {m}
          BY <5>1
        <5> HIDE DEF one
        <5>4. Cardinality(one) + 1 = 2
          BY <5>3
        <5> QED BY <5>2, <5>3, <5>4
      <4> QED BY <3>2, <4>4, <4>5, <4>6
    <3> QED BY <2>1, <3>1, <3>2
  <2>6. PICK i \in G : Context!Cut = i - 1 /\ Cardinality(After(i)) = preserve
    <3> DEFINE P(i) == Context!Cardinality(After(i)) = preserve
    <3>1. \E i \in G : P(i)
      BY <2>5, ContextCardinality
    <3>2. Context!Cut = (CHOOSE i \in G : P(i)) - 1
      BY <1>4, <1>6
    <3> HIDE DEF P
    <3>3. PICK i \in G : i = (CHOOSE j \in G : P(j)) /\ P(i)
      BY <3>1
    <3> QED BY <3>2, <3>3, ContextCardinality DEF P
  <2>7. i # 1
    <3> SUFFICES ASSUME i = 1 PROVE FALSE
      OBVIOUS
    <3>1. \A y \in G : y \in Nat /\ y >= 1
      BY <1>1, <1>2
    <3>2. After(i) = G
      BY <3>1
    <3>3. Cardinality(G) = preserve
      BY <2>6, <3>2
    <3> QED BY <1>3, <2>1, <3>3
  <2> QED BY <1>1, <1>2, <2>6, <2>7 DEF EndsBeforeRound
<1> QED BY <1>5, <1>6

(* What a new projection shows.                                            *)
LEMMA ViewEndsBeforeRound ==
  ASSUME ShownTypes, ShownPairs, NEW summary
  PROVE  LET v == Context!View(summary)
         IN  /\ v.of = Len(shown) /\ EndsBeforeRound(v.cut) /\ v.cut \in Nat
             /\ v.named \subseteq Context!Persisted
             /\ v.summary = IF v.cut = 0 THEN "none" ELSE summary
             /\ v.recent = IF v.cut # 0 /\ summary = "fallback"
                            THEN Context!Recent(v.cut) ELSE Context!NoQuote
<1> DEFINE cut == IF force \/ Context!Estimate > AutoCompact THEN Context!Cut ELSE 0
           left == UNION {shown[i].results : i \in cut + 1 .. Len(shown)}
           v == Context!View(summary)
<1>1. v = [cut |-> cut, of |-> Len(shown),
           summary |-> IF cut = 0 THEN "none" ELSE summary,
           recent |-> IF cut # 0 /\ summary = "fallback" THEN Context!Recent(cut)
                      ELSE Context!NoQuote,
           named |-> {c \in left : Context!Form(c) = "name"},
           full |-> {c \in left : Context!Form(c) = "full"}]
  BY DEF Context!View
<1>2. EndsBeforeRound(cut) /\ cut \in Nat
  <2>1. EndsBeforeRound(0)
    BY DEF EndsBeforeRound, ShownTypes
  <2> QED BY <2>1, CutEndsBeforeRound
<1> HIDE DEF cut
<1>3. {c \in left : Context!Form(c) = "name"} \subseteq Context!Persisted
  BY PersistedFacts
<1> HIDE DEF left
<1> QED BY <1>1, <1>2, <1>3

(* Of the texts that are summarised, the last one is quoted.               *)
LEMMA LatestIsRecent ==
  ASSUME ShownTypes, ShownPairs, NEW cut \in Nat
  PROVE  \/ Context!Max(Context!Texts) > cut
         \/ Context!Recent(cut) = Context!Quote(Context!Max(Context!Texts))
<1> DEFINE T == Context!Texts
           U == {i \in T : i <= cut}
           L == Len(shown)
<1>1. L \in Nat /\ L > 0 /\ T \subseteq 1 .. L /\ 1 \in T
  BY DEF ShownTypes, ShownPairs, PairsOf, Context!Texts
<1>2. Context!Recent(cut) = IF U = {} THEN Context!NoQuote ELSE Context!Quote(Context!Max(U))
  BY DEF Context!Recent
<1> HIDE DEF T, L
<1>0. \A i \in T : i \in 0 .. L /\ i \in Nat
  BY <1>1
<1>3. T \subseteq 0 .. L /\ T # {} /\ U \subseteq 0 .. L
  BY <1>0, <1>1
<1>4. Context!Max(T) \in T /\ \A y \in T : y <= Context!Max(T)
  BY <1>1, <1>3, ContextMax
<1>5. CASE Context!Max(T) <= cut
  <2>1. Context!Max(T) \in U
    BY <1>4, <1>5
  <2>2. Context!Max(U) \in U /\ \A y \in U : y <= Context!Max(U)
    <3> HIDE DEF U
    <3> QED BY <1>1, <1>3, <2>1, ContextMax
  <2>3. Context!Max(U) \in T /\ Context!Max(T) <= Context!Max(U) /\ Context!Max(U) <= Context!Max(T)
    BY <1>4, <2>1, <2>2
  <2>4. Context!Max(U) \in Nat /\ Context!Max(T) \in Nat
    BY <1>0, <1>4, <2>3
  <2>5. Context!Max(U) = Context!Max(T)
    BY <2>3, <2>4
  <2> QED BY <1>2, <2>1, <2>5 DEF T
<1>6. CASE Context!Max(T) > cut
  BY <1>6 DEF T
<1>7. Context!Max(T) \in Nat
  BY <1>0, <1>4
<1> QED BY <1>5, <1>6, <1>7

(* A transcript with one more message.                                     *)
LEMMA ShownAppended ==
  ASSUME NEW s \in Seq(Texting), NEW m \in Texting
  PROVE  /\ Append(s, m) \in Seq(Texting)
         /\ Len(s) \in Nat /\ Len(Append(s, m)) = Len(s) + 1 /\ Append(s, m)[Len(s) + 1] = m
         /\ \A i \in 1 .. Len(s) : Append(s, m)[i] = s[i]
BY AppendProperties

(* What is appended may follow what was there: results follow the calls    *)
(* they are of, everything else a message without calls.                   *)
LEMMA PairsGrow ==
  ASSUME NEW s \in Seq(Texting), PairsOf(s), NEW m \in Texting,
         m.uses # {} => m.role = "assistant",
         m.results # {} => m.role = "user",
         m.results = s[Len(s)].uses
  PROVE  PairsOf(Append(s, m))
<1> DEFINE L == Len(s)
           t == Append(s, m)
<1>1. L \in Nat /\ L > 0
  BY DEF PairsOf
<1>2. Len(t) = L + 1 /\ t[L + 1] = m /\ \A i \in 1 .. L : t[i] = s[i]
  BY ShownAppended
<1> HIDE DEF t
<1>3. t[1].role = "user" /\ t[1].text > 0
  BY <1>1, <1>2 DEF PairsOf
<1>4. ASSUME NEW i \in 1 .. L + 1
      PROVE  /\ t[i].results # {} => t[i].role = "user" /\ i > 1 /\ t[i - 1].uses = t[i].results
             /\ t[i].uses # {} =>
                  t[i].role = "assistant" /\ (i < L + 1 => t[i + 1].results = t[i].uses)
  <2>1. CASE i = L + 1
    <3>1. i > 1 /\ i - 1 = L /\ t[i - 1] = s[L] /\ t[i] = m
      BY <1>1, <1>2, <2>1
    <3> QED BY <2>1, <3>1
  <2>2. CASE i = L
    <3>1. t[i] = s[i] /\ t[i + 1] = m /\ i \in 1 .. Len(s)
      BY <1>1, <1>2, <2>2
    <3>2. i > 1 => t[i - 1] = s[i - 1]
      BY <1>1, <1>2, <2>2
    <3> QED BY <2>2, <3>1, <3>2 DEF PairsOf
  <2>3. CASE i \notin {L, L + 1}
    <3>1. i \in 1 .. Len(s) /\ i < Len(s) /\ i + 1 \in 1 .. L
      BY <1>1, <2>3
    <3>2. t[i] = s[i] /\ t[i + 1] = s[i + 1]
      BY <1>2, <3>1
    <3>3. i > 1 => t[i - 1] = s[i - 1]
      BY <1>1, <1>2, <3>1
    <3> QED BY <3>1, <3>2, <3>3 DEF PairsOf
  <2> QED BY <2>1, <2>2, <2>3
<1> HIDE DEF L
<1> QED BY <1>1, <1>2, <1>3, <1>4 DEF PairsOf, t

(* The messages that are appended.                                         *)
LEMMA UserTextType ==
  ASSUME Context!ContextAssumption, NEW size \in TextSizes
  PROVE  /\ Context!UserText(size) \in Texting
         /\ Context!UserText(size).role = "user" /\ Context!UserText(size).text > 0
         /\ Context!UserText(size).uses = {} /\ Context!UserText(size).results = {}
<1>1. size \in Nat /\ size > 0
  BY DEF Context!ContextAssumption
<1> QED BY <1>1 DEF Context!UserText, Context!Message, Texting

(* A step of the projection or of the process that leaves the transcript   *)
(* and the calls alone.                                                    *)
LEMMA ShownStays ==
  ASSUME ShownInv, UNCHANGED <<called, shown>>, turn' \in {"due", "asked", "tools", "off"},
         turn' \in {"due", "asked"} => turn \in {"due", "asked"}
  PROVE  ShownPairs'
BY DEF ShownInv, ShownPairs

(* Every step of the Agent loop, the store and the process keeps the       *)
(* invariant.                                                              *)
LEMMA ShownStep ==
  ASSUME Context!ContextAssumption, ShownInv, [Context!Next]_Context!vars
  PROVE  ShownInv'
<1> USE DEF ShownInv
<1>0. /\ Context!NamedIsStored /\ view.named \subseteq Context!Ids
      /\ DOMAIN called = 1 .. Len(called) /\ Len(called) \in Nat
      /\ shown \in Seq(Texting) /\ Len(shown) \in Nat
  BY DEF Context!NamedIsStored, ShownTypes, Context!Ids
<1>1. CASE UNCHANGED Context!vars
  <2>1. UNCHANGED <<called, shown, whole, partial, turn, view, force, failed>>
    BY <1>1 DEF Context!vars
  <2>2. ShownTypes' /\ ShownPairs' /\ Context!NamedIsStored'
    BY <2>1 DEF ShownTypes, ShownPairs, Context!NamedIsStored, Context!Ids
  <2>3. Context!Texts' = Context!Texts /\ \A i : Context!Quote(i)' = Context!Quote(i)
    BY <2>1 DEF Context!Texts, Context!Quote
  <2>4. (Context!Max(Context!Texts))' = Context!Max(Context!Texts)
    BY <2>3 DEF Context!Max
  <2>5. EndsBeforeRound(view.cut)' <=> EndsBeforeRound(view.cut)
    BY <2>1 DEF EndsBeforeRound
  <2>6. AskedView'
    BY <2>1, <2>3, <2>4, <2>5 DEF AskedView
  <2> QED BY <2>2, <2>6
<1>2. ASSUME NEW summary \in {"model", "fallback"}, Context!Project(summary) PROVE ShownInv'
  <2>1. /\ turn = "due" /\ \A c \in Context!Persisted : c \notin partial
        /\ whole' = whole \union (Context!Persisted \ partial)
        /\ view' = Context!View(summary)
        /\ turn' = "asked" /\ force' = FALSE /\ failed' = FALSE
        /\ UNCHANGED <<called, shown, partial, deaths>>
    BY <1>2 DEF Context!Project, Context!Refused
  <2>2. /\ view'.of = Len(shown) /\ EndsBeforeRound(view'.cut) /\ view'.cut \in Nat
        /\ view'.named \subseteq Context!Persisted
        /\ view'.summary = IF view'.cut = 0 THEN "none" ELSE summary
        /\ view'.recent = IF view'.cut # 0 /\ summary = "fallback"
                            THEN Context!Recent(view'.cut) ELSE Context!NoQuote
    BY <2>1, ViewEndsBeforeRound
  <2>3. ShownTypes'
    <3>1. Context!Ids' = Context!Ids /\ Context!Persisted \subseteq Context!Ids
      BY <2>1, PersistedFacts DEF Context!Ids
    <3>2. view'.cut <= view'.of /\ view'.of <= Len(shown') /\ view'.of \in Nat
      BY <1>0, <2>1, <2>2 DEF EndsBeforeRound
    <3> QED BY <2>1, <2>2, <3>1, <3>2 DEF ShownTypes
  <2>4. ShownPairs'
    BY <2>1, ShownStays
  <2>5. AskedView'
    <3>1. EndsBeforeRound(view.cut)'
      BY <2>1, <2>2 DEF EndsBeforeRound
    <3>2. Context!Texts' = Context!Texts
      BY <2>1 DEF Context!Texts
    <3>3. ASSUME view'.summary # "model"
          PROVE  \/ Context!Max(Context!Texts) > view'.cut
                 \/ view'.recent = Context!Quote(Context!Max(Context!Texts))
      <4>1. CASE view'.cut = 0
        <5>1. Context!Texts # {} /\ Context!Texts \subseteq 0 .. Len(shown)
              /\ \A i \in Context!Texts : i > 0
          BY <1>0 DEF Context!Texts, ShownPairs, PairsOf
        <5>2. Context!Max(Context!Texts) \in Context!Texts
          <6> HIDE DEF Context!Texts
          <6> QED BY <1>0, <5>1, ContextMax
        <5> QED BY <4>1, <5>1, <5>2
      <4>2. CASE view'.cut # 0
        <5>1. summary = "fallback" /\ view'.recent = Context!Recent(view'.cut)
          BY <2>2, <3>3, <4>2
        <5> QED BY <2>2, <5>1, LatestIsRecent
      <4> QED BY <4>1, <4>2
    <3>4. (Context!Max(Context!Texts))' = Context!Max(Context!Texts)
      BY <3>2 DEF Context!Max
    <3>5. \A i : Context!Quote(i)' = Context!Quote(i)
      BY <2>1 DEF Context!Quote
    <3> QED BY <2>1, <2>2, <3>1, <3>3, <3>4, <3>5 DEF AskedView
  <2>6. Context!NamedIsStored'
    BY <2>1, <2>2 DEF Context!NamedIsStored
  <2> QED BY <2>3, <2>4, <2>5, <2>6
<1>3. ASSUME NEW c \in Context!Ids, Context!ProjectFails(c) PROVE ShownInv'
  <2>1. /\ turn = "due" /\ turn' = "off" /\ force' = FALSE /\ failed' = TRUE
        /\ \A d \in Context!Before(c) \intersect Context!Persisted : d \notin partial
        /\ whole' = whole \union (Context!Persisted \intersect Context!Before(c))
        /\ UNCHANGED <<called, shown, partial, view, deaths>>
    BY <1>3 DEF Context!ProjectFails, Context!Refused
  <2>2. Context!Ids' = Context!Ids /\ Context!Persisted \subseteq Context!Ids
    BY <2>1, PersistedFacts DEF Context!Ids
  <2>3. ShownTypes'
    BY <2>1, <2>2 DEF ShownTypes
  <2>4. Context!NamedIsStored'
    BY <2>1 DEF Context!NamedIsStored
  <2> QED BY <2>1, <2>3, <2>4, ShownStays DEF AskedView
<1>4. ASSUME NEW c \in Context!Ids, Context!DieStoring(c) PROVE ShownInv'
  <2>1. /\ turn = "due" /\ turn' = "off" /\ force' = FALSE
        /\ c \in Context!Persisted \ (whole \union partial)
        /\ \A d \in Context!Before(c) \intersect Context!Persisted : d \notin partial
        /\ whole' = whole \union (Context!Persisted \intersect Context!Before(c))
        /\ partial' = partial \union {c}
        /\ UNCHANGED <<called, shown, view, failed>>
    BY <1>4 DEF Context!DieStoring, Context!Refused
  <2>2. Context!Ids' = Context!Ids /\ Context!Persisted \subseteq Context!Ids
    BY <2>1, PersistedFacts DEF Context!Ids
  <2>3. c \notin Context!Before(c)
    BY BeforeIsOthers
  <2>4. whole' \intersect partial' = {}
    BY <2>1, <2>3 DEF ShownTypes
  <2>5. ShownTypes'
    BY <2>1, <2>2, <2>4 DEF ShownTypes
  <2>6. Context!NamedIsStored'
    BY <2>1 DEF Context!NamedIsStored
  <2> QED BY <2>1, <2>5, <2>6, ShownStays DEF AskedView
<1>5. CASE Context!TooLong
  <2>1. /\ turn = "asked" /\ turn' = "due" /\ force' = TRUE
        /\ UNCHANGED <<called, shown, whole, partial, view, failed, deaths>>
    BY <1>5 DEF Context!TooLong
  <2>2. ShownTypes' /\ Context!NamedIsStored'
    BY <2>1 DEF ShownTypes, Context!NamedIsStored, Context!Ids
  <2> QED BY <2>1, <2>2, ShownStays DEF AskedView
<1>6. CASE Context!Stop
  <2>1. /\ turn = "tools" /\ turn' = "off"
        /\ UNCHANGED <<called, shown, whole, partial, view, force, failed, deaths>>
    BY <1>6 DEF Context!Stop
  <2>2. ShownTypes' /\ Context!NamedIsStored'
    BY <2>1 DEF ShownTypes, Context!NamedIsStored, Context!Ids
  <2> QED BY <2>1, <2>2, ShownStays DEF AskedView
<1>7. ASSUME NEW new \in Seq(ShownCalls), Len(new) \in {1, 2}, Context!Ask(new) PROVE ShownInv'
  <2> DEFINE ids == Len(called) + 1 .. Len(called) + Len(new)
             m == Context!Message("assistant", 0, ids, {})
  <2>1. /\ turn = "asked" /\ turn' = "tools" /\ called' = called \o new /\ shown' = Append(shown, m)
        /\ UNCHANGED <<whole, partial, view, force, failed, deaths>>
    BY <1>7 DEF Context!Ask
  <2>2. ids \in SUBSET Nat /\ ids # {}
    <3>0. Len(new) \in Nat /\ Len(new) > 0
      BY <1>7
    <3>1. \A k \in ids : k \in Nat
      BY <1>0, <3>0
    <3>2. Len(called) + 1 \in ids
      BY <1>0, <3>0
    <3> QED BY <3>1, <3>2
  <2> HIDE DEF ids
  <2>3. m \in Texting /\ m.role = "assistant" /\ m.uses = ids /\ m.results = {}
    BY <2>2 DEF Context!Message, Texting
  <2> HIDE DEF m
  <2>4. ShownPairs'
    <3>1. m.results = shown[Len(shown)].uses
      BY <2>1, <2>3 DEF ShownPairs
    <3> QED BY <1>0, <2>1, <2>3, <3>1, PairsGrow DEF ShownPairs
  <2>5. /\ shown' \in Seq(Texting) /\ Len(shown') = Len(shown) + 1
    BY <1>0, <2>1, <2>3, ShownAppended
  <2>6. called' \in Seq(ShownCalls) /\ Len(called') = Len(called) + Len(new)
    BY <2>1, ConcatProperties DEF ShownTypes
  <2>7. DOMAIN called' = 1 .. Len(called')
    BY <2>6
  <2>8. Context!Ids \subseteq Context!Ids'
    BY <1>0, <1>7, <2>6, <2>7 DEF Context!Ids
  <2>9. ShownTypes'
    BY <1>0, <2>1, <2>5, <2>6, <2>8 DEF ShownTypes
  <2>10. Context!NamedIsStored'
    BY <2>1 DEF Context!NamedIsStored
  <2> QED BY <2>1, <2>4, <2>9, <2>10 DEF AskedView
<1>8. CASE Context!AskTools \/ Context!ReadBack
  <2>1. CASE Context!AskTools
    <3>1. Context!Tools \subseteq ShownCalls
      BY DEF Context!Tools, ShownCalls, ContextTools, Context!ContextAssumption
    <3>2. CASE \E c \in Context!Tools : Context!Ask(<<c>>)
      <4>1. PICK c \in ShownCalls : Context!Ask(<<c>>)
        BY <3>1, <3>2
      <4>2. <<c>> \in Seq(ShownCalls) /\ Len(<<c>>) = 1
        OBVIOUS
      <4> QED BY <1>7, <4>1, <4>2
    <3>3. CASE \E c, d \in Context!Tools : Context!Ask(<<c, d>>)
      <4>1. PICK c \in ShownCalls, d \in ShownCalls : Context!Ask(<<c, d>>)
        BY <3>1, <3>3
      <4>2. <<c, d>> \in Seq(ShownCalls) /\ Len(<<c, d>>) = 2
        OBVIOUS
      <4> QED BY <1>7, <4>1, <4>2
    <3> QED BY <2>1, <3>2, <3>3 DEF Context!AskTools
  <2>2. CASE Context!ReadBack
    <3>1. PICK c \in view.named : Context!Ask(<<Context!Page(c)>>)
      BY <2>2 DEF Context!ReadBack
    <3>2. called[c] \in ShownCalls
      BY <1>0 DEF ShownTypes, Context!Ids
    <3>3. Context!Page(c) \in ShownCalls
      BY <3>2 DEF Context!Page, Context!Smaller, ShownCalls, ContextTools, Context!ContextAssumption
    <3>4. <<Context!Page(c)>> \in Seq(ShownCalls) /\ Len(<<Context!Page(c)>>) = 1
      BY <3>3
    <3> QED BY <1>7, <3>1, <3>4
  <2> QED BY <1>8, <2>1, <2>2
<1>9. CASE Context!Answer
  <2> DEFINE open == shown[Len(shown)].uses
             m == Context!Message("user", 0, {}, open)
  <2>1. /\ turn = "tools" /\ turn' = "due" /\ shown' = Append(shown, m)
        /\ UNCHANGED <<called, whole, partial, view, force, failed, deaths>>
    BY <1>9 DEF Context!Answer
  <2>2. open \in SUBSET Nat
    <3>1. shown[Len(shown)] \in Texting
      BY <1>0 DEF ShownPairs, PairsOf
    <3> QED BY <3>1 DEF Texting
  <2>3. m \in Texting /\ m.role = "user" /\ m.uses = {} /\ m.results = open
    <3> HIDE DEF open
    <3> QED BY <2>2 DEF Context!Message, Texting
  <2> HIDE DEF m
  <2>4. ShownPairs'
    <3>1. PairsOf(shown')
      BY <1>0, <2>1, <2>3, PairsGrow DEF ShownPairs
    <3>2. shown'[Len(shown')] = m
      BY <1>0, <2>1, <2>3, ShownAppended
    <3> QED BY <2>3, <3>1, <3>2 DEF ShownPairs
  <2>5. shown' \in Seq(Texting) /\ Len(shown') = Len(shown) + 1
    BY <1>0, <2>1, <2>3, ShownAppended
  <2>6. ShownTypes' /\ Context!NamedIsStored'
    BY <1>0, <2>1, <2>5 DEF ShownTypes, Context!NamedIsStored, Context!Ids
  <2> QED BY <2>1, <2>4, <2>6 DEF AskedView
<1>10. ASSUME NEW size \in TextSizes, NEW blocked \in BOOLEAN, Context!Say(blocked, size)
       PROVE  ShownInv'
  <2> DEFINE m == Context!Message("assistant", 0, {}, {})
             said == Append(shown, m)
  <2>1. /\ turn = "asked" /\ turn' = IF blocked THEN "due" ELSE "off"
        /\ shown' = IF blocked THEN Append(said, Context!UserText(size)) ELSE said
        /\ UNCHANGED <<called, whole, partial, view, force, failed, deaths>>
    BY <1>10 DEF Context!Say
  <2>2. m \in Texting /\ m.role = "assistant" /\ m.uses = {} /\ m.results = {}
    BY DEF Context!Message, Texting
  <2> HIDE DEF m
  <2>3. shown[Len(shown)].uses = {}
    BY <2>1 DEF ShownPairs
  <2>4. said \in Seq(Texting) /\ Len(said) = Len(shown) + 1 /\ said[Len(said)] = m
    BY <1>0, <2>2, ShownAppended
  <2> HIDE DEF said
  <2>5. shown' \in Seq(Texting) /\ Len(shown') > Len(shown) /\ Len(shown') \in Nat
    <3>1. CASE blocked
      BY <1>0, <2>1, <2>4, <3>1, ShownAppended, UserTextType
    <3>2. CASE ~blocked
      BY <1>0, <2>1, <2>4, <3>2
    <3> QED BY <3>1, <3>2
  <2>6. PairsOf(said)
    BY <1>0, <2>2, <2>3, PairsGrow DEF said, ShownPairs
  <2>7. ShownPairs'
    <3>1. CASE blocked
      <4>1. PairsOf(shown')
        <5>1. Context!UserText(size).results = said[Len(said)].uses
          BY <2>2, <2>4, UserTextType
        <5> QED BY <2>1, <2>4, <2>6, <3>1, <5>1, PairsGrow, UserTextType
      <4>2. shown'[Len(shown')] = Context!UserText(size)
        BY <2>1, <2>4, <3>1, ShownAppended, UserTextType
      <4> QED BY <4>1, <4>2, UserTextType DEF ShownPairs
    <3>2. CASE ~blocked
      BY <2>1, <2>6, <3>2 DEF ShownPairs
    <3> QED BY <3>1, <3>2
  <2>8. ShownTypes' /\ Context!NamedIsStored'
    BY <1>0, <2>1, <2>5 DEF ShownTypes, Context!NamedIsStored, Context!Ids
  <2> QED BY <2>1, <2>7, <2>8 DEF AskedView
<1>11. ASSUME NEW size \in TextSizes, Context!Resume(size) PROVE ShownInv'
  <2> DEFINE open == shown[Len(shown)].uses
             m == Context!Message("user", 0, {}, open)
             repaired == IF open = {} THEN shown ELSE Append(shown, m)
  <2>1. /\ turn' = "due" /\ shown' = Append(repaired, Context!UserText(size))
        /\ called' = [c \in Context!Ids |-> IF c \in open THEN [called[c] EXCEPT !.size = 1]
                                            ELSE called[c]]
        /\ UNCHANGED <<whole, partial, view, force, failed, deaths>>
    BY <1>11 DEF Context!Resume
  <2>2. open \in SUBSET Nat
    <3>1. shown[Len(shown)] \in Texting
      BY <1>0 DEF ShownPairs, PairsOf
    <3> QED BY <3>1 DEF Texting
  <2>3. m \in Texting /\ m.role = "user" /\ m.uses = {} /\ m.results = open
    <3> HIDE DEF open
    <3> QED BY <2>2 DEF Context!Message, Texting
  <2> HIDE DEF m
  <2>4. /\ repaired \in Seq(Texting) /\ Len(repaired) >= Len(shown) /\ Len(repaired) \in Nat
        /\ PairsOf(repaired) /\ repaired[Len(repaired)].uses = {}
    <3>1. CASE open = {}
      BY <1>0, <3>1 DEF ShownPairs
    <3>2. CASE open # {}
      <4>1. PairsOf(Append(shown, m))
        BY <1>0, <2>3, PairsGrow DEF ShownPairs
      <4>2. /\ Append(shown, m) \in Seq(Texting) /\ Len(Append(shown, m)) = Len(shown) + 1
            /\ Append(shown, m)[Len(shown) + 1] = m
        BY <1>0, <2>3, ShownAppended
      <4> QED BY <1>0, <2>3, <3>2, <4>1, <4>2
    <3> QED BY <3>1, <3>2
  <2> HIDE DEF repaired
  <2>5. /\ shown' \in Seq(Texting) /\ Len(shown') = Len(repaired) + 1
        /\ shown'[Len(repaired) + 1] = Context!UserText(size)
    BY <2>1, <2>4, ShownAppended, UserTextType
  <2>6. ShownPairs'
    <3>1. PairsOf(shown')
      <4>1. Context!UserText(size).results = repaired[Len(repaired)].uses
        BY <2>4, UserTextType
      <4> QED BY <2>1, <2>4, <4>1, PairsGrow, UserTextType
    <3> QED BY <2>5, <3>1, UserTextType DEF ShownPairs
  <2>7. called' \in Seq(ShownCalls) /\ Context!Ids' = Context!Ids
    <3>1. ASSUME NEW c \in Context!Ids PROVE called'[c] \in ShownCalls
      <4>1. called[c] \in ShownCalls
        BY <1>0 DEF ShownTypes, Context!Ids
      <4>2. [called[c] EXCEPT !.size = 1] \in ShownCalls
        BY <4>1 DEF ShownCalls
      <4> QED BY <2>1, <4>1, <4>2
    <3>2. DOMAIN called' = 1 .. Len(called)
      BY <1>0, <2>1 DEF Context!Ids
    <3>3. called' \in [1 .. Len(called) -> ShownCalls]
      BY <1>0, <2>1, <3>1 DEF Context!Ids
    <3>4. called' \in Seq(ShownCalls)
      BY <1>0, <3>3
    <3> QED BY <1>0, <3>2, <3>4 DEF Context!Ids
  <2>8. ShownTypes' /\ Context!NamedIsStored'
    BY <1>0, <2>1, <2>4, <2>5, <2>7 DEF ShownTypes, Context!NamedIsStored
  <2> QED BY <2>1, <2>6, <2>8 DEF AskedView
<1> QED
  BY <1>1, <1>2, <1>3, <1>4, <1>5, <1>6, <1>8, <1>9, <1>10, <1>11 DEF Context!Next

(* A Session begins with the first prompt and nothing stored.              *)
LEMMA ShownInit == Context!ContextAssumption /\ Context!Init => ShownInv
<1> SUFFICES ASSUME Context!ContextAssumption, Context!Init PROVE ShownInv
  OBVIOUS
<1>0. PICK size \in TextSizes : shown = <<Context!UserText(size)>>
  BY DEF Context!Init
<1>1. /\ called = <<>> /\ whole = {} /\ partial = {}
      /\ turn = "due" /\ view = Context!NoView /\ force = FALSE /\ failed = FALSE
  BY DEF Context!Init
<1>2. /\ shown \in Seq(Texting) /\ Len(shown) = 1 /\ shown[1] = Context!UserText(size)
  BY <1>0, UserTextType
<1>3. view.cut = 0 /\ view.of = 0 /\ view.named = {}
  BY <1>1 DEF Context!NoView
<1>4. called \in Seq(ShownCalls)
  BY <1>1
<1>5. ShownTypes
  <2>1. view.cut <= view.of /\ view.of <= Len(shown)
    BY <1>2, <1>3
  <2>2. force \in BOOLEAN /\ failed \in BOOLEAN
    BY <1>1
  <2>3. whole \subseteq Context!Ids /\ partial \subseteq Context!Ids /\ whole \intersect partial = {}
    BY <1>1
  <2> QED BY <1>1, <1>2, <1>3, <1>4, <2>1, <2>2, <2>3 DEF ShownTypes
<1>6. ShownPairs
  BY <1>2, UserTextType DEF ShownPairs, PairsOf
<1> QED BY <1>1, <1>3, <1>5, <1>6 DEF ShownInv, AskedView, Context!NamedIsStored

(* The variables of the projection keep their shape (ContextPipeline, the  *)
(* store of large results), and no file of a result is both whole and cut  *)
(* short.                                                                  *)
THEOREM ViewIsTyped ==
  ASSUME Context!ContextAssumption
  PROVE  Context!Spec => []Context!TypeOK
<1>1. ShownInv => Context!TypeOK
  BY DEF ShownInv, ShownTypes, Context!TypeOK
<1> QED BY <1>1, ShownInit, ShownStep, PTL DEF Context!Spec

(* A projection that ends before a round keeps the pairs.                  *)
LEMMA PairsShownWhole == ShownInv => Context!PairsAreWhole
<1> SUFFICES ASSUME ShownInv, turn = "asked" PROVE Context!PairsAreWhole
  BY DEF Context!PairsAreWhole
<1>1. /\ view.of = Len(shown) /\ EndsBeforeRound(view.cut) /\ Len(shown) \in Nat
      /\ PairsOf(shown) /\ shown[Len(shown)].uses = {}
  BY DEF ShownInv, ShownTypes, ShownPairs, AskedView
<1>2. ASSUME NEW i \in view.cut + 1 .. view.of
      PROVE  /\ shown[i].results # {} => i - 1 > view.cut /\ shown[i - 1].uses = shown[i].results
             /\ shown[i].uses # {} => i < view.of /\ shown[i + 1].results = shown[i].uses
  <2>1. i \in 1 .. Len(shown) /\ view.cut \in Nat /\ i >= view.cut + 1
    BY <1>1 DEF EndsBeforeRound
  <2>2. ASSUME shown[i].results # {}, i = view.cut + 1 PROVE FALSE
    <3>1. shown[i].role = "user" /\ i > 1
      BY <1>1, <2>1, <2>2 DEF PairsOf
    <3>2. shown[i].role = "assistant"
      BY <1>1, <2>1, <2>2, <3>1 DEF EndsBeforeRound
    <3> QED BY <3>1, <3>2
  <2>3. shown[i].results # {} => i - 1 > view.cut /\ shown[i - 1].uses = shown[i].results
    BY <1>1, <2>1, <2>2 DEF PairsOf
  <2>4. shown[i].uses # {} => i < Len(shown)
    BY <1>1, <2>1
  <2> QED BY <1>1, <2>1, <2>3, <2>4 DEF PairsOf
<1> QED BY <1>1, <1>2 DEF Context!PairsAreWhole, EndsBeforeRound

(* Whatever is summarised, for any sizes and limits, the projection keeps  *)
(* calls and results together and goes on with an answer of the model      *)
(* (_group_by_api_round and _compact).                                     *)
THEOREM PairsStayWhole ==
  ASSUME Context!ContextAssumption
  PROVE  Context!Spec => []Context!PairsAreWhole
BY PairsShownWhole, ShownInit, ShownStep, PTL DEF Context!Spec

(* A result the model is told to read back is there, whole, whichever of   *)
(* the writes of persist() the process dies in.                            *)
THEOREM NamedStaysStored ==
  ASSUME Context!ContextAssumption
  PROVE  Context!Spec => []Context!NamedIsStored
<1>1. ShownInv => Context!NamedIsStored
  BY DEF ShownInv
<1> QED BY <1>1, ShownInit, ShownStep, PTL DEF Context!Spec

(* Unless the model itself writes the summary, the last thing it was told  *)
(* is in the projection or quoted, up to its first 1,000 characters        *)
(* (DeterministicContextSummarizer).                                       *)
THEOREM LatestTextStaysShown ==
  ASSUME Context!ContextAssumption
  PROVE  Context!Spec => []Context!LatestTextIsShown
<1>1. ShownInv => Context!LatestTextIsShown
  BY DEF ShownInv, AskedView, Context!LatestTextIsShown
<1> QED BY <1>1, ShownInit, ShownStep, PTL DEF Context!Spec

(* The same of the Agent of MCAgent, where the projection is one scenario, *)
(* with any values of its constants.                                       *)
THEOREM ViewsStaySound == AgentSpec => []ViewIsSound
<1> DEFINE ViewInv == scenario = "view" => ShownInv
<1>1. Context!ContextAssumption
  BY InstanceAssumption
<1>2. AgentInit => ViewInv
  BY <1>1, ShownInit DEF AgentInit
<1>3. ViewInv /\ [AgentNext]_agentVars => ViewInv'
  <2> SUFFICES ASSUME ViewInv, [AgentNext]_agentVars, scenario' = "view" PROVE ShownInv'
    OBVIOUS
  <2>1. scenario = "view" /\ [Context!Next]_Context!vars
    BY DEF AgentNext, In, ContextStep, agentVars, context, Context!vars
  <2> QED BY <1>1, <2>1, ShownStep
<1>4. ViewInv => ViewIsSound
  BY PairsShownWhole DEF ShownInv, AskedView, Context!LatestTextIsShown, ViewIsSound
<1> QED BY <1>2, <1>3, <1>4, PTL DEF AgentSpec

-----------------------------------------------------------------------------
(* The scenarios of MCAgent.  Each is an instance of a component; the      *)
(* theorems about it are the same instance of the module that holds the    *)
(* proofs, which has the component's definitions under names of its own.   *)
(* WorkspaceProofs is about two components, so an instance of it serves    *)
(* two scenarios.                                                          *)

OrderPages ==
  INSTANCE WorkspaceProofs WITH
    MaxResults <- OrderResults, Validations <- {},
    Profiles <- VerifiedProfiles, Observed <- VerifiedTools, MayShare <- FALSE,
    Checkouts <- PagesCheckouts, Inputs <- {"whole", "part"}, Instructed <- FALSE,
    Within <- {"read", "guard", "observe"}, MaxTotal <- PagesTotal, MaxCalls <- PagesCalls,
    MaxEdits <- FileEdits
WritesWholes ==
  INSTANCE WorkspaceProofs WITH
    MaxResults <- WritesResults, Children <- {},
    Profiles <- FileProfiles, Observed <- FileTools, MayShare <- TRUE,
    Checkouts <- WholesCheckouts, Inputs <- {"whole"}, Instructed <- TRUE,
    Within <- {"read", "guard", "observe"}, MaxTotal <- WholesTotal, MaxCalls <- 1,
    MaxEdits <- FileEdits
KeptTrees ==
  INSTANCE WorktreesProofs WITH
    Sessions <- TreeSessions, Names <- TreeNames, MaxEnters <- KeptEnters
CalmTrees ==
  INSTANCE WorktreesProofs WITH
    Sessions <- TreeSessions, Names <- TreeNames, MaxEnters <- CalmEnters, MaxStops <- 0

(* "pages" is the FileObservations of OrderPages,                          *)
LEMMA PagesProved ==
  /\ Pages!FilesAssumption => OrderPages!FilesAssumption
  /\ Pages!Init => OrderPages!Init
  /\ [Pages!Next]_Pages!vars => [OrderPages!Next]_OrderPages!vars
  /\ OrderPages!TypeOK => Pages!TypeOK
  /\ OrderPages!OnlyRacesAreBlind => Pages!OnlyRacesAreBlind
  /\ OrderPages!RetryIsAccepted => Pages!RetryIsAccepted
  /\ OrderPages!UntrueOnlyAround => Pages!UntrueOnlyAround
  /\ OrderPages!RefusedOnlyPaged => Pages!RefusedOnlyPaged
BY DEF Pages!FilesAssumption, Pages!Texts, Pages!Absent, Pages!None, Pages!CallKinds,
       Pages!Written, Pages!Edited, Pages!file, Pages!agent, Pages!rules, Pages!vars,
       Pages!Idle, Pages!ExactReads, Pages!WriteCalled, Pages!Matches, Pages!Activated,
       Pages!Named, Pages!Discovered, Pages!Reminder, Pages!FirstCall, Pages!Replaced,
       Pages!IsExactUnchangedRead, Pages!GuardError, Pages!Init, Pages!CallTools,
       Pages!Answer, Pages!ReadUnchanged, Pages!ReadText, Pages!ReadStat, Pages!Refuse,
       Pages!Guard, Pages!WriteFile, Pages!EditFile, Pages!ObserveWritten, Pages!Move,
       Pages!Point, Pages!OtherProgram, Pages!Next, Pages!TypeOK, Pages!ReplacedWasKnown,
       Pages!OnlyRacesAreBlind, Pages!Untrue, Pages!Paged, Pages!Shared,
       Pages!UnchangedIsTrue, Pages!UntrueOnlyAround, Pages!RefusedAfterRead,
       Pages!WholeReadSuffices, Pages!RefusedOnlyPaged, Pages!RetryIsAccepted,
       Pages!RefusedIsReviewed, Pages!WritesAreInstructed, Pages!ReviewIsEnough,
       Pages!ReviewIsEnoughInOrder, Pages!Cardinality, Pages!IsFiniteSet,
       OrderPages!FilesAssumption, OrderPages!Texts, OrderPages!Absent, OrderPages!None,
       OrderPages!CallKinds, OrderPages!Written, OrderPages!Edited, OrderPages!file,
       OrderPages!agent, OrderPages!rules, OrderPages!vars, OrderPages!Idle,
       OrderPages!ExactReads, OrderPages!WriteCalled, OrderPages!Matches,
       OrderPages!Activated, OrderPages!Named, OrderPages!Discovered,
       OrderPages!Reminder, OrderPages!FirstCall, OrderPages!Replaced,
       OrderPages!IsExactUnchangedRead, OrderPages!GuardError, OrderPages!Init,
       OrderPages!CallTools, OrderPages!Answer, OrderPages!ReadUnchanged,
       OrderPages!ReadText, OrderPages!ReadStat, OrderPages!Refuse, OrderPages!Guard,
       OrderPages!WriteFile, OrderPages!EditFile, OrderPages!ObserveWritten,
       OrderPages!Move, OrderPages!Point, OrderPages!OtherProgram, OrderPages!Next,
       OrderPages!TypeOK, OrderPages!ReplacedWasKnown, OrderPages!OnlyRacesAreBlind,
       OrderPages!Untrue, OrderPages!Paged, OrderPages!Shared,
       OrderPages!UnchangedIsTrue, OrderPages!UntrueOnlyAround,
       OrderPages!RefusedAfterRead, OrderPages!WholeReadSuffices,
       OrderPages!RefusedOnlyPaged, OrderPages!RetryIsAccepted,
       OrderPages!RefusedIsReviewed, OrderPages!WritesAreInstructed,
       OrderPages!ReviewIsEnough, OrderPages!ReviewIsEnoughInOrder,
       OrderPages!Cardinality, OrderPages!IsFiniteSet

(* "wholes" that of WritesWholes,                                          *)
LEMMA WholesProved ==
  /\ Wholes!FilesAssumption => WritesWholes!FilesAssumption
  /\ Wholes!Init => WritesWholes!Init
  /\ [Wholes!Next]_Wholes!vars => [WritesWholes!Next]_WritesWholes!vars
  /\ WritesWholes!TypeOK => Wholes!TypeOK
  /\ WritesWholes!OnlyRacesAreBlind => Wholes!OnlyRacesAreBlind
  /\ WritesWholes!RetryIsAccepted => Wholes!RetryIsAccepted
  /\ WritesWholes!UntrueOnlyAround => Wholes!UntrueOnlyAround
  /\ WritesWholes!RefusedOnlyPaged => Wholes!RefusedOnlyPaged
  /\ WritesWholes!WritesAreInstructed => Wholes!WritesAreInstructed
  /\ WritesWholes!ReviewIsEnoughInOrder => Wholes!ReviewIsEnoughInOrder
BY DEF Wholes!FilesAssumption, Wholes!Texts, Wholes!Absent, Wholes!None,
       Wholes!CallKinds, Wholes!Written, Wholes!Edited, Wholes!file, Wholes!agent,
       Wholes!rules, Wholes!vars, Wholes!Idle, Wholes!ExactReads, Wholes!WriteCalled,
       Wholes!Matches, Wholes!Activated, Wholes!Named, Wholes!Discovered,
       Wholes!Reminder, Wholes!FirstCall, Wholes!Replaced, Wholes!IsExactUnchangedRead,
       Wholes!GuardError, Wholes!Init, Wholes!CallTools, Wholes!Answer,
       Wholes!ReadUnchanged, Wholes!ReadText, Wholes!ReadStat, Wholes!Refuse,
       Wholes!Guard, Wholes!WriteFile, Wholes!EditFile, Wholes!ObserveWritten,
       Wholes!Move, Wholes!Point, Wholes!OtherProgram, Wholes!Next, Wholes!TypeOK,
       Wholes!ReplacedWasKnown, Wholes!OnlyRacesAreBlind, Wholes!Untrue, Wholes!Paged,
       Wholes!Shared, Wholes!UnchangedIsTrue, Wholes!UntrueOnlyAround,
       Wholes!RefusedAfterRead, Wholes!WholeReadSuffices, Wholes!RefusedOnlyPaged,
       Wholes!RetryIsAccepted, Wholes!RefusedIsReviewed, Wholes!WritesAreInstructed,
       Wholes!ReviewIsEnough, Wholes!ReviewIsEnoughInOrder, Wholes!Cardinality,
       Wholes!IsFiniteSet, WritesWholes!FilesAssumption, WritesWholes!Texts,
       WritesWholes!Absent, WritesWholes!None, WritesWholes!CallKinds,
       WritesWholes!Written, WritesWholes!Edited, WritesWholes!file, WritesWholes!agent,
       WritesWholes!rules, WritesWholes!vars, WritesWholes!Idle, WritesWholes!ExactReads,
       WritesWholes!WriteCalled, WritesWholes!Matches, WritesWholes!Activated,
       WritesWholes!Named, WritesWholes!Discovered, WritesWholes!Reminder,
       WritesWholes!FirstCall, WritesWholes!Replaced, WritesWholes!IsExactUnchangedRead,
       WritesWholes!GuardError, WritesWholes!Init, WritesWholes!CallTools,
       WritesWholes!Answer, WritesWholes!ReadUnchanged, WritesWholes!ReadText,
       WritesWholes!ReadStat, WritesWholes!Refuse, WritesWholes!Guard,
       WritesWholes!WriteFile, WritesWholes!EditFile, WritesWholes!ObserveWritten,
       WritesWholes!Move, WritesWholes!Point, WritesWholes!OtherProgram,
       WritesWholes!Next, WritesWholes!TypeOK, WritesWholes!ReplacedWasKnown,
       WritesWholes!OnlyRacesAreBlind, WritesWholes!Untrue, WritesWholes!Paged,
       WritesWholes!Shared, WritesWholes!UnchangedIsTrue, WritesWholes!UntrueOnlyAround,
       WritesWholes!RefusedAfterRead, WritesWholes!WholeReadSuffices,
       WritesWholes!RefusedOnlyPaged, WritesWholes!RetryIsAccepted,
       WritesWholes!RefusedIsReviewed, WritesWholes!WritesAreInstructed,
       WritesWholes!ReviewIsEnough, WritesWholes!ReviewIsEnoughInOrder,
       WritesWholes!Cardinality, WritesWholes!IsFiniteSet

(* "kept" and                                                              *)
LEMMA KeptProved ==
  /\ Kept!WorktreeAssumption => KeptTrees!WorktreeAssumption
  /\ Kept!Init => KeptTrees!Init
  /\ [Kept!Next]_Kept!vars => [KeptTrees!Next]_KeptTrees!vars
  /\ KeptTrees!TypeOK => Kept!TypeOK
  /\ KeptTrees!WorkIsKept => Kept!WorkIsKept
  /\ KeptTrees!WorktreesAreExclusive => Kept!WorktreesAreExclusive
  /\ KeptTrees!EnteredStaysOwn => Kept!EnteredStaysOwn
BY DEF Kept!None, Kept!WorktreeAssumption, Kept!vars, Kept!NoTree, Kept!NoBranch,
       Kept!Off, Kept!Ready, Kept!Validates, Kept!IsDirty, Kept!Ahead, Kept!Init,
       Kept!Step, Kept!Fail, Kept!Return, Kept!Enter, Kept!GitAdd, Kept!SaveEntered,
       Kept!Keep, Kept!Remove, Kept!Validate, Kept!CheckDirty, Kept!CheckAhead,
       Kept!GitRemove, Kept!GitBranch, Kept!SaveLeft, Kept!Write, Kept!CommitWork,
       Kept!Switch, Kept!Cancel, Kept!Crash, Kept!Leave, Kept!Resume, Kept!Next,
       Kept!TypeOK, Kept!WorkIsKept, Kept!Settled, Kept!WorktreesAreExclusive,
       Kept!EnteredIsOwn, Kept!EnteredStaysOwn, KeptTrees!None,
       KeptTrees!WorktreeAssumption, KeptTrees!vars, KeptTrees!NoTree,
       KeptTrees!NoBranch, KeptTrees!Off, KeptTrees!Ready, KeptTrees!Validates,
       KeptTrees!IsDirty, KeptTrees!Ahead, KeptTrees!Init, KeptTrees!Step,
       KeptTrees!Fail, KeptTrees!Return, KeptTrees!Enter, KeptTrees!GitAdd,
       KeptTrees!SaveEntered, KeptTrees!Keep, KeptTrees!Remove, KeptTrees!Validate,
       KeptTrees!CheckDirty, KeptTrees!CheckAhead, KeptTrees!GitRemove,
       KeptTrees!GitBranch, KeptTrees!SaveLeft, KeptTrees!Write, KeptTrees!CommitWork,
       KeptTrees!Switch, KeptTrees!Cancel, KeptTrees!Crash, KeptTrees!Leave,
       KeptTrees!Resume, KeptTrees!Next, KeptTrees!TypeOK, KeptTrees!WorkIsKept,
       KeptTrees!Settled, KeptTrees!WorktreesAreExclusive, KeptTrees!EnteredIsOwn,
       KeptTrees!EnteredStaysOwn

(* "calm" are the Worktrees of KeptTrees and CalmTrees,                    *)
LEMMA CalmProved ==
  /\ Calm!WorktreeAssumption => CalmTrees!WorktreeAssumption
  /\ Calm!Init => CalmTrees!Init
  /\ [Calm!Next]_Calm!vars => [CalmTrees!Next]_CalmTrees!vars
  /\ CalmTrees!WorktreesAreExclusive => Calm!WorktreesAreExclusive
  /\ CalmTrees!EnteredStaysOwn => Calm!EnteredStaysOwn
BY DEF Calm!None, Calm!WorktreeAssumption, Calm!vars, Calm!NoTree, Calm!NoBranch,
       Calm!Off, Calm!Ready, Calm!Validates, Calm!IsDirty, Calm!Ahead, Calm!Init,
       Calm!Step, Calm!Fail, Calm!Return, Calm!Enter, Calm!GitAdd, Calm!SaveEntered,
       Calm!Keep, Calm!Remove, Calm!Validate, Calm!CheckDirty, Calm!CheckAhead,
       Calm!GitRemove, Calm!GitBranch, Calm!SaveLeft, Calm!Write, Calm!CommitWork,
       Calm!Switch, Calm!Cancel, Calm!Crash, Calm!Leave, Calm!Resume, Calm!Next,
       Calm!TypeOK, Calm!WorkIsKept, Calm!Settled, Calm!WorktreesAreExclusive,
       Calm!EnteredIsOwn, Calm!EnteredStaysOwn, CalmTrees!None,
       CalmTrees!WorktreeAssumption, CalmTrees!vars, CalmTrees!NoTree,
       CalmTrees!NoBranch, CalmTrees!Off, CalmTrees!Ready, CalmTrees!Validates,
       CalmTrees!IsDirty, CalmTrees!Ahead, CalmTrees!Init, CalmTrees!Step,
       CalmTrees!Fail, CalmTrees!Return, CalmTrees!Enter, CalmTrees!GitAdd,
       CalmTrees!SaveEntered, CalmTrees!Keep, CalmTrees!Remove, CalmTrees!Validate,
       CalmTrees!CheckDirty, CalmTrees!CheckAhead, CalmTrees!GitRemove,
       CalmTrees!GitBranch, CalmTrees!SaveLeft, CalmTrees!Write, CalmTrees!CommitWork,
       CalmTrees!Switch, CalmTrees!Cancel, CalmTrees!Crash, CalmTrees!Leave,
       CalmTrees!Resume, CalmTrees!Next, CalmTrees!TypeOK, CalmTrees!WorkIsKept,
       CalmTrees!Settled, CalmTrees!WorktreesAreExclusive, CalmTrees!EnteredIsOwn,
       CalmTrees!EnteredStaysOwn

(* "order" has the gate and                                                *)
LEMMA OrderAccepts == \A needs : Order!Accepts(needs) <=> OrderPages!Evidence!Accepts(needs)
BY DEF Order!None, Order!Latest, Order!Entries, Order!Primary, Order!Report,
       Order!PartialWaivers, Order!Independent, Order!Snapshot, Order!Draft, Order!TestMissing,
       Order!VerificationMissing, Order!SnapshotMissing, Order!DraftMissing, Order!LastIndex,
       Order!LastWrite, Order!ValidationMissing, Order!Missing, Order!Accepts,
       OrderPages!Evidence!None, OrderPages!Evidence!Latest, OrderPages!Evidence!Entries,
       OrderPages!Evidence!Primary, OrderPages!Evidence!Report,
       OrderPages!Evidence!PartialWaivers, OrderPages!Evidence!Independent,
       OrderPages!Evidence!Snapshot, OrderPages!Evidence!Draft, OrderPages!Evidence!TestMissing,
       OrderPages!Evidence!VerificationMissing, OrderPages!Evidence!SnapshotMissing,
       OrderPages!Evidence!DraftMissing, OrderPages!Evidence!LastIndex,
       OrderPages!Evidence!LastWrite, OrderPages!Evidence!ValidationMissing,
       OrderPages!Evidence!Missing, OrderPages!Evidence!Accepts

(* the evidence of OrderPages,                                             *)
LEMMA OrderProved ==
  /\ Order!EvidenceAssumption => OrderPages!Evidence!EvidenceAssumption
  /\ Order!Init => OrderPages!Evidence!Init
  /\ [Order!Next]_Order!vars => [OrderPages!Evidence!Next]_OrderPages!Evidence!vars
  /\ OrderPages!Evidence!AcceptedInOrder => Order!AcceptedInOrder
  /\ OrderPages!Evidence!StrictSideDecides => Order!StrictSideDecides
  /\ OrderPages!Evidence!ChecklistSuffices => Order!ChecklistSuffices
<1>1. /\ Order!EvidenceAssumption => OrderPages!Evidence!EvidenceAssumption
      /\ Order!Init => OrderPages!Evidence!Init
      /\ [Order!Next]_Order!vars => [OrderPages!Evidence!Next]_OrderPages!Evidence!vars
  BY DEF Order!EvidenceAssumption, Order!EvidenceKind, Order!Requirements, Order!Commands,
         Order!vars, Order!Entries, Order!Init, Order!Record, Order!Plain, Order!Write,
         Order!Bash, Order!ChangeOnly, Order!Waive, Order!WaivePartial, Order!Verify,
         Order!Diff, Order!SubmitPlan, Order!SubmitDraft, Order!Next,
         OrderPages!Evidence!EvidenceAssumption, OrderPages!Evidence!EvidenceKind,
         OrderPages!Evidence!Requirements, OrderPages!Evidence!Commands,
         OrderPages!Evidence!vars, OrderPages!Evidence!Entries, OrderPages!Evidence!Init,
         OrderPages!Evidence!Record, OrderPages!Evidence!Plain, OrderPages!Evidence!Write,
         OrderPages!Evidence!Bash, OrderPages!Evidence!ChangeOnly, OrderPages!Evidence!Waive,
         OrderPages!Evidence!WaivePartial, OrderPages!Evidence!Verify, OrderPages!Evidence!Diff,
         OrderPages!Evidence!SubmitPlan, OrderPages!Evidence!SubmitDraft,
         OrderPages!Evidence!Next
<1>2. /\ Order!Merged = OrderPages!Evidence!Merged
      /\ \A p, tools : Order!Holds(p, tools) <=> OrderPages!Evidence!Holds(p, tools)
      /\ \A a, b : /\ Order!Tighten(a, b) = OrderPages!Evidence!Tighten(a, b)
                   /\ Order!Strict(a) = OrderPages!Evidence!Strict(a)
  BY DEF Order!Merged, Order!Holds, Order!Tighten, Order!Strict, OrderPages!Evidence!Merged,
         OrderPages!Evidence!Holds, OrderPages!Evidence!Tighten, OrderPages!Evidence!Strict
<1>3. OrderPages!Evidence!AcceptedInOrder => Order!AcceptedInOrder
  BY <1>2, OrderAccepts, Zenon
  DEF Order!AcceptedInOrder, OrderPages!Evidence!AcceptedInOrder, Order!Holds,
      OrderPages!Evidence!Holds
<1>4. OrderPages!Evidence!StrictSideDecides => Order!StrictSideDecides
  BY <1>2, OrderAccepts DEF Order!StrictSideDecides, OrderPages!Evidence!StrictSideDecides
<1>5. OrderPages!Evidence!ChecklistSuffices => Order!ChecklistSuffices
  BY <1>2, OrderAccepts DEF Order!ChecklistSuffices, OrderPages!Evidence!ChecklistSuffices
<1> QED BY <1>1, <1>3, <1>4, <1>5

(* and "writes" the evidence of WritesWholes.                              *)
LEMMA WritesProved ==
  /\ Writes!EvidenceAssumption => WritesWholes!Evidence!EvidenceAssumption
  /\ Writes!Init => WritesWholes!Evidence!Init
  /\ [Writes!Next]_Writes!vars => [WritesWholes!Evidence!Next]_WritesWholes!Evidence!vars
  /\ WritesWholes!Evidence!ValidatedSinceWrite => Writes!ValidatedSinceWrite
BY DEF Writes!EvidenceAssumption, Writes!Commands, Writes!vars, Writes!None, Writes!Latest,
       Writes!Entries, Writes!Primary, Writes!Report, Writes!PartialWaivers, Writes!Independent,
       Writes!Snapshot, Writes!Draft, Writes!TestMissing, Writes!VerificationMissing,
       Writes!SnapshotMissing, Writes!DraftMissing, Writes!LastIndex, Writes!LastWrite,
       Writes!ValidationMissing, Writes!Missing, Writes!Accepts, Writes!Init, Writes!Record,
       Writes!Plain, Writes!Write, Writes!Bash, Writes!ChangeOnly, Writes!Waive,
       Writes!WaivePartial, Writes!Verify, Writes!Diff, Writes!SubmitPlan, Writes!SubmitDraft,
       Writes!Next, Writes!Merged, Writes!Holds, Writes!AcceptedInOrder,
       Writes!StrictSideDecides, Writes!ValidatedSinceWrite, Writes!ChecklistSuffices,
       Writes!EvidenceKind, Writes!Requirements, Writes!Strict, Writes!Tighten,
       WritesWholes!Evidence!EvidenceAssumption, WritesWholes!Evidence!Commands,
       WritesWholes!Evidence!vars, WritesWholes!Evidence!None, WritesWholes!Evidence!Latest,
       WritesWholes!Evidence!Entries, WritesWholes!Evidence!Primary,
       WritesWholes!Evidence!Report, WritesWholes!Evidence!PartialWaivers,
       WritesWholes!Evidence!Independent, WritesWholes!Evidence!Snapshot,
       WritesWholes!Evidence!Draft, WritesWholes!Evidence!TestMissing,
       WritesWholes!Evidence!VerificationMissing, WritesWholes!Evidence!SnapshotMissing,
       WritesWholes!Evidence!DraftMissing, WritesWholes!Evidence!LastIndex,
       WritesWholes!Evidence!LastWrite, WritesWholes!Evidence!ValidationMissing,
       WritesWholes!Evidence!Missing, WritesWholes!Evidence!Accepts, WritesWholes!Evidence!Init,
       WritesWholes!Evidence!Record, WritesWholes!Evidence!Plain, WritesWholes!Evidence!Write,
       WritesWholes!Evidence!Bash, WritesWholes!Evidence!ChangeOnly,
       WritesWholes!Evidence!Waive, WritesWholes!Evidence!WaivePartial,
       WritesWholes!Evidence!Verify, WritesWholes!Evidence!Diff,
       WritesWholes!Evidence!SubmitPlan, WritesWholes!Evidence!SubmitDraft,
       WritesWholes!Evidence!Next, WritesWholes!Evidence!Merged, WritesWholes!Evidence!Holds,
       WritesWholes!Evidence!AcceptedInOrder, WritesWholes!Evidence!StrictSideDecides,
       WritesWholes!Evidence!ValidatedSinceWrite, WritesWholes!Evidence!ChecklistSuffices,
       WritesWholes!Evidence!EvidenceKind, WritesWholes!Evidence!Requirements,
       WritesWholes!Evidence!Strict, WritesWholes!Evidence!Tighten


(* A behaviour of MCAgent is one of the instance, or of another scenario.  *)
LEMMA OrderRun ==
  AgentSpec => OrderPages!Evidence!Spec \/ [](scenario # "order")
<1>1. AgentInit => OrderPages!Evidence!Init \/ scenario # "order"
  BY OrderProved DEF AgentInit
<1>2. [AgentNext]_agentVars => (scenario # "order" <=> (scenario # "order")')
  BY DEF AgentNext, In, agentVars
<1>3. [AgentNext]_agentVars =>
        [OrderPages!Evidence!Next]_OrderPages!Evidence!vars \/ scenario # "order"
  <2> SUFFICES ASSUME [AgentNext]_agentVars, scenario = "order" PROVE [Order!Next]_Order!vars
    BY OrderProved
  <2> QED BY DEF AgentNext, In, EvidenceStep, agentVars, evidence, Order!vars
<1> QED BY <1>1, <1>2, <1>3, PTL DEF AgentSpec, OrderPages!Evidence!Spec

(* A behaviour of MCAgent is one of the instance, or of another scenario.  *)
LEMMA WritesRun ==
  AgentSpec => WritesWholes!Evidence!Spec \/ [](scenario # "writes")
<1>1. AgentInit => WritesWholes!Evidence!Init \/ scenario # "writes"
  BY WritesProved DEF AgentInit
<1>2. [AgentNext]_agentVars => (scenario # "writes" <=> (scenario # "writes")')
  BY DEF AgentNext, In, agentVars
<1>3. [AgentNext]_agentVars =>
        [WritesWholes!Evidence!Next]_WritesWholes!Evidence!vars \/ scenario # "writes"
  <2> SUFFICES ASSUME [AgentNext]_agentVars, scenario = "writes" PROVE [Writes!Next]_Writes!vars
    BY WritesProved
  <2> QED BY DEF AgentNext, In, EvidenceStep, agentVars, evidence, Writes!vars
<1> QED BY <1>1, <1>2, <1>3, PTL DEF AgentSpec, WritesWholes!Evidence!Spec

(* A behaviour of MCAgent is one of the instance, or of another scenario.  *)
LEMMA PagesRun ==
  AgentSpec => OrderPages!Spec \/ [](scenario # "pages")
<1>1. AgentInit => OrderPages!Init \/ scenario # "pages"
  BY PagesProved DEF AgentInit
<1>2. [AgentNext]_agentVars => (scenario # "pages" <=> (scenario # "pages")')
  BY DEF AgentNext, In, agentVars
<1>3. [AgentNext]_agentVars => [OrderPages!Next]_OrderPages!vars \/ scenario # "pages"
  <2> SUFFICES ASSUME [AgentNext]_agentVars, scenario = "pages" PROVE [Pages!Next]_Pages!vars
    BY PagesProved
  <2> QED BY DEF AgentNext, In, ObservedStep, agentVars, observed, Pages!vars, Pages!file,
                 Pages!agent, Pages!rules
<1> QED BY <1>1, <1>2, <1>3, PTL DEF AgentSpec, OrderPages!Spec

(* A behaviour of MCAgent is one of the instance, or of another scenario.  *)
LEMMA WholesRun ==
  AgentSpec => WritesWholes!Spec \/ [](scenario # "wholes")
<1>1. AgentInit => WritesWholes!Init \/ scenario # "wholes"
  BY WholesProved DEF AgentInit
<1>2. [AgentNext]_agentVars => (scenario # "wholes" <=> (scenario # "wholes")')
  BY DEF AgentNext, In, agentVars
<1>3. [AgentNext]_agentVars => [WritesWholes!Next]_WritesWholes!vars \/ scenario # "wholes"
  <2> SUFFICES ASSUME [AgentNext]_agentVars, scenario = "wholes" PROVE [Wholes!Next]_Wholes!vars
    BY WholesProved
  <2> QED BY DEF AgentNext, In, ObservedStep, agentVars, observed, Wholes!vars, Wholes!file,
                 Wholes!agent, Wholes!rules
<1> QED BY <1>1, <1>2, <1>3, PTL DEF AgentSpec, WritesWholes!Spec

(* A behaviour of MCAgent is one of the instance, or of another scenario.  *)
LEMMA KeptRun ==
  AgentSpec => KeptTrees!Spec \/ [](scenario # "kept")
<1>1. AgentInit => KeptTrees!Init \/ scenario # "kept"
  BY KeptProved DEF AgentInit
<1>2. [AgentNext]_agentVars => (scenario # "kept" <=> (scenario # "kept")')
  BY DEF AgentNext, In, agentVars
<1>3. [AgentNext]_agentVars => [KeptTrees!Next]_KeptTrees!vars \/ scenario # "kept"
  <2> SUFFICES ASSUME [AgentNext]_agentVars, scenario = "kept" PROVE [Kept!Next]_Kept!vars
    BY KeptProved
  <2> QED BY DEF AgentNext, In, WorktreeStep, agentVars, worktree, Kept!vars
<1> QED BY <1>1, <1>2, <1>3, PTL DEF AgentSpec, KeptTrees!Spec

(* A behaviour of MCAgent is one of the instance, or of another scenario.  *)
LEMMA CalmRun ==
  AgentSpec => CalmTrees!Spec \/ [](scenario # "calm")
<1>1. AgentInit => CalmTrees!Init \/ scenario # "calm"
  BY CalmProved DEF AgentInit
<1>2. [AgentNext]_agentVars => (scenario # "calm" <=> (scenario # "calm")')
  BY DEF AgentNext, In, agentVars
<1>3. [AgentNext]_agentVars => [CalmTrees!Next]_CalmTrees!vars \/ scenario # "calm"
  <2> SUFFICES ASSUME [AgentNext]_agentVars, scenario = "calm" PROVE [Calm!Next]_Calm!vars
    BY CalmProved
  <2> QED BY DEF AgentNext, In, WorktreeStep, agentVars, worktree, Calm!vars
<1> QED BY <1>1, <1>2, <1>3, PTL DEF AgentSpec, CalmTrees!Spec

(* No uncommitted change and no commit of a worktree is lost unless a      *)
(* discard was asked for, whoever is cancelled or dies during a removal;   *)
(* and until somebody is or does, a worktree is in one Session, the one    *)
(* that made it (tools/worktree.py, workspaces/git_worktree.py).  For any  *)
(* Sessions, names and bounds.                                             *)
THEOREM WorkStaysKept == AgentSpec => []WorkIsKept
<1>1. /\ KeptTrees!Spec => []KeptTrees!WorkIsKept
      /\ KeptTrees!Spec => []KeptTrees!WorktreesAreExclusive
      /\ KeptTrees!Spec => []KeptTrees!EnteredStaysOwn
  BY KeptTrees!NoWorkIsLost, KeptTrees!SessionsAreApart, KeptTrees!SessionsAreAtHome
<1>2. /\ CalmTrees!Spec => []CalmTrees!WorktreesAreExclusive
      /\ CalmTrees!Spec => []CalmTrees!EnteredStaysOwn
  BY CalmTrees!SessionsAreApart, CalmTrees!SessionsAreAtHome
<1>3. /\ \/ scenario # "kept"
         \/ /\ KeptTrees!WorkIsKept /\ KeptTrees!WorktreesAreExclusive
            /\ KeptTrees!EnteredStaysOwn
      /\ scenario # "calm" \/ (CalmTrees!WorktreesAreExclusive /\ CalmTrees!EnteredStaysOwn)
      => WorkIsKept
  BY KeptProved, CalmProved DEF WorkIsKept
<1> QED BY <1>1, <1>2, <1>3, KeptRun, CalmRun, PTL

(* A write replaces a text the Agent does not know only after another      *)
(* program has written between the guard of a write and its observation;   *)
(* and a refused write passes after a whole read (_existing_file_guard of  *)
(* tools/filesystem.py).  For any checkouts, calls and bounds.             *)
THEOREM KnownTextsAreReplaced == AgentSpec => []ReplacedWasKnown
<1>1. OrderPages!FilesAssumption /\ WritesWholes!FilesAssumption
  BY InstanceAssumption, PagesProved, WholesProved
<1>2. /\ OrderPages!Spec => []OrderPages!OnlyRacesAreBlind
      /\ OrderPages!Spec => []OrderPages!RetryIsAccepted
  BY <1>1, OrderPages!WritesReplaceTheKnown, OrderPages!RetriesAreAccepted
<1>3. /\ WritesWholes!Spec => []WritesWholes!OnlyRacesAreBlind
      /\ WritesWholes!Spec => []WritesWholes!RetryIsAccepted
  BY <1>1, WritesWholes!WritesReplaceTheKnown, WritesWholes!RetriesAreAccepted
<1>4. /\ scenario # "pages" \/ (OrderPages!OnlyRacesAreBlind /\ OrderPages!RetryIsAccepted)
      /\ scenario # "wholes" \/ (WritesWholes!OnlyRacesAreBlind /\ WritesWholes!RetryIsAccepted)
      => ReplacedWasKnown
  BY PagesProved, WholesProved DEF ReplacedWasKnown
<1> QED BY <1>2, <1>3, <1>4, PagesRun, WholesRun, PTL

(* "Unchanged" is true of the text the model has seen, and a whole read is *)
(* enough to write, but for what pages and several calls in a message      *)
(* spoil; the first call of a message writes under instructions its        *)
(* request carried, and one refused for them passes next where names sort  *)
(* as depths.  Another program may write within any tool.  For any         *)
(* checkouts, calls and bounds.                                            *)
THEOREM WholeReadsAlwaysSuffice == AgentSpec => []ReadsSuffice
<1>1. OrderPages!FilesAssumption /\ WritesWholes!FilesAssumption
  BY InstanceAssumption, PagesProved, WholesProved
<1>2. /\ OrderPages!Spec => []OrderPages!UntrueOnlyAround
      /\ OrderPages!Spec => []OrderPages!RefusedOnlyPaged
  BY <1>1, OrderPages!UnchangedStaysTrue, OrderPages!WholeReadsSuffice
<1>3. /\ WritesWholes!Spec => []WritesWholes!UntrueOnlyAround
      /\ WritesWholes!Spec => []WritesWholes!RefusedOnlyPaged
      /\ WritesWholes!Spec => []WritesWholes!WritesAreInstructed
      /\ WritesWholes!Spec => []WritesWholes!ReviewIsEnoughInOrder
  BY <1>1, WritesWholes!UnchangedStaysTrue, WritesWholes!WholeReadsSuffice,
     WritesWholes!WritesFollowInstructions, WritesWholes!ReviewsAreEnough
<1>4. /\ scenario # "pages" \/ (OrderPages!UntrueOnlyAround /\ OrderPages!RefusedOnlyPaged)
      /\ \/ scenario # "wholes"
         \/ /\ WritesWholes!UntrueOnlyAround /\ WritesWholes!RefusedOnlyPaged
            /\ WritesWholes!WritesAreInstructed /\ WritesWholes!ReviewIsEnoughInOrder
      => ReadsSuffice
  BY PagesProved, WholesProved DEF ReadsSuffice
<1> QED BY <1>2, <1>3, <1>4, PagesRun, WholesRun, PTL

(* What CompletionEvaluator accepts rests on a test, a report, a snapshot  *)
(* and a draft in this order, each of the workspace as it is; the strict   *)
(* side of a merge decides; the steps the model is told to take are        *)
(* enough; and every configured command succeeded after the last write.    *)
(* For any contents, child Sessions and commands, and any number of        *)
(* results.                                                                *)
THEOREM EvidenceStaysInOrder == AgentSpec => []EvidenceInOrder
<1>1. OrderPages!Evidence!EvidenceAssumption /\ WritesWholes!Evidence!EvidenceAssumption
  BY InstanceAssumption, OrderProved, WritesProved
<1>2. OrderPages!Evidence!Spec => []OrderPages!Evidence!AcceptedInOrder
  BY <1>1, OrderPages!AcceptedIsInOrder
<1>3. OrderPages!Evidence!Spec => []OrderPages!Evidence!StrictSideDecides
  BY <1>1, OrderPages!StrictSideAlwaysDecides
<1>4. OrderPages!Evidence!Spec => []OrderPages!Evidence!ChecklistSuffices
  BY <1>1, OrderPages!ChecklistAlwaysSuffices
<1>5. WritesWholes!Evidence!Spec => []WritesWholes!Evidence!ValidatedSinceWrite
  BY <1>1, WritesWholes!ValidatedAfterWrites
<1>6. /\ scenario # "order" \/ (/\ OrderPages!Evidence!AcceptedInOrder
                               /\ OrderPages!Evidence!StrictSideDecides
                               /\ OrderPages!Evidence!ChecklistSuffices)
      /\ scenario # "writes" \/ WritesWholes!Evidence!ValidatedSinceWrite
      => EvidenceInOrder
  BY OrderProved, WritesProved DEF EvidenceInOrder
<1> QED BY <1>2, <1>3, <1>4, <1>5, <1>6, OrderRun, WritesRun, PTL

(* The variables of what an Agent shows, observes, asks and works in keep  *)
(* their shape (AgentRunState of runtime/state.py and the transcript).     *)
THEOREM AgentIsTyped == AgentSpec => []AgentTypeOK
<1>1. OrderPages!FilesAssumption /\ WritesWholes!FilesAssumption
  BY InstanceAssumption, PagesProved, WholesProved
<1>2. OrderPages!Spec => []OrderPages!TypeOK
  BY <1>1, OrderPages!FilesAreTyped
<1>3. WritesWholes!Spec => []WritesWholes!TypeOK
  BY <1>1, WritesWholes!FilesAreTyped
<1>4. KeptTrees!Spec => []KeptTrees!TypeOK
  BY KeptTrees!WorktreesAreTyped
<1>5. Context!Spec => []Context!TypeOK
  BY InstanceAssumption, ViewIsTyped
<1>6. AgentSpec => Context!Spec \/ [](scenario # "view")
  <2>1. AgentInit => Context!Init \/ scenario # "view"
    BY DEF AgentInit
  <2>2. [AgentNext]_agentVars => (scenario # "view" <=> (scenario # "view")')
    BY DEF AgentNext, In, agentVars
  <2>3. [AgentNext]_agentVars => [Context!Next]_Context!vars \/ scenario # "view"
    BY DEF AgentNext, In, ContextStep, agentVars, context, Context!vars
  <2> QED BY <2>1, <2>2, <2>3, PTL DEF AgentSpec, Context!Spec
<1>7. AgentSpec => Spec \/ [](scenario # "permissions")
  <2>1. AgentInit => Init \/ scenario # "permissions"
    BY DEF AgentInit
  <2>2. [AgentNext]_agentVars => (scenario # "permissions" <=> (scenario # "permissions")')
    BY DEF AgentNext, In, agentVars
  <2>3. [AgentNext]_agentVars => [Next]_vars \/ scenario # "permissions"
    BY DEF AgentNext, In, PermissionStep, agentVars, vars
  <2> QED BY <2>1, <2>2, <2>3, PTL DEF AgentSpec, Spec
<1>8. /\ scenario # "view" \/ Context!TypeOK
      /\ scenario # "pages" \/ OrderPages!TypeOK
      /\ scenario # "wholes" \/ WritesWholes!TypeOK
      /\ scenario # "permissions" \/ TypeOK
      /\ scenario # "kept" \/ KeptTrees!TypeOK
      => AgentTypeOK
  BY PagesProved, WholesProved, KeptProved DEF AgentTypeOK
<1> QED BY <1>2, <1>3, <1>4, <1>5, <1>6, <1>7, <1>8, PagesRun, WholesRun, KeptRun,
           PermissionsAreTyped, PTL
=============================================================================

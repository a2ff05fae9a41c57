----------------------------- MODULE MCQueryLoop -----------------------------
(***************************************************************************)
(* Two instances of QueryLoop in one run of TLC.  "limits" has the         *)
(* constants of the configuration; "tools" has few rounds and no limits to *)
(* reach, but answers with several calls of every kind.                    *)
(***************************************************************************)
EXTENDS QueryLoop

VARIABLE scenario

Tools ==
  INSTANCE QueryLoop WITH
    MaxCalls <- 2, Kinds <- CallKind, Reasons <- {}, MaxRounds <- 1, MaxAttempts <- 1,
    MaxCompactions <- 0, Escalation <- FALSE

ASSUME InstanceAssumption == LoopAssumption /\ Tools!LoopAssumption

In(name) == scenario = name /\ UNCHANGED scenario
LoopInit == Init /\ scenario \in {"limits", "tools"}
LoopNext == (In("limits") /\ Next) \/ (In("tools") /\ Tools!Next)

\* A run goes on by itself in both.
LoopSpec ==
  /\ LoopInit /\ [][LoopNext]_<<vars, scenario>>
  /\ WF_vars(In("limits") /\ Advance) /\ WF_vars(In("tools") /\ Tools!Advance)
=============================================================================

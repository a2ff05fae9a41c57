------------------------------- MODULE MCAgent -------------------------------
(***************************************************************************)
(* Instances of what an Agent does within a run, in one run of TLC: what   *)
(* it accepts as evidence (CompletionEvidence), what it shows the model    *)
(* (ContextProjection), and its tools (FileObservations, ToolPermissions,  *)
(* Worktrees).  A behaviour is one scenario from its start to its end, so  *)
(* the states of the scenarios add up and do not multiply; the parts a     *)
(* scenario does not use do not move.                                      *)
(***************************************************************************)
EXTENDS ToolPermissions, CompletionProfiles

\* ToolPermissions has its own; these are of CompletionEvidence,
CONSTANTS
  OrderResults, WritesResults, Contents, Children, Validations,
  \* ContextProjection,
  Sizes, TextSizes, PageLimit, MaxChars, KeepRecent, AutoCompact, ContextCalls, MaxTexts, MaxDeaths,
  \* FileObservations,
  PagesCheckouts, PagesTotal, PagesCalls, WholesCheckouts, WholesTotal, FileEdits,
  \* and Worktrees
  TreeSessions, TreeNames, KeptEnters, CalmEnters, MaxWork, MaxStops

VARIABLES
  scenario,
  \* ToolPermissions has its own; these are of CompletionEvidence,
  files, log,
  \* ContextProjection,
  called, shown, whole, partial, turn, view, force, failed, deaths,
  \* FileObservations,
  disk, here, clock, edits, obs, batch, transcript, todo, messages, at, known, blind,
  raced, nested, active, reviewed, unread,
  \* and Worktrees
  tree, branch, merged, saved, proc, kept, enters, work, stops

evidence == <<files, log>>
context == <<called, shown, whole, partial, turn, view, force, failed, deaths>>
observed == <<disk, here, clock, edits, obs, batch, transcript, todo, messages, at, known, blind,
              raced, nested, active, reviewed, unread>>
worktree == <<tree, branch, merged, saved, proc, kept, enters, work, stops>>
agentVars == <<scenario, evidence, context, observed, vars, worktree>>

-----------------------------------------------------------------------------
(* The instances.                                                          *)

\* "order": tests, waivers, reports, snapshots and drafts.  "writes": validations
\* and writes.
Order ==
  INSTANCE CompletionEvidence WITH
    MaxResults <- OrderResults, Validations <- {},
    Profiles <- VerifiedProfiles, Observed <- VerifiedTools, MayShare <- FALSE
Writes ==
  INSTANCE CompletionEvidence WITH
    MaxResults <- WritesResults, Children <- {},
    Profiles <- FileProfiles, Observed <- FileTools, MayShare <- TRUE

\* "view": results of two sizes, and the budgets they press against.
Context ==
  INSTANCE ContextProjection WITH
    log <- shown, call <- called, proc <- turn, MaxCalls <- ContextCalls

\* "pages": whole and page reads, several calls in a message.  "wholes": whole reads
\* in two checkouts, under instructions, one call in a message.  In both another
\* program may write within every tool.
Pages ==
  INSTANCE FileObservations WITH
    Checkouts <- PagesCheckouts, Inputs <- {"whole", "part"}, Instructed <- FALSE,
    Within <- {"read", "guard", "observe"}, MaxTotal <- PagesTotal, MaxCalls <- PagesCalls,
    MaxEdits <- FileEdits
Wholes ==
  INSTANCE FileObservations WITH
    Checkouts <- WholesCheckouts, Inputs <- {"whole"}, Instructed <- TRUE,
    Within <- {"read", "guard", "observe"}, MaxTotal <- WholesTotal, MaxCalls <- 1,
    MaxEdits <- FileEdits

\* "permissions": ToolPermissions itself.

\* "kept": with cancellations and deaths.  "calm": without, but with more calls.
Kept ==
  INSTANCE Worktrees WITH
    Sessions <- TreeSessions, Names <- TreeNames, MaxEnters <- KeptEnters
Calm ==
  INSTANCE Worktrees WITH
    Sessions <- TreeSessions, Names <- TreeNames, MaxEnters <- CalmEnters, MaxStops <- 0

ASSUME InstanceAssumption ==
  /\ Context!ContextAssumption /\ Pages!FilesAssumption /\ Wholes!FilesAssumption
  /\ Order!EvidenceAssumption /\ Writes!EvidenceAssumption
  /\ Kept!WorktreeAssumption /\ Calm!WorktreeAssumption

-----------------------------------------------------------------------------
(* Where ToolPermissions does not take part it has just started; the       *)
(* others have 0 in their variables.                                       *)

EvidenceOff == files = 0 /\ log = 0
ContextOff ==
  /\ called = 0 /\ shown = 0 /\ whole = 0 /\ partial = 0 /\ turn = 0 /\ view = 0 /\ force = 0
  /\ failed = 0 /\ deaths = 0
ObservedOff ==
  /\ disk = 0 /\ here = 0 /\ clock = 0 /\ edits = 0 /\ obs = 0 /\ batch = 0 /\ transcript = 0
  /\ todo = 0 /\ messages = 0 /\ at = 0 /\ known = 0 /\ blind = 0 /\ raced = 0 /\ nested = 0 /\ active = 0
  /\ reviewed = 0 /\ unread = 0
PermissionOff == Init /\ policy = "user"
WorktreeOff ==
  /\ tree = 0 /\ branch = 0 /\ merged = 0 /\ saved = 0 /\ proc = 0 /\ kept = 0 /\ enters = 0
  /\ work = 0 /\ stops = 0

AgentInit ==
  \/ /\ \/ scenario = "order" /\ Order!Init
        \/ scenario = "writes" /\ Writes!Init
     /\ ContextOff /\ ObservedOff /\ PermissionOff /\ WorktreeOff
  \/ /\ scenario = "view" /\ Context!Init
     /\ EvidenceOff /\ ObservedOff /\ PermissionOff /\ WorktreeOff
  \/ /\ \/ scenario = "pages" /\ Pages!Init
        \/ scenario = "wholes" /\ Wholes!Init
     /\ EvidenceOff /\ ContextOff /\ PermissionOff /\ WorktreeOff
  \/ /\ scenario = "permissions" /\ Init
     /\ EvidenceOff /\ ContextOff /\ ObservedOff /\ WorktreeOff
  \/ /\ \/ scenario = "kept" /\ Kept!Init
        \/ scenario = "calm" /\ Calm!Init
     /\ EvidenceOff /\ ContextOff /\ ObservedOff /\ PermissionOff

In(name) == scenario = name /\ UNCHANGED scenario
EvidenceStep(step) ==
  step /\ UNCHANGED <<context, observed, vars, worktree>>
ContextStep(step) ==
  step /\ UNCHANGED <<evidence, observed, vars, worktree>>
ObservedStep(step) ==
  step /\ UNCHANGED <<evidence, context, vars, worktree>>
PermissionStep(step) ==
  step /\ UNCHANGED <<evidence, context, observed, worktree>>
WorktreeStep(step) ==
  step /\ UNCHANGED <<evidence, context, observed, vars>>

AgentNext ==
  \/ In("order") /\ EvidenceStep(Order!Next)
  \/ In("writes") /\ EvidenceStep(Writes!Next)
  \/ In("view") /\ ContextStep(Context!Next)
  \/ In("pages") /\ ObservedStep(Pages!Next)
  \/ In("wholes") /\ ObservedStep(Wholes!Next)
  \/ In("permissions") /\ PermissionStep(Next)
  \/ In("kept") /\ WorktreeStep(Kept!Next)
  \/ In("calm") /\ WorktreeStep(Calm!Next)

AgentSpec == AgentInit /\ [][AgentNext]_agentVars

-----------------------------------------------------------------------------
(* Properties: ChangesWereAllowed and PlanJobChangesNothing of             *)
(* ToolPermissions, and these.                                             *)

\* The variables of every part keep their shape.
AgentTypeOK ==
  /\ scenario = "view" => Context!TypeOK
  /\ scenario = "pages" => Pages!TypeOK
  /\ scenario = "wholes" => Wholes!TypeOK
  /\ scenario = "permissions" => TypeOK
  /\ scenario = "kept" => Kept!TypeOK

\* What is accepted rests on a test, a report, a snapshot and a draft in this order,
\* each of the workspace as it is; the strict side of a merge decides; the steps the
\* model is told to take are enough; and every configured command succeeded after the
\* last write.
EvidenceInOrder ==
  /\ scenario = "order" => Order!AcceptedInOrder /\ Order!StrictSideDecides /\ Order!ChecklistSuffices
  /\ scenario = "writes" => Writes!ValidatedSinceWrite

\* A view has its calls with their results, names only files that are there, whole,
\* and, unless the model has written the summary, shows the last text of the user or
\* the first 1,000 characters of it.
ViewIsSound ==
  scenario = "view" => Context!PairsAreWhole /\ Context!NamedIsStored /\ Context!LatestTextIsShown

\* A result the model could read back stays readable in the projections after it, as
\* long as its message is not summarised.
ReadableStays ==
  [][scenario = "view" => \A c \in view.named :
       (\E i \in view'.cut + 1 .. view'.of : c \in shown'[i].results) => c \in view'.named]_agentVars

\* A write replaces a text the Agent does not know only after another program has
\* written between the guard of a write and the observation after it; and a write that
\* was refused for what is known of the file passes after a whole read.
ReplacedWasKnown ==
  /\ scenario = "pages" => Pages!OnlyRacesAreBlind /\ Pages!RetryIsAccepted
  /\ scenario = "wholes" => Wholes!OnlyRacesAreBlind /\ Wholes!RetryIsAccepted

\* What the tools say of the file.  "Unchanged" is true, and no write is refused as not
\* fully read after a whole read, but for what pages and several calls in a message
\* spoil; the first call of a message writes under instructions its request carried; and
\* a write refused for them passes next, where their names sort as their depths.
ReadsSuffice ==
  /\ scenario = "pages" => Pages!UntrueOnlyAround /\ Pages!RefusedOnlyPaged
  /\ scenario = "wholes" =>
       /\ Wholes!UntrueOnlyAround /\ Wholes!RefusedOnlyPaged
       /\ Wholes!WritesAreInstructed /\ Wholes!ReviewIsEnoughInOrder

\* No work is lost that nobody discarded, whoever stops where; until somebody stops, a
\* worktree is in one Session, the one that made it.
WorkIsKept ==
  /\ scenario = "kept" =>
       Kept!WorkIsKept /\ Kept!WorktreesAreExclusive /\ Kept!EnteredStaysOwn
  /\ scenario = "calm" => Calm!WorktreesAreExclusive /\ Calm!EnteredStaysOwn
=============================================================================

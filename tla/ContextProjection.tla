-------------------------- MODULE ContextProjection --------------------------
(***************************************************************************)
(* What the model is shown: ContextPipeline of runtime/context.py over the *)
(* authoritative transcript, the store of large tool results               *)
(* (FileToolResultStore of runtime/session_store.py) and the tool that     *)
(* reads them back (tools/state.py).                                       *)
(*                                                                         *)
(* A tool call is a number, in the order of the transcript; its result is  *)
(* a size.  Sizes are in units of 100 characters, the JSON of a result     *)
(* that quotes JSON is taken to be as long as what it quotes, and every    *)
(* message adds one unit of its own.  A text of the user is a size too; of *)
(* a text of the model only the message counts.  A summary of the model is *)
(* not looked into; the fallback of the code is.                           *)
(***************************************************************************)
EXTENDS Naturals, Sequences, FiniteSets, FiniteSetsExt

CONSTANTS
  Sizes,        \* sizes of the results of bash and read_file
  TextSizes,    \* sizes of the texts of the user, prompts and hook feedback
  PageLimit,    \* the limit read_tool_result is called with
  MaxChars,     \* config.max_tool_result_chars
  KeepRecent,   \* config.keep_recent_tool_results
  AutoCompact,  \* config.auto_compact_chars
  MaxCalls,     \* bound: tool calls of the Session
  MaxTexts,     \* bound: user texts after the first, prompts and hook feedback
  MaxDeaths     \* bound: deaths of the process while it stores a result

\* What an instance has to give the constants.
ContextAssumption ==
  /\ IsFiniteSet(Sizes) /\ Sizes \subseteq Nat \ {0} /\ TextSizes \subseteq Nat \ {0}
  /\ {PageLimit, MaxChars, KeepRecent, AutoCompact, MaxCalls, MaxTexts, MaxDeaths} \subseteq Nat

PreviewChars == 10   \* preview = original[:1_000]
MicroChars == 2      \* content[:200]
QuotedChars == 10    \* user_text[-1][:1_000]

VARIABLES
  call,     \* call[c]: the tool of call c and the size of its result
  log,      \* SessionTranscript.messages
  whole,    \* results with a complete file
  partial,  \* results with a file that a death cut short
  proc,     \* "due": to project; "asked": the model has the view; "tools"; "off"
  view,     \* the last projection
  force,    \* force_compact_reason
  failed,   \* did the last projection raise?
  deaths

vars == <<call, log, whole, partial, proc, view, force, failed, deaths>>

-----------------------------------------------------------------------------
(* The transcript.                                                         *)

\* A message with a text of that size, 0 for none, and blocks of calls and results.
Message(role, text, uses, results) ==
  [role |-> role, text |-> text, uses |-> uses, results |-> results]
UserText(size) == Message("user", size, {}, {})

Ids == DOMAIN call
Texts == {i \in DOMAIN log : log[i].role = "user" /\ log[i].text > 0}

-----------------------------------------------------------------------------
(* _enforce_tool_result_budget and _micro_compact.                         *)

\* read_file is _INLINE_BOUNDED_TOOL_NAMES.
Budgeted == {c \in Ids : call[c].tool # "read_file"}

Smaller(m, n) == IF m < n THEN m ELSE n
Stub(c) == Smaller(call[c].size, PreviewChars) + 1

\* sorted by length, the longest first; the sort is stable
Before(c) ==
  {d \in Budgeted : call[d].size > call[c].size \/ (call[d].size = call[c].size /\ d < c)}

TotalWith(stubs) ==
  MapThenSumSet(LAMBDA c : IF c \in stubs THEN Stub(c) ELSE call[c].size, Budgeted)

\* The loop stops at the first block it finds the total within the budget.
Replaced ==
  {c \in Budgeted : \A d \in Before(c) \union {c} : TotalWith(Before(d)) > MaxChars}

Persisted == {c \in Replaced : call[c].tool # "read_tool_result"}

Length(c) == IF c \in Replaced THEN Stub(c) ELSE call[c].size

\* Everything but the last keep_recent, when it is longer than 200 characters.
Micro ==
  {c \in Budgeted : /\ Cardinality({d \in Budgeted : d > c}) >= KeepRecent
                    /\ Length(c) > MicroChars}

\* A persisted result is shown by its name and a preview.  _micro_compact means to
\* leave those alone, but compares with the JSON text, which begins with a quote:
\* the first 200 characters of it, which hold the name, are what is left.
FormUnnamed(c) ==   \* as it could be: the preview is taken from the original
  IF c \in Micro \union Replaced THEN IF c \in Persisted \ Micro THEN "name" ELSE "preview" ELSE "full"
Form(c) ==
  IF c \in Persisted THEN "name" ELSE IF c \in Micro \union Replaced THEN "preview" ELSE "full"

Shown(c) == IF c \in Micro THEN MicroChars + 1 ELSE Length(c)
Estimate ==   \* _estimate_chars
  Len(log) + MapThenSumSet(LAMBDA i : log[i].text, DOMAIN log) + MapThenSumSet(Shown, Ids)

-----------------------------------------------------------------------------
(* _group_by_api_round and _compact.                                       *)

\* Where a round begins: at the first message and at every assistant message.
GroupStarts == {i \in DOMAIN log : i = 1 \/ log[i].role = "assistant"}

\* The messages that are summarised are the first Cut: all but the last two
\* rounds, all but the last one of two, or the only one.
Cut ==
  LET n == Cardinality(GroupStarts)
      preserve == IF n <= 2 THEN n - 1 ELSE 2
  IN IF preserve = 0 THEN Len(log)
     ELSE (CHOOSE i \in GroupStarts : Cardinality({j \in GroupStarts : j >= i}) = preserve) - 1

\* DeterministicContextSummarizer: of the texts in the summarised messages, the
\* first 1,000 characters of the last.
Quote(i) == [text |-> i, chars |-> Smaller(log[i].text, QuotedChars)]
NoQuote == [text |-> 0, chars |-> 0]
Recent(cut) == LET T == {i \in Texts : i <= cut} IN IF T = {} THEN NoQuote ELSE Quote(Max(T))

\* ContextProjection: the messages after cut, every result in its form, and who
\* wrote the summary of the others; when the model fails the code does.
NoView == [cut |-> 0, of |-> 0, summary |-> "none", recent |-> NoQuote, named |-> {},
           full |-> {}]
View(summary) ==
  LET cut == IF force \/ Estimate > AutoCompact THEN Cut ELSE 0
      kept == UNION {log[i].results : i \in cut + 1 .. Len(log)}
  IN [cut |-> cut, of |-> Len(log),
      summary |-> IF cut = 0 THEN "none" ELSE summary,
      recent |-> IF cut # 0 /\ summary = "fallback" THEN Recent(cut) ELSE NoQuote,
      named |-> {c \in kept : Form(c) = "name"}, full |-> {c \in kept : Form(c) = "full"}]

-----------------------------------------------------------------------------
Init ==
  /\ call = <<>> /\ \E size \in TextSizes : log = <<UserText(size)>>
  /\ whole = {} /\ partial = {} /\ proc = "due" /\ view = NoView
  /\ force = FALSE /\ failed = FALSE /\ deaths = 0

\* As it could be by mistake: a file that exists is taken as it is.
RefusedNever(c) == FALSE
\* persist(): a file with another content is refused.
Refused(c) == c \in partial

\* project(): the results that do not fit are stored, one after the other.
Project(summary) ==
  /\ proc = "due" /\ \A c \in Persisted : ~Refused(c)
  /\ whole' = whole \union (Persisted \ partial)
  /\ view' = View(summary) /\ (summary = "model" => view'.cut > 0)
  /\ proc' = "asked" /\ force' = FALSE /\ failed' = FALSE
  /\ UNCHANGED <<call, log, partial, deaths>>

\* persist() raises: the run ends with CONTEXT_PROJECTION_FAILED.
ProjectFails(c) ==
  /\ proc = "due" /\ c \in Persisted /\ Refused(c)
  /\ \A d \in Before(c) \intersect Persisted : ~Refused(d)
  /\ whole' = whole \union (Persisted \intersect Before(c))
  /\ proc' = "off" /\ force' = FALSE /\ failed' = TRUE
  /\ UNCHANGED <<call, log, partial, view, deaths>>

\* As it could be by mistake: a result that is there is written again.
DieStoringAgain(c) ==
  /\ proc = "due" /\ c \in Persisted \ partial /\ deaths < MaxDeaths
  /\ whole' = whole \union (Persisted \intersect Before(c))
  /\ partial' = partial \union {c} /\ deaths' = deaths + 1
  /\ proc' = "off" /\ force' = FALSE
  /\ UNCHANGED <<call, log, view, failed>>
\* The process dies inside the write_text of persist().
DieStoring(c) ==
  /\ proc = "due" /\ c \in Persisted \ (whole \union partial) /\ deaths < MaxDeaths
  /\ \A d \in Before(c) \intersect Persisted : ~Refused(d)
  /\ whole' = whole \union (Persisted \intersect Before(c))
  /\ partial' = partial \union {c} /\ deaths' = deaths + 1
  /\ proc' = "off" /\ force' = FALSE
  /\ UNCHANGED <<call, log, view, failed>>

\* CONTEXT_LENGTH_EXCEEDED: once in a run the next projection is forced.
TooLong ==
  /\ proc = "asked" /\ view.cut = 0 /\ proc' = "due" /\ force' = TRUE
  /\ UNCHANGED <<call, log, whole, partial, view, failed, deaths>>

\* The model answers with one or two calls.
Ask(calls) ==
  LET new == Len(call) + 1 .. Len(call) + Len(calls) IN
  /\ proc = "asked" /\ Len(call) + Len(calls) <= MaxCalls
  /\ call' = call \o calls
  /\ log' = Append(log, Message("assistant", 0, new, {})) /\ proc' = "tools"
  /\ UNCHANGED <<whole, partial, view, force, failed, deaths>>

Tools == [tool : {"bash", "read_file"}, size : Sizes]

\* ReadToolResultTool: a page of a result the view names.
Page(c) == [tool |-> "read_tool_result", size |-> Smaller(call[c].size, PageLimit) + 1]

AskTools ==
  \/ \E c \in Tools : Ask(<<c>>)
  \/ \E c, d \in Tools : Ask(<<c, d>>)
ReadBack == \E c \in view.named : Ask(<<Page(c)>>)

Answer ==
  /\ proc = "tools" /\ proc' = "due"
  /\ log' = Append(log, Message("user", 0, {}, log[Len(log)].uses))
  /\ UNCHANGED <<call, whole, partial, view, force, failed, deaths>>

\* The model answers with text: the run ends, or a stop hook adds its feedback.
Say(blocked, size) ==
  LET said == Append(log, Message("assistant", 0, {}, {})) IN
  /\ proc = "asked" /\ Cardinality(Texts) <= MaxTexts
  /\ log' = IF blocked THEN Append(said, UserText(size)) ELSE said
  /\ proc' = IF blocked THEN "due" ELSE "off"
  /\ UNCHANGED <<call, whole, partial, view, force, failed, deaths>>

\* The process ends while its tools run.
Stop ==
  /\ proc = "tools" /\ proc' = "off"
  /\ UNCHANGED <<call, log, whole, partial, view, force, failed, deaths>>

\* A run on the same Session: calls without results get the interrupted ones.
Resume(size) ==
  LET open == log[Len(log)].uses
      repaired == IF open = {} THEN log ELSE Append(log, Message("user", 0, {}, open))
  IN
  /\ proc = "off" /\ Cardinality(Texts) <= MaxTexts
  /\ log' = Append(repaired, UserText(size)) /\ proc' = "due"
  /\ call' = [c \in Ids |-> IF c \in open THEN [call[c] EXCEPT !.size = 1] ELSE call[c]]
  /\ UNCHANGED <<whole, partial, view, force, failed, deaths>>

Next ==
  \/ \E summary \in {"model", "fallback"} : Project(summary)
  \/ \E c \in Ids : ProjectFails(c) \/ DieStoring(c)
  \/ TooLong \/ AskTools \/ ReadBack \/ Answer \/ Stop
  \/ \E size \in TextSizes : Resume(size) \/ \E blocked \in BOOLEAN : Say(blocked, size)

Spec == Init /\ [][Next]_vars

-----------------------------------------------------------------------------
(* Properties.                                                             *)

\* The variables keep their shape, and the complete files stay complete.
TypeOK ==
  /\ proc \in {"due", "asked", "tools", "off"} /\ force \in BOOLEAN /\ failed \in BOOLEAN
  /\ whole \subseteq Ids /\ partial \subseteq Ids /\ whole \intersect partial = {}
  /\ view.cut <= view.of /\ view.of <= Len(log)

\* Whatever is summarised, a projection holds every tool result right after the call
\* it answers and every call with its results, and what follows the summary, which
\* is a user message, is an assistant message (row C1 of the invariants).
PairsAreWhole ==
  proc = "asked" =>
    /\ \A i \in view.cut + 1 .. view.of :
         /\ log[i].results # {} => i - 1 > view.cut /\ log[i - 1].uses = log[i].results
         /\ log[i].uses # {} => i < view.of /\ log[i + 1].results = log[i].uses
    /\ view.cut \notin {0, view.of} => log[view.cut + 1].role = "assistant"

\* A result the model is told to read with read_tool_result is there, complete.
NamedIsStored == view.named \subseteq whole \ partial

\* Unless the model has written the summary, which may leave out what it likes, the
\* model sees the last thing it was told: the latest text of the user is in the
\* projection, or the summary quotes it, up to its first 1,000 characters.
LatestTextIsShown ==
  proc = "asked" /\ view.summary # "model" =>
    \/ Max(Texts) > view.cut
    \/ view.recent = Quote(Max(Texts))

\* A Session whose process died can be projected again.
SessionsProject == ~failed

\* A page the model has just read is in the projection it gets next.
PageIsShown ==
  \A c \in log[Len(log)].results :
    proc = "asked" /\ view.cut = 0 /\ call[c].tool = "read_tool_result" => c \in view.full
=============================================================================

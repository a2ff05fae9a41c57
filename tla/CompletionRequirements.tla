----------------------- MODULE CompletionRequirements -----------------------
(***************************************************************************)
(* CompletionRequirements of completion/models.py: the kinds of evidence a *)
(* run must show before it may stop, and how requirements of the           *)
(* application, of skills and of a resumed Session are merged into those   *)
(* of the run (tighten).                                                   *)
(***************************************************************************)

EvidenceKind ==
  {"successful_test", "independent_verification", "git_change_snapshot",
   "issue_plan", "delivery_draft"}

\* waivers_must_be_required
Requirements ==
  {r \in [required : SUBSET EvidenceKind, waivable : SUBSET EvidenceKind] :
     r.waivable \subseteq r.required}

Strict(r) == r.required \ r.waivable

Tighten(a, b) ==
  [required |-> a.required \union b.required,
   waivable |-> (a.waivable \union b.waivable) \ (Strict(a) \union Strict(b))]
=============================================================================

------------------------ MODULE MCCompletionEvidence ------------------------
(* CompletionEvidence alone, for the requirements the repository uses.     *)
EXTENDS CompletionEvidence, CompletionProfiles
=============================================================================

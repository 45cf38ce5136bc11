---------------------------- MODULE FactoryClaims ---------------------------
(***************************************************************************)
(* What the repository's documents and messages say of the factory, stated *)
(* over the model of what the code does.  Each of these is refuted by TLC  *)
(* under the events its configuration allows; the trace is the finding.    *)
(***************************************************************************)
EXTENDS Factory

\* README.md: a scanner that fails halts the pipeline before audit or merge.
\* orchestrator.py only looks for EXIT_FINDINGS.
ScannerErrorsFailClosed == [][NewBuilds # {} => evidence["sast"] = base']_vars

\* README.md:142 and 150: an ambiguous verdict goes to HUMAN_REVIEW, and a task
\* in HUMAN_REVIEW whose blocked_reason names LOGIC_AUDIT can be recovered with
\* --resume-audit.  can_resume_audit also wants a LOGIC_AUDIT -> HUMAN_REVIEW
\* entry, which run_pipeline writes only after a fallback was tried.
ReviewIsResumable ==
    /\ pc = "Idle" /\ file = "saved"
    /\ ledger.state = "HUMAN_REVIEW" /\ ledger.status = "NEEDS_HUMAN_REVIEW"
    /\ ledger.blocked
    /\ RepositoryAllowsAudit
    => CanResumeAudit(ledger)
=============================================================================

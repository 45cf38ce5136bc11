------------------------------- MODULE Ledger -------------------------------
(***************************************************************************)
(* The task ledger: the JSON object orchestrator/state_manager.py keeps in *)
(* state_<TASK>.json, and the StateManager methods that rewrite it.  Every *)
(* operator below returns the ledger as ONE call of save() leaves it, so a *)
(* method that saves twice (halt_human, consume_logic_replan, ...) is two  *)
(* operators, and whoever calls them may crash in between.                 *)
(*                                                                         *)
(* The history list is kept as what the code asks of it: its last entry    *)
(* and whether any entry goes from LOGIC_AUDIT to HUMAN_REVIEW.            *)
(***************************************************************************)
EXTENDS Naturals

CONSTANTS
    MaxLogicReplans,          \* budgets.max_logic_replans
    MaxSecurityReplans,       \* budgets.max_security_replans
    MaxSpecSyntaxRetries,     \* budgets.max_spec_syntax_retries
    MaxWorkerPerEpoch,        \* budgets.max_worker_per_epoch
    MaxCumulativeWorkerRuns   \* budgets.max_cumulative_worker_runs

ASSUME BudgetAssumption ==
    /\ MaxLogicReplans \in Nat
    /\ MaxSecurityReplans \in Nat
    /\ MaxSpecSyntaxRetries \in Nat
    /\ MaxWorkerPerEpoch \in Nat
    /\ MaxCumulativeWorkerRuns \in Nat

ValidStates ==
    {"INIT", "SPEC_DESIGN", "SPEC_GATE", "BUILDING", "DIFF_GATE", "TESTING",
     "TRIAGING", "SAST_SCAN", "SAST_FILTER", "LOGIC_AUDIT", "AUTO_MERGE",
     "HUMAN_REVIEW", "HALT_HUMAN"}

ExecutionStatus ==
    {"RUNNING", "INTERRUPTED", "COMPLETED", "FAILED", "NEEDS_HUMAN_REVIEW"}

\* The last entry of "history".  merge says that its details mention a merge; it
\* stays FALSE where the details quote a tool or a model, all of them entries
\* that do not come from AUTO_MERGE, whose details nobody asks about.
HistoryEntry == [from : ValidStates, to : ValidStates, merge : BOOLEAN]

LedgerType ==
    [state    : ValidStates,       \* current_state
     status   : ExecutionStatus,   \* execution_status
     epoch    : Nat,
     logic    : Nat,               \* logic_replans_used
     security : Nat,               \* security_replans_used
     spec     : Nat,               \* spec_syntax_retries_used
     attempts : Nat,               \* worker_attempts_in_epoch
     total    : Nat,               \* total_cumulative_worker_runs
     last     : HistoryEntry,
     reviewed : BOOLEAN,           \* history holds LOGIC_AUDIT -> HUMAN_REVIEW
     blocked  : BOOLEAN,           \* blocked_reason.gate is LOGIC_AUDIT
     auditor  : Nat]               \* audit_model_used, 0 for None

\* _init_state: a task nobody has started.  The empty history is an entry
\* that authorises nothing.
InitState ==
    [state |-> "INIT", status |-> "RUNNING", epoch |-> 1,
     logic |-> 0, security |-> 0, spec |-> 0, attempts |-> 0, total |-> 0,
     last |-> [from |-> "INIT", to |-> "INIT", merge |-> FALSE],
     reviewed |-> FALSE, blocked |-> FALSE, auditor |-> 0]

\* transition(new_state, details)
Transition(l, to, merge) ==
    [l EXCEPT !.state = to,
              !.last = [from |-> l.state, to |-> to, merge |-> merge],
              !.reviewed = @ \/ (l.state = "LOGIC_AUDIT" /\ to = "HUMAN_REVIEW")]

\* set_execution_status(status)
SetStatus(l, status) == [l EXCEPT !.status = status]

\* Mutant of LoadState: a restart starts the task's accounts over.
LoadStateForgets(l) == IF l.status = "RUNNING" THEN InitState ELSE l

\* StateManager.__init__ on an existing file: a ledger left RUNNING belongs to
\* a process that died.
LoadState(l) == IF l.status = "RUNNING" THEN SetStatus(l, "INTERRUPTED") ELSE l

\* Mutant of MayRegister: the epoch limit is checked after the increment only.
MayRegisterOffByOne(l) ==
    /\ l.attempts < MaxWorkerPerEpoch
    /\ l.total <= MaxCumulativeWorkerRuns

\* The two circuit breakers of register_worker_run, tested before it counts.
MayRegister(l) ==
    /\ l.attempts < MaxWorkerPerEpoch
    /\ l.total < MaxCumulativeWorkerRuns

\* Mutant of RegisterWorkerRun: the run is never charged.
RegisterNothing(l) == l

\* register_worker_run, budget available.
RegisterWorkerRun(l) == [l EXCEPT !.total = @ + 1, !.attempts = @ + 1]

\* can_worker_retry_in_epoch
CanWorkerRetryInEpoch(l) == l.attempts < MaxWorkerPerEpoch

\* Mutant of SpendSecurityReplan: the replan is granted and never counted.
SpendNothing(l) == l

\* The first save of consume_spec_syntax_retry, consume_logic_replan and
\* consume_security_replan: the unit is spent before the limit is looked at.
SpendSpecRetry(l)      == [l EXCEPT !.spec = @ + 1]
SpendLogicReplan(l)    == [l EXCEPT !.logic = @ + 1]
SpendSecurityReplan(l) == [l EXCEPT !.security = @ + 1]

SpecRetriesExhausted(l)     == l.spec > MaxSpecSyntaxRetries
LogicReplansExhausted(l)    == l.logic > MaxLogicReplans
SecurityReplansExhausted(l) == l.security > MaxSecurityReplans

\* _new_epoch
NewEpoch(l) == [l EXCEPT !.epoch = @ + 1, !.attempts = 0]

\* The last save of request_human_review.
SetBlockedReason(l) == [l EXCEPT !.blocked = TRUE]

\* record_audit_model: candidate c of the configured list gave the verdict.
RecordAuditModel(l, c) == [l EXCEPT !.auditor = c]

\* Mutant of CanResumeMerge: any halt will do, whatever the history says.
CanResumeMergeAnyHalt(l) == l.state = "HALT_HUMAN" /\ l.status = "FAILED"

\* can_resume_merge
CanResumeMerge(l) ==
    /\ l.state = "HALT_HUMAN"
    /\ l.status = "FAILED"
    /\ l.last = [from |-> "AUTO_MERGE", to |-> "HALT_HUMAN", merge |-> TRUE]

\* Mutant of CanResumeAudit: the current state is not asked for.
CanResumeAuditAnyState(l) ==
    /\ l.status = "NEEDS_HUMAN_REVIEW"
    /\ l.blocked
    /\ l.reviewed

\* The ledger's half of can_resume_audit.
CanResumeAudit(l) ==
    /\ l.state = "HUMAN_REVIEW"
    /\ l.status = "NEEDS_HUMAN_REVIEW"
    /\ l.blocked
    /\ l.reviewed
=============================================================================

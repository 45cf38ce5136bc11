------------------------------ MODULE Factory -------------------------------
(***************************************************************************)
(* One task of the software factory: the operator starts the orchestrator  *)
(* (run_pipeline, --resume-merge or --resume-audit), the process walks the *)
(* gates, asks the language models, rewrites the ledger and drives git,    *)
(* and may die between any two of its effects.  People commit to the base  *)
(* branch and touch the repository while it works.                         *)
(*                                                                         *)
(* A step of the process ends where one effect another party (or a restart)*)
(* can observe has happened: a save of the ledger, a git command, an answer*)
(* of a model.  pc names the next step.  A branch is the set of changes in *)
(* its history; histories are linear and changes unique, so "is an ancestor*)
(* of" is set inclusion.                                                   *)
(***************************************************************************)
EXTENDS Ledger, FiniteSets

CONSTANTS
    Candidates,       \* auditors configured: 1 is the primary, the rest fallbacks
    Events,           \* which events of the environment may happen
    MaxLaunches,      \* bound: times the operator starts the orchestrator
    MaxHumanCommits   \* bound: commits made by people

EventKinds ==
    {"crash",        \* the process is killed, or an exception nobody catches ends it
     "torn_write",   \* it dies inside save(), which truncates the file first
     "base_commit",  \* somebody commits to the base branch
     "dirty",        \* somebody edits the main working copy, or tidies it
     "task_commit",  \* somebody commits to, or rebases, the task branch
     "edit_spec",    \* somebody edits the specification
     "rerun",        \* the pipeline is started on a completed or halted task
     "commit_fails", \* git commit returns an error in the worktree
     "tool_error",   \* run_sast returns EXIT_TOOL_ERROR
     "locked_files", \* files of the worktree cannot be deleted
     "simulate"}     \* the orchestrator is started with --simulate

ASSUME FactoryAssumption ==
    /\ Candidates \in Nat \ {0}
    /\ Events \subseteq EventKinds
    /\ MaxLaunches \in Nat
    /\ MaxHumanCommits \in Nat

\* A change is one commit, or files not committed: n-th build of the worker,
\* n-th commit of a person, or remains of a worktree git could not remove.
Change == {"build", "human", "debris"} \X Nat

VARIABLES
    \* the ledger file
    file,      \* "absent", "saved" or "torn"
    ledger,    \* its contents when saved
    \* the process
    pc,        \* its next step, "Idle" when there is none
    mode,      \* "run", "resume_merge" or "resume_audit"
    sim,       \* started with --simulate
    cand,      \* index of the auditor being asked
    \* the repository
    spec,      \* specs/<TASK>.md: "absent", "valid" or "invalid"
    branch,    \* task/<TASK> exists
    task,      \* its history
    base,      \* the history of the base branch
    wt,        \* the worktree directory exists
    loose,     \* uncommitted changes in the worktree
    clean,     \* git status is clean in the main working copy
    \* what people have done
    launches,
    commits,
    \* observers: read by properties only
    calls,     \* times the worker model was really called
    evidence,  \* per gate, the tree it last let through
    rejected   \* an auditor said FAIL since the last call of the worker

fileVars  == <<file, ledger>>
procVars  == <<mode, sim, cand>>
gitVars   == <<branch, task, base>>
wtVars    == <<wt, loose>>
humanVars == <<launches, commits>>
obsVars   == <<calls, evidence, rejected>>
vars == <<fileVars, pc, procVars, spec, gitVars, wtVars, clean, humanVars, obsVars>>

Modes == {"run", "resume_merge", "resume_audit"}
Gates == {"diff", "test", "sast", "audit"}

Steps ==
    {"Init", "SpecDesign", "GenerateSpec", "SpecGate", "ValidateSpec", "SpecRetry",
     "CreateWorktree", "Building", "Register", "Worker", "Commit",
     "DiffGate", "ValidateDiff", "LogicReplan", "Testing", "RunTests", "Triage",
     "SastScan", "RunSast", "SastFilter", "SecurityReplan",
     "AuditDiff", "AuditCall", "ReviewStatus", "ReviewBlocked", "RecordModel",
     "AncestorCheck", "AutoMerge", "RemoveWorktree",
     "MergeClean", "Checkout", "IsAncestor", "FastForward",
     "Recovered", "Complete", "HaltStatus", "ResumeMerge", "ResumeAudit"}

TypeOK ==
    /\ file \in {"absent", "saved", "torn"}
    /\ ledger \in LedgerType
    /\ pc \in Steps \cup {"Idle"}
    /\ mode \in Modes
    /\ sim \in BOOLEAN
    /\ cand \in 1..Candidates
    /\ spec \in {"absent", "valid", "invalid"}
    /\ branch \in BOOLEAN
    /\ task \subseteq Change
    /\ base \subseteq Change
    /\ wt \in BOOLEAN
    /\ loose \subseteq Change
    /\ clean \in BOOLEAN
    /\ launches \in 0..MaxLaunches
    /\ commits \in 0..MaxHumanCommits
    /\ calls \in Nat
    /\ evidence \in [Gates -> SUBSET Change]
    /\ rejected \in BOOLEAN

Init ==
    /\ file = "absent"
    /\ ledger = InitState
    /\ pc = "Idle"
    /\ mode = "run"
    /\ sim = FALSE
    /\ cand = 1
    /\ spec \in {"absent", "valid", "invalid"}
    /\ branch = FALSE
    /\ task = {}
    /\ base = {}
    /\ wt = FALSE
    /\ loose = {}
    /\ clean = TRUE
    /\ launches = 0
    /\ commits = 0
    /\ calls = 0
    /\ evidence = [g \in Gates |-> {}]
    /\ rejected = FALSE

-----------------------------------------------------------------------------
(* Building blocks *)

\* The process, at step "from", saves l and goes on at step "to".  save() is
\* Path.write_text, which truncates the file and then writes: a process that
\* dies inside it leaves a file no JSON parser reads.
Save(from, l, to) ==
    /\ pc = from
    /\ \/ ledger' = l /\ pc' = to /\ UNCHANGED file
       \/ /\ "torn_write" \in Events
          /\ file' = "torn" /\ pc' = "Idle" /\ UNCHANGED ledger

\* The process goes from one step to another without touching the ledger.
Go(from, to) ==
    /\ pc = from
    /\ pc' = to
    /\ UNCHANGED fileVars

\* sm.transition(state) at step "from".
Enter(from, state, to) == Save(from, Transition(ledger, state, FALSE), to)

\* The first save of halt_human; "merge" when the reason is a failed merge.
Halt(from, merge) ==
    Save(from, Transition(ledger, "HALT_HUMAN", merge), "HaltStatus")

\* The first save of request_human_review.
RequestHumanReview(from) == Enter(from, "HUMAN_REVIEW", "ReviewStatus")

\* The gate g lets the tree t through.
Passes(g, t) == evidence' = [evidence EXCEPT ![g] = t]

\* The tree the gates that run inside the worktree look at.
WorktreeTree == task \cup loose

-----------------------------------------------------------------------------
(* Starting the orchestrator *)

FirstStep ==
    [run |-> "Init", resume_merge |-> "ResumeMerge", resume_audit |-> "ResumeAudit"]

\* The operator runs the command line.  StateManager.__init__ creates the
\* ledger, or loads it; a torn file is a JSON error that ends the process.
Launch(m) ==
    /\ pc = "Idle"
    /\ file # "torn"
    /\ launches < MaxLaunches
    /\ m = "run" /\ file = "saved" /\ ledger.status \in {"COMPLETED", "FAILED"}
          => "rerun" \in Events
    /\ launches' = launches + 1
    /\ mode' = m
    /\ sim' \in IF "simulate" \in Events /\ m # "resume_merge" THEN BOOLEAN ELSE {FALSE}
    /\ cand' = 1
    /\ \/ /\ file' = "saved"
          /\ ledger' = IF file = "absent" THEN InitState ELSE LoadState(ledger)
          /\ pc' = FirstStep[m]
       \/ /\ "torn_write" \in Events
          /\ file = "absent" \/ ledger.status = "RUNNING"
          /\ file' = "torn" /\ pc' = "Idle" /\ UNCHANGED ledger
    /\ UNCHANGED <<spec, gitVars, wtVars, clean, commits, obsVars>>

-----------------------------------------------------------------------------
(* run_pipeline: specification and worktree *)

InitPhase ==
    /\ Enter("Init", "INIT", IF spec = "absent" THEN "SpecDesign" ELSE "SpecGate")
    /\ UNCHANGED <<procVars, spec, gitVars, wtVars, clean, humanVars, obsVars>>

SpecDesign ==
    /\ Enter("SpecDesign", "SPEC_DESIGN", "GenerateSpec")
    /\ UNCHANGED <<procVars, spec, gitVars, wtVars, clean, humanVars, obsVars>>

\* The architect's answer is written to specs/ in the MAIN working copy, where
\* it is an untracked file: .gitignore does not cover it.
GenerateSpec ==
    /\ Go("GenerateSpec", "SpecGate")
    /\ spec' \in {"valid", "invalid"}
    /\ clean' = FALSE
    /\ UNCHANGED <<procVars, gitVars, wtVars, humanVars, obsVars>>

SpecGate ==
    /\ Enter("SpecGate", "SPEC_GATE", "ValidateSpec")
    /\ UNCHANGED <<procVars, spec, gitVars, wtVars, clean, humanVars, obsVars>>

ValidateSpec ==
    /\ \/ spec = "valid" /\ Go("ValidateSpec", "CreateWorktree")
       \/ spec # "valid" /\ Save("ValidateSpec", SpendSpecRetry(ledger), "SpecRetry")
    /\ UNCHANGED <<procVars, spec, gitVars, wtVars, clean, humanVars, obsVars>>

\* The rest of consume_spec_syntax_retry and the second validation, which
\* reads the same file again: nothing regenerates the specification.
SpecRetry ==
    /\ \/ /\ SpecRetriesExhausted(ledger) \/ spec # "valid"
          /\ Halt("SpecRetry", FALSE)
       \/ /\ ~SpecRetriesExhausted(ledger) /\ spec = "valid"
          /\ Go("SpecRetry", "CreateWorktree")
    /\ UNCHANGED <<procVars, spec, gitVars, wtVars, clean, humanVars, obsVars>>

\* create_worktree: an existing directory is removed by force, with whatever
\* was not committed in it; an existing task branch is attached as it is, and
\* a new one starts at the base branch.
CreateWorktree ==
    /\ \/ /\ Go("CreateWorktree", "Building")
          /\ wt' = TRUE
          /\ loose' = {}
          /\ branch' = TRUE
          /\ task' = IF branch THEN task ELSE base
       \/ /\ Halt("CreateWorktree", FALSE)
          /\ \/ wt' = FALSE /\ loose' = {}
             \/ "locked_files" \in Events /\ UNCHANGED wtVars
          /\ UNCHANGED <<branch, task>>
    /\ UNCHANGED <<procVars, spec, base, clean, humanVars, obsVars>>

-----------------------------------------------------------------------------
(* run_pipeline: the build loop *)

Building ==
    /\ Enter("Building", "BUILDING", "Register")
    /\ UNCHANGED <<procVars, spec, gitVars, wtVars, clean, humanVars, obsVars>>

Register ==
    /\ \/ MayRegister(ledger) /\ Save("Register", RegisterWorkerRun(ledger), "Worker")
       \/ ~MayRegister(ledger) /\ Halt("Register", FALSE)
    /\ UNCHANGED <<procVars, spec, gitVars, wtVars, clean, humanVars, obsVars>>

\* The worker model is called and its files are written into the worktree.  It
\* may return the files that are already there.
Worker ==
    /\ Go("Worker", "Commit")
    /\ calls' = IF calls > MaxCumulativeWorkerRuns THEN calls ELSE calls + 1
    /\ rejected' = FALSE
    /\ loose' \in {loose, loose \cup {<<"build", ledger.total>>}}
    /\ UNCHANGED <<procVars, spec, gitVars, wt, clean, humanVars, evidence>>

\* Mutant of Commit: the files are written and never committed.
CommitNothing ==
    /\ Go("Commit", "DiffGate")
    /\ UNCHANGED <<procVars, spec, gitVars, wtVars, clean, humanVars, obsVars>>

\* git add . and git commit, whose return codes nobody reads.
Commit ==
    /\ Go("Commit", "DiffGate")
    /\ \/ task' = task \cup loose /\ loose' = {}
       \/ "commit_fails" \in Events /\ UNCHANGED <<task, loose>>
    /\ UNCHANGED <<procVars, spec, branch, base, wt, clean, humanVars, obsVars>>

DiffGate ==
    /\ Enter("DiffGate", "DIFF_GATE", "ValidateDiff")
    /\ UNCHANGED <<procVars, spec, gitVars, wtVars, clean, humanVars, obsVars>>

\* Mutant of RetryOrReplan: a gate that failed is only reported.
RetryOrReplanFallsThrough(from) == Go(from, "SastScan")

\* After a failed gate: another attempt in the epoch, or a logic replan.
RetryOrReplan(from) ==
    \/ CanWorkerRetryInEpoch(ledger) /\ Go(from, "Building")
    \/ ~CanWorkerRetryInEpoch(ledger) /\ Save(from, SpendLogicReplan(ledger), "LogicReplan")

ValidateDiff ==
    /\ \/ Go("ValidateDiff", "Testing") /\ Passes("diff", WorktreeTree)
       \/ RetryOrReplan("ValidateDiff") /\ UNCHANGED evidence
    /\ UNCHANGED <<procVars, spec, gitVars, wtVars, clean, humanVars, calls, rejected>>

\* The rest of consume_logic_replan.
LogicReplan ==
    /\ \/ LogicReplansExhausted(ledger) /\ Halt("LogicReplan", FALSE)
       \/ ~LogicReplansExhausted(ledger) /\ Save("LogicReplan", NewEpoch(ledger), "Building")
    /\ UNCHANGED <<procVars, spec, gitVars, wtVars, clean, humanVars, obsVars>>

Testing ==
    /\ Enter("Testing", "TESTING", "RunTests")
    /\ UNCHANGED <<procVars, spec, gitVars, wtVars, clean, humanVars, obsVars>>

RunTests ==
    /\ \/ Go("RunTests", "SastScan") /\ Passes("test", WorktreeTree)
       \/ Enter("RunTests", "TRIAGING", "Triage") /\ UNCHANGED evidence
    /\ UNCHANGED <<procVars, spec, gitVars, wtVars, clean, humanVars, calls, rejected>>

Triage ==
    /\ RetryOrReplan("Triage")
    /\ UNCHANGED <<procVars, spec, gitVars, wtVars, clean, humanVars, obsVars>>

SastScan ==
    /\ Enter("SastScan", "SAST_SCAN", "RunSast")
    /\ UNCHANGED <<procVars, spec, gitVars, wtVars, clean, humanVars, obsVars>>

\* Only EXIT_FINDINGS is looked at: a scanner that failed lets the tree pass.
RunSast ==
    /\ \/ Go("RunSast", "AuditDiff") /\ Passes("sast", WorktreeTree)
       \/ Enter("RunSast", "SAST_FILTER", "SastFilter") /\ UNCHANGED evidence
       \/ "tool_error" \in Events /\ Go("RunSast", "AuditDiff") /\ UNCHANGED evidence
    /\ UNCHANGED <<procVars, spec, gitVars, wtVars, clean, humanVars, calls, rejected>>

\* filter_security_finding on each finding: none is a true positive, or one is.
SastFilter ==
    /\ \/ Go("SastFilter", "AuditDiff") /\ Passes("sast", WorktreeTree)
       \/ Save("SastFilter", SpendSecurityReplan(ledger), "SecurityReplan") /\ UNCHANGED evidence
    /\ UNCHANGED <<procVars, spec, gitVars, wtVars, clean, humanVars, calls, rejected>>

\* The rest of consume_security_replan.  A resumed audit returns after it.
SecurityReplan ==
    /\ \/ SecurityReplansExhausted(ledger) /\ Halt("SecurityReplan", FALSE)
       \/ /\ ~SecurityReplansExhausted(ledger)
          /\ Save("SecurityReplan", NewEpoch(ledger), IF mode = "run" THEN "Building" ELSE "Idle")
    /\ UNCHANGED <<procVars, spec, gitVars, wtVars, clean, humanVars, obsVars>>

-----------------------------------------------------------------------------
(* execute_logic_security_audit *)

\* git diff base...HEAD in the worktree.  When it fails, run_pipeline dies of
\* the exception (see Crash) and resume_audit halts.
AuditDiff ==
    /\ \/ Go("AuditDiff", "AuditCall")
       \/ mode = "resume_audit" /\ Halt("AuditDiff", FALSE)
    /\ UNCHANGED <<procVars, spec, gitVars, wtVars, clean, humanVars, obsVars>>

\* What the adapter of a candidate can answer.  "inconclusive" stands for
\* UNCERTAIN and UNAVAILABLE, "error" for an unknown provider and for any
\* exception that is not a transport failure.  An adapter without an API key
\* simulates even in a live run.
Answers == IF sim THEN {"SIMULATED", "error"}
           ELSE {"PASS", "FAIL", "inconclusive", "SIMULATED", "unavailable", "error"}

\* Mutant of StopsAudit: a rejected change is shown to the next model.
StopsAuditShopping(answer) == answer \notin {"unavailable", "FAIL"}

\* Only an unavailable provider makes the loop go on to the next candidate.
StopsAudit(answer) == answer # "unavailable"

\* Mutant of NextCandidate: the end of the list is not looked for.
NextCandidateUnbounded ==
    /\ cand' = cand + 1
    /\ Enter("AuditCall", "LOGIC_AUDIT", "AuditCall")

\* The loop goes on to a fallback, which it announces in the ledger first.
NextCandidate ==
    /\ cand < Candidates
    /\ cand' = cand + 1
    /\ Enter("AuditCall", "LOGIC_AUDIT", "AuditCall")

AuditVerdict(answer) ==
    \/ answer = "PASS" /\ Go("AuditCall", "RecordModel") /\ Passes("audit", task)
    \/ answer = "SIMULATED" /\ sim /\ Go("AuditCall", "RecordModel") /\ UNCHANGED evidence
    \/ answer = "SIMULATED" /\ ~sim /\ Halt("AuditCall", TRUE) /\ UNCHANGED evidence
    \/ answer = "FAIL" /\ UNCHANGED evidence
       /\ Save("AuditCall", SpendSecurityReplan(ledger), "SecurityReplan")
    \/ answer = "inconclusive" /\ RequestHumanReview("AuditCall") /\ UNCHANGED evidence
    \/ answer = "error" /\ Halt("AuditCall", FALSE) /\ UNCHANGED evidence

AuditCall ==
    /\ pc = "AuditCall"
    /\ \E answer \in Answers :
        /\ \/ StopsAudit(answer) /\ AuditVerdict(answer) /\ UNCHANGED cand
           \/ ~StopsAudit(answer) /\ NextCandidate /\ UNCHANGED evidence
           \/ /\ ~StopsAudit(answer) /\ cand = Candidates
              /\ RequestHumanReview("AuditCall") /\ UNCHANGED <<cand, evidence>>
        /\ rejected' = (rejected \/ answer = "FAIL")
    /\ UNCHANGED <<mode, sim, spec, gitVars, wtVars, clean, humanVars, calls>>

ReviewStatus ==
    /\ Save("ReviewStatus", SetStatus(ledger, "NEEDS_HUMAN_REVIEW"), "ReviewBlocked")
    /\ UNCHANGED <<procVars, spec, gitVars, wtVars, clean, humanVars, obsVars>>

ReviewBlocked ==
    /\ Save("ReviewBlocked", SetBlockedReason(ledger), "Idle")
    /\ UNCHANGED <<procVars, spec, gitVars, wtVars, clean, humanVars, obsVars>>

RecordModel ==
    /\ Save("RecordModel", RecordAuditModel(ledger, cand),
            IF mode = "run" THEN "AutoMerge" ELSE "AncestorCheck")
    /\ UNCHANGED <<procVars, spec, gitVars, wtVars, clean, humanVars, obsVars>>

-----------------------------------------------------------------------------
(* Integration: orchestrator.py's last phase and scripts/merge_gate.py *)

\* git merge-base --is-ancestor b t
IsAncestorOf(b, t) == b \subseteq t

\* resume_audit looks at the ancestor relation again before it removes the
\* worktree.
AncestorCheck ==
    /\ \/ IsAncestorOf(base, task) /\ Go("AncestorCheck", "AutoMerge")
       \/ ~IsAncestorOf(base, task) /\ Halt("AncestorCheck", TRUE)
    /\ UNCHANGED <<procVars, spec, gitVars, wtVars, clean, humanVars, obsVars>>

AutoMerge ==
    /\ Enter("AutoMerge", "AUTO_MERGE", "RemoveWorktree")
    /\ UNCHANGED <<procVars, spec, gitVars, wtVars, clean, humanVars, obsVars>>

\* remove_worktree, by force; what it returns is not looked at.
RemoveWorktree ==
    /\ Go("RemoveWorktree", "MergeClean")
    /\ \/ wt' = FALSE /\ loose' = {}
       \/ "locked_files" \in Events /\ wt /\ loose' = loose \cup {<<"debris", 0>>} /\ UNCHANGED wt
    /\ UNCHANGED <<procVars, spec, gitVars, clean, humanVars, obsVars>>

\* Mutant of MergeFailed: what the merge gate returned is not looked at.
MergeFailedIgnored(from) == Go(from, "Complete")

\* Mutant of MergeFailed: the reason of the halt does not speak of a merge, which
\* is what can_resume_merge looks for.
MergeFailedUnmarked(from) ==
    \/ mode # "resume_merge" /\ Halt(from, FALSE)
    \/ mode = "resume_merge" /\ Go(from, "Idle")

\* execute_fast_forward_merge returned False.
MergeFailed(from) ==
    \/ mode # "resume_merge" /\ Halt(from, TRUE)
    \/ mode = "resume_merge" /\ Go(from, "Idle")

MergeClean ==
    /\ \/ clean /\ Go("MergeClean", "Checkout")
       \/ ~clean /\ MergeFailed("MergeClean")
    /\ UNCHANGED <<procVars, spec, gitVars, wtVars, clean, humanVars, obsVars>>

Checkout ==
    /\ Go("Checkout", "IsAncestor") \/ MergeFailed("Checkout")
    /\ UNCHANGED <<procVars, spec, gitVars, wtVars, clean, humanVars, obsVars>>

IsAncestor ==
    /\ \/ IsAncestorOf(base, task) /\ Go("IsAncestor", "FastForward")
       \/ ~IsAncestorOf(base, task) /\ MergeFailed("IsAncestor")
    /\ UNCHANGED <<procVars, spec, gitVars, wtVars, clean, humanVars, obsVars>>

\* git merge --ff-only, which looks at the relation itself.  It also refuses
\* when local edits are in its way.
FastForward ==
    /\ \/ /\ IsAncestorOf(base, task)
          /\ Go("FastForward", IF mode = "resume_merge" THEN "Recovered" ELSE "Complete")
          /\ base' = task
       \/ /\ ~IsAncestorOf(base, task) \/ ~clean
          /\ MergeFailed("FastForward")
          /\ UNCHANGED base
    /\ UNCHANGED <<procVars, spec, branch, task, wtVars, clean, humanVars, obsVars>>

\* resume_merge enters AUTO_MERGE only now that the merge is done.
Recovered ==
    /\ Enter("Recovered", "AUTO_MERGE", "Complete")
    /\ UNCHANGED <<procVars, spec, gitVars, wtVars, clean, humanVars, obsVars>>

Complete ==
    /\ Save("Complete", SetStatus(ledger, "COMPLETED"), "Idle")
    /\ UNCHANGED <<procVars, spec, gitVars, wtVars, clean, humanVars, obsVars>>

\* The second save of halt_human; every caller then exits or returns.
HaltStatus ==
    /\ Save("HaltStatus", SetStatus(ledger, "FAILED"), "Idle")
    /\ UNCHANGED <<procVars, spec, gitVars, wtVars, clean, humanVars, obsVars>>

-----------------------------------------------------------------------------
(* Recovery *)

\* resume_merge up to its call of the merge gate; it is denied otherwise.
ResumeMerge ==
    /\ \/ CanResumeMerge(ledger) /\ branch /\ clean /\ Go("ResumeMerge", "MergeClean")
       \/ ~(CanResumeMerge(ledger) /\ branch /\ clean) /\ Go("ResumeMerge", "Idle")
    /\ UNCHANGED <<procVars, spec, gitVars, wtVars, clean, humanVars, obsVars>>

\* The repository's half of can_resume_audit, and resume_audit's own check.
RepositoryAllowsAudit ==
    /\ branch
    /\ wt /\ loose = {}
    /\ clean
    /\ IsAncestorOf(base, task)
    /\ spec # "absent"

ResumeAudit ==
    /\ \/ /\ CanResumeAudit(ledger) /\ RepositoryAllowsAudit
          /\ Enter("ResumeAudit", "LOGIC_AUDIT", "AuditDiff")
       \/ /\ ~(CanResumeAudit(ledger) /\ RepositoryAllowsAudit)
          /\ Go("ResumeAudit", "Idle")
    /\ UNCHANGED <<procVars, spec, gitVars, wtVars, clean, humanVars, obsVars>>

-----------------------------------------------------------------------------
(* Failures and people *)

\* The process ends where it is: a kill, a lost machine, or an exception of a
\* model call or of git that run_pipeline does not catch.
Crash ==
    /\ "crash" \in Events
    /\ pc # "Idle"
    /\ pc' = "Idle"
    /\ UNCHANGED <<fileVars, procVars, spec, gitVars, wtVars, clean, humanVars, obsVars>>

BaseCommit ==
    /\ "base_commit" \in Events
    /\ commits < MaxHumanCommits
    /\ commits' = commits + 1
    /\ base' = base \cup {<<"human", commits'>>}
    /\ UNCHANGED <<fileVars, pc, procVars, spec, branch, task, wtVars, clean, launches, obsVars>>

\* While no process works on the task: a commit on the task branch, or the
\* rebase that the merge gate's message asks for.
TaskCommit ==
    /\ "task_commit" \in Events
    /\ pc = "Idle" /\ branch
    /\ \/ /\ commits < MaxHumanCommits
          /\ commits' = commits + 1
          /\ task' = task \cup {<<"human", commits'>>}
       \/ /\ ~IsAncestorOf(base, task)
          /\ task' = task \cup base
          /\ UNCHANGED commits
    /\ UNCHANGED <<fileVars, pc, procVars, spec, branch, base, wtVars, clean, launches, obsVars>>

DirtyMain ==
    /\ "dirty" \in Events
    /\ clean' = ~clean
    /\ UNCHANGED <<fileVars, pc, procVars, spec, gitVars, wtVars, humanVars, obsVars>>

EditSpec ==
    /\ "edit_spec" \in Events
    /\ spec # "absent"
    /\ spec' \in {"valid", "invalid"} \ {spec}
    /\ UNCHANGED <<fileVars, pc, procVars, gitVars, wtVars, clean, humanVars, obsVars>>

-----------------------------------------------------------------------------

\* One step of the orchestrator process.
Step ==
    \/ InitPhase \/ SpecDesign \/ GenerateSpec \/ SpecGate \/ ValidateSpec \/ SpecRetry
    \/ CreateWorktree \/ Building \/ Register \/ Worker \/ Commit
    \/ DiffGate \/ ValidateDiff \/ LogicReplan \/ Testing \/ RunTests \/ Triage
    \/ SastScan \/ RunSast \/ SastFilter \/ SecurityReplan
    \/ AuditDiff \/ AuditCall \/ ReviewStatus \/ ReviewBlocked \/ RecordModel
    \/ AncestorCheck \/ AutoMerge \/ RemoveWorktree
    \/ MergeClean \/ Checkout \/ IsAncestor \/ FastForward
    \/ Recovered \/ Complete \/ HaltStatus \/ ResumeMerge \/ ResumeAudit

Environment ==
    \/ \E m \in Modes : Launch(m)
    \/ Crash \/ BaseCommit \/ TaskCommit \/ DirtyMain \/ EditSpec

Next == Step \/ Environment

Spec == Init /\ [][Next]_vars

\* The steps that wait for a program without a timeout: pytest on the tests the
\* worker wrote, and the scanners.  Nothing makes them return.
Unbounded == {"RunTests", "RunSast"}

\* Elsewhere a process that was started and not killed goes on: its calls are git
\* commands on the local repository and requests to a model, which have a timeout
\* and a bounded number of retries.
FairSpec == Spec /\ WF_vars(Step /\ pc \notin Unbounded)

-----------------------------------------------------------------------------
(* Properties *)

\* Changes of the worker that this step brings into the base branch.
NewBuilds == {c \in base' \ base : c[1] = "build"}

\* The worker model is called at most max_cumulative_worker_runs times in the
\* life of the task, over all crashes, restarts and recoveries: the run is
\* charged and saved before the call (register_worker_run).
WorkerCallsBounded == calls <= MaxCumulativeWorkerRuns

\* The replan budgets bound the epochs and each epoch bounds its runs, wherever
\* a consume_* method was cut short by a crash between its two saves.
BudgetAccounting ==
    /\ ledger.epoch <= 1 + MaxLogicReplans + MaxSecurityReplans
    /\ ledger.attempts <= MaxWorkerPerEpoch
    /\ ledger.total <= (ledger.epoch - 1) * MaxWorkerPerEpoch + ledger.attempts

\* No step, a restart included, gives back what was spent, and the attempts of
\* an epoch start over only in a new epoch.
SpentStaysSpent ==
    [][/\ ledger'.total >= ledger.total
       /\ ledger'.logic >= ledger.logic
       /\ ledger'.security >= ledger.security
       /\ ledger'.spec >= ledger.spec
       /\ ledger'.epoch >= ledger.epoch
       /\ ledger'.attempts < ledger.attempts => ledger'.epoch > ledger.epoch]_vars

\* A change an auditor rejected is never merged on the word of another auditor
\* or of a later audit: only a new call of the worker lifts the rejection.
NoModelShopping == [][NewBuilds # {} => ~rejected]_vars

\* A build enters the base branch only as the exact tree that passed the diff
\* gate, the tests, the scanner and the auditor the ledger names, on the
\* straight path and on both recovery paths.
VerifiedMerge ==
    [][NewBuilds # {} => (\A g \in Gates : evidence[g] = base') /\ ledger.auditor # 0]_vars

\* execution_status becomes COMPLETED only once the task branch is in the base
\* branch, on the straight path and on both recovery paths.
CompletedIsMerged ==
    [][ledger.status # "COMPLETED" /\ ledger'.status = "COMPLETED" => task \subseteq base]_vars

\* What HUMAN_REVIEW_<TASK>.md tells the reviewer: the worktree is there and
\* intact, and its tree passed every gate before the audit.
ReviewIsTruthful ==
    ledger.state = "HUMAN_REVIEW" =>
        /\ wt /\ loose = {}
        /\ \A g \in Gates \ {"audit"} : evidence[g] = task

Builds(changes) == {c \in changes : c[1] = "build"}

\* A task that halted at AUTO_MERGE has cleared every gate, and --resume-merge
\* accepts it: the halt, which comes after the worktree is gone, leaves a branch,
\* a history and a reason that can_resume_merge recognises, whichever check of
\* the merge gate failed and however the halt was reached.
HaltedMergeIsResumable ==
    ledger.state = "HALT_HUMAN" /\ ledger.status = "FAILED" /\ ledger.last.from = "AUTO_MERGE" =>
        /\ CanResumeMerge(ledger) /\ branch
        /\ ~rejected /\ \A g \in Gates : evidence[g] = task

\* What the worker built is lost only where create_worktree says that it starts
\* over: the worktree is removed by force BEFORE a merge that may still fail, and
\* the merge can be resumed only because nothing was in there alone.
BuildsSurvive ==
    [][pc # "CreateWorktree" => Builds(WorktreeTree) \subseteq Builds(WorktreeTree)']_vars

Promise == INSTANCE Integration WITH
    Gate <- Gates,
    Human <- {"human"} \X Nat,
    passed <- {g \in Gates : task # {} /\ evidence[g] = task},
    done <- ledger.status = "COMPLETED"

\* Seen from the base branch, the whole factory is the one door of Integration:
\* the gates' verdicts are about the tree that is merged and lapse when it
\* changes, over every crash, restart, recovery and commit of others.
KeepsPromise == Promise!Spec

\* How many more steps a process at each step can take at most before it ends or
\* charges the next worker run, the fallbacks of the auditor not counted.
StepsToGo ==
    [HaltStatus |-> 1, Complete |-> 1, ReviewBlocked |-> 1, ReviewStatus |-> 2,
     Recovered |-> 2, FastForward |-> 3, IsAncestor |-> 4, Checkout |-> 5,
     MergeClean |-> 6, RemoveWorktree |-> 7, ResumeMerge |-> 7, AutoMerge |-> 8,
     AncestorCheck |-> 9, RecordModel |-> 10, AuditCall |-> 11, AuditDiff |-> 12,
     ResumeAudit |-> 13, SastFilter |-> 13, RunSast |-> 14, SastScan |-> 15,
     RunTests |-> 16, Testing |-> 17, ValidateDiff |-> 18, DiffGate |-> 19,
     Commit |-> 20, Worker |-> 21,
     Register |-> 2, Building |-> 3, LogicReplan |-> 4, SecurityReplan |-> 4,
     Triage |-> 5, CreateWorktree |-> 4, SpecRetry |-> 5, ValidateSpec |-> 6,
     SpecGate |-> 7, GenerateSpec |-> 8, SpecDesign |-> 9, Init |-> 10]

\* What a step that does not end the process uses up: a worker run of the task's
\* total, or else a step on the way to the next one, or else a fallback auditor.
UsesUp ==
    \/ ledger.total < ledger'.total /\ ledger'.total <= MaxCumulativeWorkerRuns
    \/ /\ ledger'.total = ledger.total
       /\ \/ StepsToGo[pc'] < StepsToGo[pc]
          \/ pc' = pc /\ cand < cand' /\ cand' <= Candidates

\* Why every run ends, whatever the models answer: no cycle of builds, retries,
\* replans and audits is free.  Each step of the process ends it or lowers one
\* well-founded measure, which no event of the environment raises meanwhile.
NoFreeCycle ==
    [][pc # "Idle" /\ pc' # "Idle" => IF Step THEN UsesUp ELSE UNCHANGED <<fileVars, pc, cand>>]_vars

\* Every started orchestrator process ends, unless it waits for ever in one call of
\* the tests or of a scanner: the budgets leave no endless cycle of builds, replans
\* and audits, even one in which each of these calls returns.
RunEnds ==
    (\E s \in Unbounded : <>[](pc = s)) \/ ((pc # "Idle") ~> (pc = "Idle"))
=============================================================================

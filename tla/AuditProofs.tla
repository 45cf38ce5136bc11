----------------------------- MODULE AuditProofs ----------------------------
(***************************************************************************)
(* What reaches the base branch, for every number of fallback auditors and *)
(* every interleaving of crashes, restarts and recoveries: never a change  *)
(* an auditor rejected, only the tree every gate passed, and the ledger    *)
(* says COMPLETED only once it is there.                                   *)
(*                                                                         *)
(* The properties speak of the merge, many steps after the verdicts.  What *)
(* carries them there is the ledger: between a FAIL and the worker's next  *)
(* call, the process is at a step that leads to the worker or to a halt,   *)
(* and the ledger is one both recovery paths refuse; and a ledger that a   *)
(* recovery path accepts was written over the tree that passed the gates.  *)
(***************************************************************************)
EXTENDS BudgetProofs

USE BudgetAssumption, FactoryAssumption

\* A ledger neither --resume-merge nor --resume-audit accepts, now or after one
\* more halt.
NothingToResume(l) ==
    /\ l.state \notin {"HUMAN_REVIEW", "AUTO_MERGE"}
    /\ l.last.from # "AUTO_MERGE"

\* The steps from which the merge is reached only through the worker.
BeforeWorker ==
    {"Idle", "Init", "SpecDesign", "GenerateSpec", "SpecGate", "ValidateSpec",
     "SpecRetry", "CreateWorktree", "Building", "Register", "Worker",
     "SecurityReplan", "HaltStatus", "ResumeMerge", "ResumeAudit"}

\* The inductive invariant.  Its last four parts follow the state from TESTING
\* to the verdict, so that the ledger is known when the rejection happens.
RejectionInv ==
    /\ rejected => pc \in BeforeWorker /\ NothingToResume(ledger)
    /\ pc \in {"RunTests", "SastScan"} => ledger.state = "TESTING"
    /\ pc = "RunSast" => ledger.state = "SAST_SCAN" /\ ledger.last.from = "TESTING"
    /\ pc = "SastFilter" => ledger.state = "SAST_FILTER" /\ ledger.last.from = "SAST_SCAN"
    /\ pc \in {"AuditDiff", "AuditCall"} => NothingToResume(ledger)

\* The methods of StateManager that are no transition leave it where it is.
LEMMA OthersStay ==
  ASSUME NEW l \in LedgerType, NEW s, NEW c
  PROVE  \A k \in {SetStatus(l, s), LoadState(l), RegisterWorkerRun(l), SpendSpecRetry(l),
                   SpendLogicReplan(l), SpendSecurityReplan(l), NewEpoch(l),
                   SetBlockedReason(l), RecordAuditModel(l, c)} :
           k.state = l.state /\ k.last = l.last
  BY DEF LedgerType, SetStatus, LoadState, RegisterWorkerRun, SpendSpecRetry, SpendLogicReplan,
         SpendSecurityReplan, NewEpoch, SetBlockedReason, RecordAuditModel

\* A step that moves the ledger to another state, and one that does not, as far
\* as the invariant can tell.  Either may end in a torn write.
MovesTo(from, state, to) ==
    /\ pc = from
    /\ \/ pc' = to /\ ledger'.state = state /\ ledger'.last.from = ledger.state
       \/ pc' = "Idle" /\ ledger'.state = ledger.state /\ ledger'.last = ledger.last

StaysAt(from, to) ==
    /\ pc = from
    /\ pc' \in {to, "Idle"}
    /\ ledger'.state = ledger.state /\ ledger'.last = ledger.last

\* Entering a state and halting move the ledger.
LEMMA EnterMoves ==
  ASSUME ledger \in LedgerType, NEW from, NEW state, NEW to, Enter(from, state, to)
  PROVE  MovesTo(from, state, to)
  <1>1. /\ Transition(ledger, state, FALSE).state = state
        /\ Transition(ledger, state, FALSE).last.from = ledger.state
    BY DEF LedgerType, Transition
  <1> QED
    BY <1>1 DEF Enter, Save, MovesTo

\* So does halting,
LEMMA HaltMoves ==
  ASSUME ledger \in LedgerType, NEW from, Halt(from, TRUE) \/ Halt(from, FALSE)
  PROVE  MovesTo(from, "HALT_HUMAN", "HaltStatus")
  <1>1. ASSUME NEW m \in BOOLEAN
        PROVE  /\ Transition(ledger, "HALT_HUMAN", m).state = "HALT_HUMAN"
               /\ Transition(ledger, "HALT_HUMAN", m).last.from = ledger.state
    BY DEF LedgerType, Transition
  <1>2. CASE Halt(from, TRUE)
    BY <1>1, <1>2 DEF Halt, Save, MovesTo
  <1>3. CASE Halt(from, FALSE)
    BY <1>1, <1>3 DEF Halt, Save, MovesTo
  <1> QED
    BY <1>2, <1>3

\* asking for a review,
LEMMA ReviewMoves ==
  ASSUME ledger \in LedgerType, NEW from, RequestHumanReview(from)
  PROVE  MovesTo(from, "HUMAN_REVIEW", "ReviewStatus")
  BY EnterMoves DEF RequestHumanReview

\* but not a step without a save,
LEMMA GoStays ==
  ASSUME NEW from, NEW to, Go(from, to)
  PROVE  StaysAt(from, to)
  BY DEF Go, fileVars, StaysAt

\* nor a save of a ledger in the same state.
LEMMA SaveStays ==
  ASSUME NEW from, NEW l, NEW to, Save(from, l, to),
         l.state = ledger.state, l.last = ledger.last
  PROVE  StaysAt(from, to)
  BY DEF Save, StaysAt

\* A halt keeps the invariant, wherever it happens.
LEMMA HaltKeepsRejection ==
  ASSUME ledger \in LedgerType, RejectionInv, rejected' = rejected,
         NEW from, Halt(from, TRUE) \/ Halt(from, FALSE)
  PROVE  RejectionInv'
  <1>1. MovesTo(from, "HALT_HUMAN", "HaltStatus")
    BY HaltMoves
  <1> QED
    BY <1>1 DEF RejectionInv, NothingToResume, BeforeWorker, MovesTo

\* The invariant holds in every state of every behaviour.
THEOREM RejectionInductive == Spec => []RejectionInv
  <1> USE DEF obsVars, fileVars
  <1>1. Init => RejectionInv
    BY DEF Init, RejectionInv
  <1>2. TypeOK /\ RejectionInv /\ [Next]_vars => RejectionInv'
    <2> SUFFICES ASSUME TypeOK, RejectionInv, [Next]_vars
                 PROVE  RejectionInv'
      OBVIOUS
    <2>0. ledger \in LedgerType
      BY DEF TypeOK
    <2> USE <2>0
    <2>1. CASE InitPhase
      BY <2>1, EnterMoves
      DEF InitPhase, RejectionInv, NothingToResume, BeforeWorker, MovesTo
    <2>2. CASE SpecDesign
      BY <2>2, EnterMoves
      DEF SpecDesign, RejectionInv, NothingToResume, BeforeWorker, MovesTo
    <2>3. CASE SpecGate
      BY <2>3, EnterMoves
      DEF SpecGate, RejectionInv, NothingToResume, BeforeWorker, MovesTo
    <2>4. CASE Building
      BY <2>4, EnterMoves
      DEF Building, RejectionInv, NothingToResume, BeforeWorker, MovesTo
    <2>5. CASE DiffGate
      BY <2>5, EnterMoves
      DEF DiffGate, RejectionInv, NothingToResume, BeforeWorker, MovesTo
    <2>6. CASE Testing
      BY <2>6, EnterMoves
      DEF Testing, RejectionInv, NothingToResume, BeforeWorker, MovesTo
    <2>7. CASE SastScan
      BY <2>7, EnterMoves
      DEF SastScan, RejectionInv, NothingToResume, BeforeWorker, MovesTo
    <2>8. CASE AutoMerge
      BY <2>8, EnterMoves
      DEF AutoMerge, RejectionInv, NothingToResume, BeforeWorker, MovesTo
    <2>9. CASE Recovered
      BY <2>9, EnterMoves
      DEF Recovered, RejectionInv, NothingToResume, BeforeWorker, MovesTo
    <2>10. CASE GenerateSpec
      BY <2>10, GoStays
      DEF GenerateSpec, RejectionInv, NothingToResume, BeforeWorker, StaysAt
    <2>11. CASE Worker
      BY <2>11, GoStays
      DEF Worker, RejectionInv, NothingToResume, BeforeWorker, StaysAt
    <2>12. CASE Commit
      BY <2>12, GoStays
      DEF Commit, RejectionInv, NothingToResume, BeforeWorker, StaysAt
    <2>13. CASE RemoveWorktree
      BY <2>13, GoStays
      DEF RemoveWorktree, RejectionInv, NothingToResume, BeforeWorker, StaysAt
    <2>14. CASE ReviewStatus
      BY <2>14, SaveStays, OthersStay
      DEF ReviewStatus, RejectionInv, NothingToResume, BeforeWorker, StaysAt
    <2>15. CASE ReviewBlocked
      BY <2>15, SaveStays, OthersStay
      DEF ReviewBlocked, RejectionInv, NothingToResume, BeforeWorker, StaysAt
    <2>16. CASE RecordModel
      BY <2>16, SaveStays, OthersStay
      DEF RecordModel, RejectionInv, NothingToResume, BeforeWorker, StaysAt
    <2>17. CASE Complete
      BY <2>17, SaveStays, OthersStay
      DEF Complete, RejectionInv, NothingToResume, BeforeWorker, StaysAt
    <2>18. CASE HaltStatus
      BY <2>18, SaveStays, OthersStay
      DEF HaltStatus, RejectionInv, NothingToResume, BeforeWorker, StaysAt
    <2>19. CASE SpecRetry
      <3>1. rejected' = rejected
        BY <2>19 DEF SpecRetry
      <3>2. CASE Halt("SpecRetry", FALSE)
        BY <3>1, <3>2, HaltKeepsRejection
      <3>3. CASE Go("SpecRetry", "CreateWorktree")
        BY <3>1, <3>3, GoStays DEF RejectionInv, NothingToResume, BeforeWorker, StaysAt
      <3> QED
        BY <2>19, <3>2, <3>3 DEF SpecRetry
    <2>20. CASE CreateWorktree
      <3>1. rejected' = rejected
        BY <2>20 DEF CreateWorktree
      <3>2. CASE Halt("CreateWorktree", FALSE)
        BY <3>1, <3>2, HaltKeepsRejection
      <3>3. CASE Go("CreateWorktree", "Building")
        BY <3>1, <3>3, GoStays DEF RejectionInv, NothingToResume, BeforeWorker, StaysAt
      <3> QED
        BY <2>20, <3>2, <3>3 DEF CreateWorktree
    <2>21. CASE AuditDiff
      <3>1. rejected' = rejected
        BY <2>21 DEF AuditDiff
      <3>2. CASE Halt("AuditDiff", FALSE)
        BY <3>1, <3>2, HaltKeepsRejection
      <3>3. CASE Go("AuditDiff", "AuditCall")
        BY <3>1, <3>3, GoStays DEF RejectionInv, NothingToResume, BeforeWorker, StaysAt
      <3> QED
        BY <2>21, <3>2, <3>3 DEF AuditDiff
    <2>22. CASE AncestorCheck
      <3>1. rejected' = rejected
        BY <2>22 DEF AncestorCheck
      <3>2. CASE Halt("AncestorCheck", TRUE)
        BY <3>1, <3>2, HaltKeepsRejection
      <3>3. CASE Go("AncestorCheck", "AutoMerge")
        BY <3>1, <3>3, GoStays DEF RejectionInv, NothingToResume, BeforeWorker, StaysAt
      <3> QED
        BY <2>22, <3>2, <3>3 DEF AncestorCheck
    <2>23. CASE Register
      <3>1. rejected' = rejected
        BY <2>23 DEF Register
      <3>2. CASE Halt("Register", FALSE)
        BY <3>1, <3>2, HaltKeepsRejection
      <3>3. CASE Save("Register", RegisterWorkerRun(ledger), "Worker")
        BY <3>1, <3>3, SaveStays, OthersStay DEF RejectionInv, NothingToResume, BeforeWorker, StaysAt
      <3> QED
        BY <2>23, <3>2, <3>3 DEF Register
    <2>24. CASE LogicReplan
      <3>1. rejected' = rejected
        BY <2>24 DEF LogicReplan
      <3>2. CASE Halt("LogicReplan", FALSE)
        BY <3>1, <3>2, HaltKeepsRejection
      <3>3. CASE Save("LogicReplan", NewEpoch(ledger), "Building")
        BY <3>1, <3>3, SaveStays, OthersStay DEF RejectionInv, NothingToResume, BeforeWorker, StaysAt
      <3> QED
        BY <2>24, <3>2, <3>3 DEF LogicReplan
    <2>25. CASE SecurityReplan
      <3>1. rejected' = rejected
        BY <2>25 DEF SecurityReplan
      <3>2. CASE Halt("SecurityReplan", FALSE)
        BY <3>1, <3>2, HaltKeepsRejection
      <3>3. CASE \E to \in {"Building", "Idle"} : Save("SecurityReplan", NewEpoch(ledger), to)
        BY <3>1, <3>3, SaveStays, OthersStay DEF RejectionInv, NothingToResume, BeforeWorker, StaysAt
      <3> QED
        BY <2>25, <3>2, <3>3 DEF SecurityReplan
    <2>26. CASE ValidateSpec
      BY <2>26, GoStays, SaveStays, OthersStay
      DEF ValidateSpec, RejectionInv, NothingToResume, BeforeWorker, StaysAt
    <2>27. CASE SastFilter
      BY <2>27, GoStays, SaveStays, OthersStay
      DEF SastFilter, RejectionInv, NothingToResume, BeforeWorker, StaysAt
    <2>28. CASE ValidateDiff
      BY <2>28, GoStays, SaveStays, OthersStay
      DEF ValidateDiff, RetryOrReplan, RejectionInv, NothingToResume, BeforeWorker, StaysAt
    <2>29. CASE Triage
      BY <2>29, GoStays, SaveStays, OthersStay
      DEF Triage, RetryOrReplan, RejectionInv, NothingToResume, BeforeWorker, StaysAt
    <2>30. CASE MergeClean
      <3>1. rejected' = rejected
        BY <2>30 DEF MergeClean
      <3>2. CASE Halt("MergeClean", TRUE)
        BY <3>1, <3>2, HaltKeepsRejection
      <3>3. CASE \E to \in {"Checkout", "Idle"} : Go("MergeClean", to)
        BY <3>1, <3>3, GoStays DEF RejectionInv, NothingToResume, BeforeWorker, StaysAt
      <3> QED
        BY <2>30, <3>2, <3>3 DEF MergeClean, MergeFailed
    <2>31. CASE Checkout
      <3>1. rejected' = rejected
        BY <2>31 DEF Checkout
      <3>2. CASE Halt("Checkout", TRUE)
        BY <3>1, <3>2, HaltKeepsRejection
      <3>3. CASE \E to \in {"IsAncestor", "Idle"} : Go("Checkout", to)
        BY <3>1, <3>3, GoStays DEF RejectionInv, NothingToResume, BeforeWorker, StaysAt
      <3> QED
        BY <2>31, <3>2, <3>3 DEF Checkout, MergeFailed
    <2>32. CASE IsAncestor
      <3>1. rejected' = rejected
        BY <2>32 DEF IsAncestor
      <3>2. CASE Halt("IsAncestor", TRUE)
        BY <3>1, <3>2, HaltKeepsRejection
      <3>3. CASE \E to \in {"FastForward", "Idle"} : Go("IsAncestor", to)
        BY <3>1, <3>3, GoStays DEF RejectionInv, NothingToResume, BeforeWorker, StaysAt
      <3> QED
        BY <2>32, <3>2, <3>3 DEF IsAncestor, MergeFailed
    <2>33. CASE FastForward
      <3>1. rejected' = rejected
        BY <2>33 DEF FastForward
      <3>2. CASE Halt("FastForward", TRUE)
        BY <3>1, <3>2, HaltKeepsRejection
      <3>3. CASE \E to \in {"Recovered", "Complete", "Idle"} : Go("FastForward", to)
        BY <3>1, <3>3, GoStays DEF RejectionInv, NothingToResume, BeforeWorker, StaysAt
      <3> QED
        BY <2>33, <3>2, <3>3 DEF FastForward, MergeFailed
    <2>34. CASE RunTests
      BY <2>34, GoStays, EnterMoves
      DEF RunTests, RejectionInv, NothingToResume, BeforeWorker, MovesTo, StaysAt
    <2>35. CASE RunSast
      BY <2>35, GoStays, EnterMoves
      DEF RunSast, RejectionInv, NothingToResume, BeforeWorker, MovesTo, StaysAt
    <2>36. CASE ResumeMerge
      BY <2>36, GoStays
      DEF ResumeMerge, CanResumeMerge, RejectionInv, NothingToResume, BeforeWorker, StaysAt
    <2>37. CASE ResumeAudit
      BY <2>37, GoStays, EnterMoves
      DEF ResumeAudit, CanResumeAudit, RejectionInv, NothingToResume, BeforeWorker, MovesTo, StaysAt
    <2>38. CASE AuditCall
      <3>1. PICK answer \in Answers :
              /\ \/ StopsAudit(answer) /\ AuditVerdict(answer) /\ UNCHANGED cand
                 \/ ~StopsAudit(answer) /\ NextCandidate /\ UNCHANGED evidence
                 \/ /\ ~StopsAudit(answer) /\ cand = Candidates
                    /\ RequestHumanReview("AuditCall") /\ UNCHANGED <<cand, evidence>>
              /\ rejected' = (rejected \/ answer = "FAIL")
        BY <2>38 DEF AuditCall
      <3>2. pc = "AuditCall" /\ ~rejected
        BY <2>38 DEF AuditCall, RejectionInv, BeforeWorker
      <3>3. CASE answer = "FAIL"
        <4>1. Save("AuditCall", SpendSecurityReplan(ledger), "SecurityReplan")
          BY <3>1, <3>3 DEF StopsAudit, AuditVerdict
        <4> QED
          BY <3>1, <3>2, <4>1, SaveStays, OthersStay
          DEF RejectionInv, NothingToResume, BeforeWorker, StaysAt
      <3>4. CASE answer # "FAIL"
        <4>1. ~rejected'
          BY <3>1, <3>2, <3>4
        <4>2. \/ Go("AuditCall", "RecordModel")
              \/ Halt("AuditCall", TRUE) \/ Halt("AuditCall", FALSE)
              \/ RequestHumanReview("AuditCall")
              \/ Enter("AuditCall", "LOGIC_AUDIT", "AuditCall")
          BY <3>1, <3>4 DEF AuditVerdict, NextCandidate
        <4> QED
          <5>1. CASE Halt("AuditCall", TRUE) \/ Halt("AuditCall", FALSE)
            <6>1. rejected \in BOOLEAN
              BY DEF TypeOK
            <6>2. rejected' = rejected
              BY <3>1, <3>2, <3>4, <6>1
            <6> QED
              BY <5>1, <6>2, HaltKeepsRejection
          <5>2. CASE Go("AuditCall", "RecordModel")
            BY <4>1, <5>2, GoStays DEF RejectionInv, NothingToResume, BeforeWorker, StaysAt
          <5>3. CASE RequestHumanReview("AuditCall") \/ Enter("AuditCall", "LOGIC_AUDIT", "AuditCall")
            BY <3>2, <4>1, <5>3, ReviewMoves, EnterMoves DEF RejectionInv, NothingToResume, BeforeWorker, MovesTo
          <5> QED
            BY <4>2, <5>1, <5>2, <5>3
      <3> QED
        BY <3>3, <3>4
    <2>39. CASE \E m \in Modes : Launch(m)
      <3>1. \/ ledger' = InitState
            \/ ledger'.state = ledger.state /\ ledger'.last = ledger.last
        BY <2>39, OthersStay DEF Launch
      <3>2. NothingToResume(InitState)
        BY DEF InitState, NothingToResume
      <3>3. pc' \in {"Idle", "Init", "ResumeMerge", "ResumeAudit"} /\ rejected' = rejected
        BY <2>39 DEF Launch, FirstStep, Modes
      <3> QED
        BY <3>1, <3>2, <3>3 DEF RejectionInv, NothingToResume, BeforeWorker
    <2>40. CASE Crash
      BY <2>40
      DEF Crash, RejectionInv, NothingToResume, BeforeWorker
    <2>41. CASE BaseCommit \/ TaskCommit \/ DirtyMain \/ EditSpec \/ UNCHANGED vars
      <3>1. UNCHANGED <<ledger, pc, rejected>>
        BY <2>41 DEF BaseCommit, TaskCommit, DirtyMain, EditSpec, vars
      <3> QED
        BY <3>1 DEF RejectionInv, NothingToResume, BeforeWorker
    <2> QED
      BY <2>1, <2>2, <2>3, <2>4, <2>5, <2>6, <2>7, <2>8, <2>9, <2>10, <2>11, <2>12,
         <2>13, <2>14, <2>15, <2>16, <2>17, <2>18, <2>19, <2>20, <2>21, <2>22,
         <2>23, <2>24, <2>25, <2>26, <2>27, <2>28, <2>29, <2>30, <2>31, <2>32,
         <2>33, <2>34, <2>35, <2>36, <2>37, <2>38, <2>39, <2>40, <2>41 DEF Next,
         Step, Environment
  <1> QED
    BY <1>1, <1>2, TypeCorrect, PTL DEF Spec

\* The base branch changes only where git fast-forwards it and where somebody
\* commits to it.
LEMMA BaseWriters == [Next]_vars => base' = base \/ FastForward \/ BaseCommit
  <1> SUFFICES ASSUME [Next]_vars PROVE base' = base \/ FastForward \/ BaseCommit
    OBVIOUS
  <1> USE DEF gitVars
  <1>1. CASE InitPhase \/ SpecDesign \/ GenerateSpec \/ SpecGate \/
            ValidateSpec \/ SpecRetry \/ Building \/ Register \/ Worker \/
            DiffGate \/ ValidateDiff \/ LogicReplan \/ Testing \/ RunTests \/
            Triage \/ SastScan \/ RunSast
    BY <1>1 DEF InitPhase, SpecDesign, GenerateSpec, SpecGate, ValidateSpec,
       SpecRetry, Building, Register, Worker, DiffGate, ValidateDiff,
       LogicReplan, Testing, RunTests, Triage, SastScan, RunSast
  <1>2. CASE SastFilter \/ SecurityReplan \/ AuditDiff \/ AuditCall \/
            ReviewStatus \/ ReviewBlocked \/ RecordModel \/ AncestorCheck \/
            AutoMerge \/ RemoveWorktree \/ MergeClean \/ Checkout \/
            IsAncestor \/ Recovered \/ Complete \/ HaltStatus \/ ResumeMerge
            \/ ResumeAudit
    BY <1>2 DEF SastFilter, SecurityReplan, AuditDiff, AuditCall,
       ReviewStatus, ReviewBlocked, RecordModel, AncestorCheck, AutoMerge,
       RemoveWorktree, MergeClean, Checkout, IsAncestor, Recovered, Complete,
       HaltStatus, ResumeMerge, ResumeAudit
  <1>3. CASE CreateWorktree \/ Commit \/ TaskCommit
    BY <1>3 DEF CreateWorktree, Commit, TaskCommit
  <1>4. CASE (\E m \in Modes : Launch(m)) \/ Crash \/ DirtyMain \/ EditSpec \/ UNCHANGED vars
    BY <1>4 DEF Launch, Crash, DirtyMain, EditSpec, vars
  <1> QED
    BY <1>1, <1>2, <1>3, <1>4 DEF Next, Step, Environment

\* execute_logic_security_audit's rule 3, end to end: once an auditor has said
\* FAIL, no other auditor, later audit, restart or recovery merges the change.
THEOREM RejectionIsFinal == Spec => NoModelShopping
  <1>1. RejectionInv /\ [Next]_vars => [NewBuilds # {} => ~rejected]_vars
    <2> SUFFICES ASSUME RejectionInv, [Next]_vars, NewBuilds # {}
                 PROVE  ~rejected
      OBVIOUS
    <2>1. CASE base' = base
      BY <2>1 DEF NewBuilds
    <2>2. CASE FastForward
      BY <2>2 DEF FastForward, MergeFailed, Go, Halt, Save, RejectionInv, BeforeWorker
    <2>3. CASE BaseCommit
      BY <2>3 DEF BaseCommit, NewBuilds
    <2> QED
      BY <2>1, <2>2, <2>3, BaseWriters
  <1> QED
    BY <1>1, RejectionInductive, PTL DEF Spec, NoModelShopping

-----------------------------------------------------------------------------
(* What was merged, and what a reviewer is told, passed the gates *)

\* What the checked path asks of the environment: people keep off the task
\* branch, git commits what it is told to, the scanner works, the models are
\* real.  Crashes, torn writes, restarts, commits to the base branch, edits of
\* the main copy and of the specification, and locked files are all allowed.
Undisturbed ==
    Events \cap {"task_commit", "commit_fails", "tool_error", "simulate"} = {}

\* The gates of G last passed the tree that is on the task branch.
Passed(G) == \A g \in G : evidence[g] = task

\* The tree passed every gate, and the ledger names the auditor.
Verified == Passed(Gates) /\ ledger.auditor # 0

\* A ledger on which a merge was begun, and from which one may be resumed.
MergeBegun(l) ==
    \/ l.state = "AUTO_MERGE"
    \/ l.state = "HALT_HUMAN" /\ l.last.from = "AUTO_MERGE"

\* The steps that read the ledger of an earlier process and touch nothing else.
Starting == {"Idle", "Init", "ResumeMerge", "ResumeAudit"}

\* The steps that run with a worktree, those of them after the commit, and
\* those after each gate.
PastTests   == {"SastScan", "RunSast", "SastFilter", "AuditDiff", "AuditCall", "RecordModel"}
PastDiff    == PastTests \cup {"Testing", "RunTests"}
PastCommit  == PastDiff \cup {"DiffGate", "ValidateDiff"}
InWorktree  == (PastCommit \ {"RecordModel"})
               \cup {"Building", "Register", "Worker", "Commit", "LogicReplan", "Triage",
                     "SecurityReplan"}
Merging     == {"AncestorCheck", "AutoMerge", "RemoveWorktree", "MergeClean", "Checkout",
                "IsAncestor", "FastForward", "Recovered", "Complete"}

\* The inductive invariant.  The first parts follow the evidence through one
\* process; the last three say what the ledger promises to the next one.
EvidenceInv ==
    /\ ~sim
    /\ pc \in InWorktree => wt
    /\ pc \in PastCommit => loose = {}
    /\ pc \in PastDiff => evidence["diff"] = task
    /\ pc \in PastTests => evidence["test"] = task
    /\ pc \in {"AuditDiff", "AuditCall", "RecordModel"} => evidence["sast"] = task
    /\ pc = "RecordModel" => evidence["audit"] = task
    /\ pc \in Merging => Verified
    /\ ledger.state = "HUMAN_REVIEW" =>
        /\ pc \in Starting \cup {"ReviewStatus", "ReviewBlocked"}
        /\ wt /\ loose = {} /\ Passed(Gates \ {"audit"})
    /\ MergeBegun(ledger) =>
        /\ pc \in Starting \cup Merging \cup {"HaltStatus"}
        /\ Verified

\* Once the ledger names an auditor, no step of the process makes it forget.
LEMMA AuditorNamed ==
  ASSUME TypeOK, BudgetInv, [Next]_vars, pc # "Idle", ledger.auditor # 0
  PROVE  ledger'.auditor # 0
  <1>1. ledger \in LedgerType /\ cand # 0 /\ file # "absent"
    BY DEF TypeOK, BudgetInv
  <1>2. LedgerMove
    BY LedgerMoves
  <1> QED
    BY <1>1, <1>2 DEF LedgerMove, LedgerType, Transition, SetStatus, RegisterWorkerRun,
       SpendSpecRetry, SpendLogicReplan, SpendSecurityReplan, NewEpoch, SetBlockedReason,
       RecordAuditModel, LoadState

\* What a step leaves alone that only moves the ledger or the process.
Frame == UNCHANGED <<sim, wt, loose, task, evidence>>

\* The ledger names an auditor after the step if it did before.
StillNamed == ledger.auditor # 0 => ledger'.auditor # 0

\* A halt keeps the invariant, wherever in the pipeline it happens: the only
\* state it can leave a resumable merge in is AUTO_MERGE.
LEMMA HaltKeepsEvidence ==
  ASSUME ledger \in LedgerType, EvidenceInv, pc # "Idle" => StillNamed,
         sim' = sim, task' = task, evidence' = evidence,
         NEW from, from \notin Starting \cup {"ReviewStatus", "ReviewBlocked"},
         Halt(from, TRUE) \/ Halt(from, FALSE)
  PROVE  EvidenceInv'
  <1>1. MovesTo(from, "HALT_HUMAN", "HaltStatus")
    BY HaltMoves
  <1>2. ledger.state # "HUMAN_REVIEW"
    BY <1>1 DEF EvidenceInv, MovesTo
  <1>3. MergeBegun(ledger') => MergeBegun(ledger)
    BY <1>1, <1>2 DEF MergeBegun, MovesTo
  <1>4. pc' \in {"HaltStatus", "Idle"} /\ ledger'.state # "HUMAN_REVIEW"
    BY <1>1, <1>2 DEF MovesTo
  <1>5. Verified => Verified'
    BY <1>1 DEF Verified, Passed, StillNamed, MovesTo, Starting
  <1> QED
    BY <1>3, <1>4, <1>5
    DEF EvidenceInv, Starting, PastTests, PastDiff, PastCommit, InWorktree, Merging

\* The gate g passes the tree on the task branch, and no other gate is asked.
LEMMA GatePasses ==
  ASSUME TypeOK, NEW g \in Gates, loose = {}, Passes(g, WorktreeTree)
  PROVE  evidence'[g] = task /\ \A h \in Gates \ {g} : evidence'[h] = evidence[h]
  <1>1. WorktreeTree = task
    BY DEF WorktreeTree
  <1> QED
    BY <1>1 DEF TypeOK, Passes

\* The invariant holds in every state of every behaviour.
THEOREM EvidenceInductive == Undisturbed => (Spec => []EvidenceInv)
  <1> SUFFICES ASSUME Undisturbed PROVE Spec => []EvidenceInv
    OBVIOUS
  <1>1. Init => EvidenceInv
    BY DEF Init, InitState, EvidenceInv, MergeBegun, Starting, PastTests, PastDiff, PastCommit,
       InWorktree, Merging
  <1>2. TypeOK /\ BudgetInv /\ EvidenceInv /\ [Next]_vars => EvidenceInv'
    <2> SUFFICES ASSUME TypeOK, BudgetInv, EvidenceInv, [Next]_vars
                 PROVE  EvidenceInv'
      OBVIOUS
    <2>0. ledger \in LedgerType
      BY DEF TypeOK
    <2>a. pc # "Idle" => StillNamed
      BY AuditorNamed DEF StillNamed
    <2> USE <2>0, <2>a
    <2> USE DEF Frame, EvidenceInv, Verified, Passed, MergeBegun, StillNamed, MovesTo, StaysAt,
                Starting, PastTests, PastDiff, PastCommit, InWorktree, Merging
    <2> USE DEF procVars, gitVars, wtVars, obsVars, fileVars
    <2>1. CASE InitPhase
      BY <2>1, EnterMoves DEF InitPhase
    <2>2. CASE SpecDesign
      BY <2>2, EnterMoves DEF SpecDesign
    <2>3. CASE SpecGate
      BY <2>3, EnterMoves DEF SpecGate
    <2>4. CASE Building
      BY <2>4, EnterMoves DEF Building
    <2>5. CASE DiffGate
      BY <2>5, EnterMoves DEF DiffGate
    <2>6. CASE Testing
      BY <2>6, EnterMoves DEF Testing
    <2>7. CASE SastScan
      BY <2>7, EnterMoves DEF SastScan
    <2>8. CASE AutoMerge
      BY <2>8, EnterMoves DEF AutoMerge
    <2>9. CASE Recovered
      BY <2>9, EnterMoves DEF Recovered
    <2>10. CASE GenerateSpec
      BY <2>10, GoStays DEF GenerateSpec
    <2>11. CASE ResumeMerge
      BY <2>11, GoStays DEF ResumeMerge, CanResumeMerge
    <2>12. CASE Worker
      BY <2>12, GoStays DEF Worker
    <2>13. CASE RemoveWorktree
      BY <2>13, GoStays DEF RemoveWorktree
    <2>14. CASE Commit
      BY <2>14, GoStays DEF Commit, Undisturbed
    <2>15. CASE ReviewStatus
      BY <2>15, SaveStays, OthersStay DEF ReviewStatus
    <2>16. CASE ReviewBlocked
      BY <2>16, SaveStays, OthersStay DEF ReviewBlocked
    <2>17. CASE Complete
      BY <2>17, SaveStays, OthersStay DEF Complete
    <2>18. CASE HaltStatus
      BY <2>18, SaveStays, OthersStay DEF HaltStatus
    <2>19. CASE RecordModel
      <3>1. ledger'.auditor = cand \/ pc' = "Idle"
        BY <2>19 DEF RecordModel, RecordAuditModel, Save, LedgerType
      <3>2. cand # 0
        BY DEF TypeOK
      <3>3. Frame
        BY <2>19 DEF RecordModel
      <3>4. \E to \in {"AutoMerge", "AncestorCheck"} : StaysAt("RecordModel", to)
        BY <2>19, SaveStays, OthersStay DEF RecordModel
      <3>5. Passed(Gates)
        BY <3>4 DEF Gates
      <3> QED
        BY <3>1, <3>2, <3>3, <3>4, <3>5
    <2>20. CASE SpecRetry
      <3>1. Frame
        BY <2>20 DEF SpecRetry
      <3>2. CASE Halt("SpecRetry", FALSE)
        BY <3>1, <3>2, HaltKeepsEvidence
      <3>3. CASE Go("SpecRetry", "CreateWorktree")
        BY <2>20, <3>1, <3>3, GoStays
      <3> QED
        BY <2>20, <3>2, <3>3 DEF SpecRetry
    <2>21. CASE AuditDiff
      <3>1. Frame
        BY <2>21 DEF AuditDiff
      <3>2. CASE Halt("AuditDiff", FALSE)
        BY <3>1, <3>2, HaltKeepsEvidence
      <3>3. CASE Go("AuditDiff", "AuditCall")
        BY <2>21, <3>1, <3>3, GoStays
      <3> QED
        BY <2>21, <3>2, <3>3 DEF AuditDiff
    <2>22. CASE AncestorCheck
      <3>1. Frame
        BY <2>22 DEF AncestorCheck
      <3>2. CASE Halt("AncestorCheck", TRUE)
        BY <3>1, <3>2, HaltKeepsEvidence
      <3>3. CASE Go("AncestorCheck", "AutoMerge")
        BY <2>22, <3>1, <3>3, GoStays
      <3> QED
        BY <2>22, <3>2, <3>3 DEF AncestorCheck
    <2>23. CASE Register
      <3>1. Frame
        BY <2>23 DEF Register
      <3>2. CASE Halt("Register", FALSE)
        BY <3>1, <3>2, HaltKeepsEvidence
      <3>3. CASE Save("Register", RegisterWorkerRun(ledger), "Worker")
        BY <2>23, <3>1, <3>3, SaveStays, OthersStay
      <3> QED
        BY <2>23, <3>2, <3>3 DEF Register
    <2>24. CASE LogicReplan
      <3>1. Frame
        BY <2>24 DEF LogicReplan
      <3>2. CASE Halt("LogicReplan", FALSE)
        BY <3>1, <3>2, HaltKeepsEvidence
      <3>3. CASE Save("LogicReplan", NewEpoch(ledger), "Building")
        BY <2>24, <3>1, <3>3, SaveStays, OthersStay
      <3> QED
        BY <2>24, <3>2, <3>3 DEF LogicReplan
    <2>25. CASE SecurityReplan
      <3>1. Frame
        BY <2>25 DEF SecurityReplan
      <3>2. CASE Halt("SecurityReplan", FALSE)
        BY <3>1, <3>2, HaltKeepsEvidence
      <3>3. CASE \E to \in {"Building", "Idle"} : Save("SecurityReplan", NewEpoch(ledger), to)
        BY <2>25, <3>1, <3>3, SaveStays, OthersStay
      <3> QED
        BY <2>25, <3>2, <3>3 DEF SecurityReplan
    <2>26. CASE MergeClean
      <3>1. Frame
        BY <2>26 DEF MergeClean
      <3>2. CASE Halt("MergeClean", TRUE)
        BY <3>1, <3>2, HaltKeepsEvidence
      <3>3. CASE \E to \in {"Checkout", "Idle"} : Go("MergeClean", to)
        BY <2>26, <3>1, <3>3, GoStays
      <3> QED
        BY <2>26, <3>2, <3>3 DEF MergeClean, MergeFailed
    <2>27. CASE Checkout
      <3>1. Frame
        BY <2>27 DEF Checkout
      <3>2. CASE Halt("Checkout", TRUE)
        BY <3>1, <3>2, HaltKeepsEvidence
      <3>3. CASE \E to \in {"IsAncestor", "Idle"} : Go("Checkout", to)
        BY <2>27, <3>1, <3>3, GoStays
      <3> QED
        BY <2>27, <3>2, <3>3 DEF Checkout, MergeFailed
    <2>28. CASE IsAncestor
      <3>1. Frame
        BY <2>28 DEF IsAncestor
      <3>2. CASE Halt("IsAncestor", TRUE)
        BY <3>1, <3>2, HaltKeepsEvidence
      <3>3. CASE \E to \in {"FastForward", "Idle"} : Go("IsAncestor", to)
        BY <2>28, <3>1, <3>3, GoStays
      <3> QED
        BY <2>28, <3>2, <3>3 DEF IsAncestor, MergeFailed
    <2>29. CASE FastForward
      <3>1. Frame
        BY <2>29 DEF FastForward
      <3>2. CASE Halt("FastForward", TRUE)
        BY <3>1, <3>2, HaltKeepsEvidence
      <3>3. CASE \E to \in {"Recovered", "Complete", "Idle"} : Go("FastForward", to)
        BY <2>29, <3>1, <3>3, GoStays
      <3> QED
        BY <2>29, <3>2, <3>3 DEF FastForward, MergeFailed
    <2>30. CASE CreateWorktree
      <3>1. sim' = sim /\ evidence' = evidence
        BY <2>30 DEF CreateWorktree
      <3>2. CASE Halt("CreateWorktree", FALSE) /\ task' = task
        BY <3>1, <3>2, HaltKeepsEvidence
      <3>3. CASE Go("CreateWorktree", "Building") /\ wt' = TRUE
        BY <3>1, <3>3, GoStays
      <3> QED
        BY <2>30, <3>2, <3>3 DEF CreateWorktree
    <2>31. CASE ValidateSpec
      <3>1. Frame
        BY <2>31 DEF ValidateSpec
      <3> QED
        BY <2>31, <3>1, GoStays, SaveStays, OthersStay DEF ValidateSpec
    <2>32. CASE Triage
      <3>1. Frame
        BY <2>32 DEF Triage
      <3> QED
        BY <2>32, <3>1, GoStays, SaveStays, OthersStay DEF Triage, RetryOrReplan
    <2>33. CASE ValidateDiff
      <3>1. sim' = sim /\ wt' = wt /\ loose' = loose /\ task' = task /\ pc = "ValidateDiff"
        BY <2>33 DEF ValidateDiff, Go, Enter, Save, RetryOrReplan
      <3>2. CASE Go("ValidateDiff", "Testing") /\ Passes("diff", WorktreeTree)
        <4>1. evidence'["diff"] = task /\ \A h \in Gates \ {"diff"} : evidence'[h] = evidence[h]
          BY <3>1, <3>2, GatePasses DEF Gates
        <4> QED
          BY <3>1, <3>2, <4>1, GoStays DEF Gates
      <3>3. CASE RetryOrReplan("ValidateDiff") /\ UNCHANGED evidence
        BY <3>1, <3>3, GoStays, SaveStays, OthersStay DEF RetryOrReplan
      <3> QED
        BY <2>33, <3>2, <3>3 DEF ValidateDiff
    <2>34. CASE RunTests
      <3>1. sim' = sim /\ wt' = wt /\ loose' = loose /\ task' = task /\ pc = "RunTests"
        BY <2>34 DEF RunTests, Go, Enter, Save, RetryOrReplan
      <3>2. CASE Go("RunTests", "SastScan") /\ Passes("test", WorktreeTree)
        <4>1. evidence'["test"] = task /\ \A h \in Gates \ {"test"} : evidence'[h] = evidence[h]
          BY <3>1, <3>2, GatePasses DEF Gates
        <4> QED
          BY <3>1, <3>2, <4>1, GoStays DEF Gates
      <3>3. CASE Enter("RunTests", "TRIAGING", "Triage") /\ UNCHANGED evidence
        BY <3>1, <3>3, EnterMoves
      <3> QED
        BY <2>34, <3>2, <3>3 DEF RunTests
    <2>35. CASE RunSast
      <3>1. sim' = sim /\ wt' = wt /\ loose' = loose /\ task' = task /\ pc = "RunSast"
        BY <2>35 DEF RunSast, Go, Enter, Save, RetryOrReplan
      <3>2. CASE Go("RunSast", "AuditDiff") /\ Passes("sast", WorktreeTree)
        <4>1. evidence'["sast"] = task /\ \A h \in Gates \ {"sast"} : evidence'[h] = evidence[h]
          BY <3>1, <3>2, GatePasses DEF Gates
        <4> QED
          BY <3>1, <3>2, <4>1, GoStays DEF Gates
      <3>3. CASE Enter("RunSast", "SAST_FILTER", "SastFilter") /\ UNCHANGED evidence
        BY <3>1, <3>3, EnterMoves
      <3> QED
        BY <2>35, <3>2, <3>3 DEF RunSast, Undisturbed
    <2>36. CASE SastFilter
      <3>1. sim' = sim /\ wt' = wt /\ loose' = loose /\ task' = task /\ pc = "SastFilter"
        BY <2>36 DEF SastFilter, Go, Enter, Save, RetryOrReplan
      <3>2. CASE Go("SastFilter", "AuditDiff") /\ Passes("sast", WorktreeTree)
        <4>1. evidence'["sast"] = task /\ \A h \in Gates \ {"sast"} : evidence'[h] = evidence[h]
          BY <3>1, <3>2, GatePasses DEF Gates
        <4> QED
          BY <3>1, <3>2, <4>1, GoStays DEF Gates
      <3>3. CASE Save("SastFilter", SpendSecurityReplan(ledger), "SecurityReplan") /\ UNCHANGED evidence
        BY <3>1, <3>3, SaveStays, OthersStay
      <3> QED
        BY <2>36, <3>2, <3>3 DEF SastFilter
    <2>37. CASE ResumeAudit
      <3>1. Frame
        BY <2>37 DEF ResumeAudit
      <3>2. CASE Go("ResumeAudit", "Idle")
        BY <3>1, <3>2, GoStays
      <3>3. CASE CanResumeAudit(ledger) /\ Enter("ResumeAudit", "LOGIC_AUDIT", "AuditDiff")
        BY <3>1, <3>3, EnterMoves DEF CanResumeAudit, Gates
      <3> QED
        BY <2>37, <3>2, <3>3 DEF ResumeAudit
    <2>38. CASE AuditCall
      <3>1. PICK answer \in Answers :
              \/ StopsAudit(answer) /\ AuditVerdict(answer) /\ UNCHANGED cand
              \/ ~StopsAudit(answer) /\ NextCandidate /\ UNCHANGED evidence
              \/ /\ ~StopsAudit(answer) /\ cand = Candidates
                 /\ RequestHumanReview("AuditCall") /\ UNCHANGED <<cand, evidence>>
        BY <2>38 DEF AuditCall
      <3>2. UNCHANGED <<sim, wt, loose, task>> /\ pc = "AuditCall"
        BY <2>38 DEF AuditCall
      <3>3. CASE Go("AuditCall", "RecordModel") /\ Passes("audit", task)
        <4>1. evidence'["audit"] = task /\ \A h \in Gates \ {"audit"} : evidence'[h] = evidence[h]
          BY <3>3 DEF TypeOK, Passes, Gates
        <4> QED
          BY <3>2, <3>3, <4>1, GoStays DEF Gates
      <3>4. CASE (Halt("AuditCall", TRUE) \/ Halt("AuditCall", FALSE)) /\ UNCHANGED evidence
        BY <3>2, <3>4, HaltKeepsEvidence
      <3>5. CASE UNCHANGED evidence /\ Save("AuditCall", SpendSecurityReplan(ledger), "SecurityReplan")
        BY <3>2, <3>5, SaveStays, OthersStay
      <3>6. CASE UNCHANGED evidence /\ RequestHumanReview("AuditCall")
        BY <3>2, <3>6, ReviewMoves DEF Gates
      <3>7. CASE UNCHANGED evidence /\ Enter("AuditCall", "LOGIC_AUDIT", "AuditCall")
        BY <3>2, <3>7, EnterMoves
      <3> QED
        BY <3>1, <3>3, <3>4, <3>5, <3>6, <3>7 DEF AuditVerdict, NextCandidate
    <2>39. CASE \E m \in Modes : Launch(m)
      <3>1. \/ ledger' = InitState
            \/ /\ ledger'.state = ledger.state /\ ledger'.last = ledger.last
               /\ ledger'.auditor = ledger.auditor
        BY <2>39, OthersStay DEF Launch, LoadState, SetStatus, LedgerType
      <3>2. InitState.state = "INIT"
        BY DEF InitState
      <3>3. pc = "Idle" /\ pc' \in Starting
        BY <2>39 DEF Launch, FirstStep, Modes
      <3>4. UNCHANGED <<wt, loose, task, evidence>>
        BY <2>39 DEF Launch
      <3>5. ~sim'
        <4>1. "simulate" \notin Events
          BY DEF Undisturbed
        <4> QED
          BY <2>39, <4>1 DEF Launch
      <3> QED
        BY <3>1, <3>2, <3>3, <3>4, <3>5
    <2>40. CASE Crash
      <3>1. Frame /\ pc' = "Idle" /\ UNCHANGED ledger
        BY <2>40 DEF Crash
      <3> QED
        BY <3>1
    <2>41. CASE BaseCommit \/ TaskCommit \/ DirtyMain \/ EditSpec \/ UNCHANGED vars
      <3>1. Frame /\ UNCHANGED <<ledger, pc>>
        BY <2>41 DEF BaseCommit, TaskCommit, DirtyMain, EditSpec, vars, Undisturbed
      <3> QED
        BY <3>1
    <2> HIDE DEF Frame, EvidenceInv, Verified, Passed, MergeBegun, StillNamed, MovesTo, StaysAt,
                 Starting, PastTests, PastDiff, PastCommit, InWorktree, Merging
    <2> HIDE DEF procVars, gitVars, wtVars, obsVars, fileVars
    <2> QED
      BY <2>1, <2>2, <2>3, <2>4, <2>5, <2>6, <2>7, <2>8, <2>9, <2>10, <2>11,
         <2>12, <2>13, <2>14, <2>15, <2>16, <2>17, <2>18, <2>19, <2>20, <2>21,
         <2>22, <2>23, <2>24, <2>25, <2>26, <2>27, <2>28, <2>29, <2>30, <2>31,
         <2>32, <2>33, <2>34, <2>35, <2>36, <2>37, <2>38, <2>39, <2>40, <2>41
      DEF Next, Step, Environment
  <1> QED
    BY <1>1, <1>2, TypeCorrect, BudgetInductive, PTL DEF Spec

\* request_human_review's report is true whenever somebody reads it: as long as
\* the ledger says HUMAN_REVIEW the worktree is there, nothing in it is
\* uncommitted, and the tests, the scanner and the diff gate passed that tree,
\* over every crash, restart and failed recovery.
THEOREM ReviewReportsTrue == Undisturbed => (Spec => []ReviewIsTruthful)
  <1>1. EvidenceInv => ReviewIsTruthful
    BY DEF EvidenceInv, Passed, ReviewIsTruthful
  <1> QED
    BY <1>1, EvidenceInductive, PTL

\* Only the tree that every gate passed is merged, on the straight path and on
\* both recovery paths.
THEOREM OnlyVerifiedMerges == Undisturbed => (Spec => VerifiedMerge)
  <1>1. TypeOK /\ EvidenceInv /\ [Next]_vars =>
          [NewBuilds # {} => (\A g \in Gates : evidence[g] = base') /\ ledger.auditor # 0]_vars
    <2> SUFFICES ASSUME TypeOK, EvidenceInv, [Next]_vars, NewBuilds # {}
                 PROVE  (\A g \in Gates : evidence[g] = base') /\ ledger.auditor # 0
      OBVIOUS
    <2>1. FastForward /\ base' = task
      BY BaseWriters DEF NewBuilds, FastForward, BaseCommit
    <2>2. pc = "FastForward"
      BY <2>1 DEF FastForward, MergeFailed, Go, Halt, Save
    <2> QED
      BY <2>1, <2>2 DEF EvidenceInv, Merging, Verified, Passed
  <1> QED
    BY <1>1, TypeCorrect, EvidenceInductive, PTL DEF Spec, VerifiedMerge

-----------------------------------------------------------------------------
(* COMPLETED means merged *)

\* The process is past the merge only once the task branch is in the base.
PastMergeInv == pc \in {"Recovered", "Complete"} => task \subseteq base

\* A step comes past the merge only by the fast-forward, or from there.
LEMMA PastMergeEntered ==
  ASSUME [Next]_vars, pc' \in {"Recovered", "Complete"}
  PROVE  /\ task' = task
         /\ base' = task \/ pc \in {"Recovered", "Complete"}
  <1> USE DEF Go, Enter, Halt, Save, gitVars
  <1>1. CASE InitPhase \/ SpecDesign \/ GenerateSpec \/ SpecGate \/ ValidateSpec \/ SpecRetry
             \/ CreateWorktree \/ Building \/ Register \/ Worker \/ Commit \/ DiffGate
    BY <1>1 DEF InitPhase, SpecDesign, GenerateSpec, SpecGate, ValidateSpec, SpecRetry,
       CreateWorktree, Building, Register, Worker, Commit, DiffGate
  <1>2. CASE ValidateDiff \/ LogicReplan \/ Testing \/ RunTests \/ Triage \/ SastScan \/ RunSast
             \/ SastFilter \/ SecurityReplan \/ AuditDiff
    BY <1>2 DEF ValidateDiff, LogicReplan, Testing, RunTests, Triage, SastScan, RunSast,
       SastFilter, SecurityReplan, AuditDiff, RetryOrReplan
  <1>3. CASE AuditCall
    BY <1>3 DEF AuditCall, AuditVerdict, NextCandidate, RequestHumanReview
  <1>4. CASE ReviewStatus \/ ReviewBlocked \/ RecordModel \/ AncestorCheck \/ AutoMerge
             \/ RemoveWorktree \/ MergeClean \/ Checkout \/ IsAncestor
    BY <1>4 DEF ReviewStatus, ReviewBlocked, RecordModel, AncestorCheck, AutoMerge,
       RemoveWorktree, MergeClean, Checkout, IsAncestor, MergeFailed
  <1>5. CASE FastForward \/ Recovered \/ Complete \/ HaltStatus \/ ResumeMerge \/ ResumeAudit
    BY <1>5 DEF FastForward, MergeFailed, Recovered, Complete, HaltStatus, ResumeMerge, ResumeAudit
  <1>6. CASE \E m \in Modes : Launch(m)
    BY <1>6 DEF Launch, FirstStep, Modes
  <1>7. CASE Crash \/ BaseCommit \/ TaskCommit \/ DirtyMain \/ EditSpec \/ UNCHANGED vars
    BY <1>7 DEF Crash, BaseCommit, TaskCommit, DirtyMain, EditSpec, vars
  <1> QED
    BY <1>1, <1>2, <1>3, <1>4, <1>5, <1>6, <1>7 DEF Next, Step, Environment

\* No other method of StateManager writes execution_status.
LEMMA StatusKept ==
  ASSUME NEW l \in LedgerType, NEW to, NEW m, NEW c
  PROVE  \A k \in {Transition(l, to, m), RegisterWorkerRun(l), SpendSpecRetry(l),
                   SpendLogicReplan(l), SpendSecurityReplan(l), NewEpoch(l),
                   SetBlockedReason(l), RecordAuditModel(l, c)} : k.status = l.status
  BY DEF LedgerType, Transition, RegisterWorkerRun, SpendSpecRetry, SpendLogicReplan,
         SpendSecurityReplan, NewEpoch, SetBlockedReason, RecordAuditModel

\* A step comes past the merge only when the task branch is in the base.
LEMMA PastMergeAlways == Spec => []PastMergeInv
  <1>1. Init => PastMergeInv
    BY DEF Init, PastMergeInv
  <1>2. PastMergeInv /\ [Next]_vars => PastMergeInv'
    <2> SUFFICES ASSUME PastMergeInv, [Next]_vars, pc' \in {"Recovered", "Complete"}
                 PROVE  task' \subseteq base'
      BY DEF PastMergeInv
    <2>1. base \subseteq base' \/ base' = task
      BY BaseWriters DEF FastForward, BaseCommit
    <2> QED
      BY <2>1, PastMergeEntered DEF PastMergeInv
  <1> QED
    BY <1>1, <1>2, PTL DEF Spec

\* The step that writes COMPLETED finds the task branch in the base.
LEMMA CompletedThere ==
  ASSUME TypeOK, PastMergeInv, [Next]_vars,
         ledger.status # "COMPLETED", ledger'.status = "COMPLETED"
  PROVE  task \subseteq base
  <1>1. ledger \in LedgerType
    BY DEF TypeOK
  <1>2. LedgerMove
    BY LedgerMoves
  <1>3. ledger' # InitState /\ ledger' # LoadState(ledger)
    BY <1>1 DEF InitState, LoadState, SetStatus, LedgerType
  <1>4. \A st : SetStatus(ledger, st).status = st
    BY <1>1 DEF SetStatus, LedgerType
  <1>5. pc = "Complete"
    BY <1>1, <1>2, <1>3, <1>4, StatusKept DEF LedgerMove
  <1> QED
    BY <1>5 DEF PastMergeInv

\* COMPLETED is written only where the merge is done, whatever people, git and
\* the models do: the status of a task is never ahead of the base branch.
THEOREM CompletedMeansMerged == Spec => CompletedIsMerged
  <1>1. TypeOK /\ PastMergeInv /\ [Next]_vars =>
          [ledger.status # "COMPLETED" /\ ledger'.status = "COMPLETED" => task \subseteq base]_vars
    BY CompletedThere
  <1> QED
    BY <1>1, PastMergeAlways, TypeCorrect, PTL DEF Spec, CompletedIsMerged

-----------------------------------------------------------------------------
(* The factory keeps the promise of Integration *)

\* The steps of a process that may not have a task branch yet.
BeforeBranch ==
    {"Idle", "Init", "SpecDesign", "GenerateSpec", "SpecGate", "ValidateSpec",
     "SpecRetry", "CreateWorktree", "HaltStatus", "ResumeMerge", "ResumeAudit"}

BranchInv == ~branch => task = {} /\ pc \in BeforeBranch

\* A gate's verdict is about a tree the task branch has had.
TraceInv == \A g \in Gates : evidence[g] \subseteq task

\* No step works on a branch that is not there.
LEMMA BranchAlways == Spec => []BranchInv
  <1>1. Init => BranchInv
    BY DEF Init, BranchInv, BeforeBranch
  <1>2. BranchInv /\ [Next]_vars => BranchInv'
    <2> SUFFICES ASSUME BranchInv, [Next]_vars, ~branch'
                 PROVE  task' = {} /\ pc' \in BeforeBranch
      BY DEF BranchInv
    <2> USE DEF Go, Enter, Halt, Save, gitVars, BranchInv, BeforeBranch
    <2>1. CASE InitPhase \/ SpecDesign \/ GenerateSpec \/ SpecGate \/ ValidateSpec \/ SpecRetry
               \/ CreateWorktree \/ Building \/ Register \/ Worker \/ Commit \/ DiffGate
      BY <2>1 DEF InitPhase, SpecDesign, GenerateSpec, SpecGate, ValidateSpec, SpecRetry,
         CreateWorktree, Building, Register, Worker, Commit, DiffGate
    <2>2. CASE ValidateDiff \/ LogicReplan \/ Testing \/ RunTests \/ Triage \/ SastScan \/ RunSast
               \/ SastFilter \/ SecurityReplan \/ AuditDiff
      BY <2>2 DEF ValidateDiff, LogicReplan, Testing, RunTests, Triage, SastScan, RunSast,
         SastFilter, SecurityReplan, AuditDiff, RetryOrReplan
    <2>3. CASE AuditCall
      BY <2>3 DEF AuditCall
    <2>4. CASE ReviewStatus \/ ReviewBlocked \/ RecordModel \/ AncestorCheck \/ AutoMerge
               \/ RemoveWorktree \/ MergeClean \/ Checkout \/ IsAncestor
      BY <2>4 DEF ReviewStatus, ReviewBlocked, RecordModel, AncestorCheck, AutoMerge,
         RemoveWorktree, MergeClean, Checkout, IsAncestor, MergeFailed
    <2>5. CASE FastForward \/ Recovered \/ Complete \/ HaltStatus
      BY <2>5 DEF FastForward, MergeFailed, Recovered, Complete, HaltStatus
    <2>8. CASE ResumeMerge
      BY <2>8 DEF ResumeMerge
    <2>9. CASE ResumeAudit
      BY <2>9 DEF ResumeAudit, RepositoryAllowsAudit
    <2>6. CASE \E m \in Modes : Launch(m)
      BY <2>6 DEF Launch, FirstStep, Modes
    <2>7. CASE Crash \/ BaseCommit \/ TaskCommit \/ DirtyMain \/ EditSpec \/ UNCHANGED vars
      BY <2>7 DEF Crash, BaseCommit, TaskCommit, DirtyMain, EditSpec, vars
    <2> QED
      BY <2>1, <2>2, <2>3, <2>4, <2>5, <2>6, <2>7, <2>8, <2>9 DEF Next, Step, Environment
  <1> QED
    BY <1>1, <1>2, PTL DEF Spec

\* What one step does to the variables of Integration, other than "done".
PromiseMove ==
    \/ UNCHANGED <<base, task, evidence, rejected>>
    \/ /\ UNCHANGED <<base, evidence, rejected, ledger>>
       /\ \/ ~branch /\ task' = base
          \/ task' = task \cup loose
    \/ /\ pc = "FastForward" /\ base \subseteq task /\ base' = task
       /\ UNCHANGED <<task, evidence, rejected, ledger>>
    \/ /\ \E c \in {"human"} \X Nat : base' = base \cup {c}
       /\ UNCHANGED <<task, evidence, rejected, ledger>>
    \/ rejected' = FALSE /\ UNCHANGED <<base, task, evidence, ledger>>
    \/ rejected' = TRUE /\ ledger'.status = ledger.status /\ UNCHANGED <<base, task, evidence>>
    \/ /\ \E g \in Gates : Passes(g, WorktreeTree)
       /\ pc \in PastCommit /\ UNCHANGED <<base, task, rejected, ledger>>
    \/ Passes("audit", task) /\ UNCHANGED <<base, task, rejected, ledger>>

\* Every step is such a move.
LEMMA PromiseMoves ==
  ASSUME Undisturbed, TypeOK, [Next]_vars
  PROVE  PromiseMove
  <1> USE DEF PromiseMove, gitVars, obsVars
  <1>1. CASE InitPhase \/ SpecDesign \/ GenerateSpec \/ SpecGate \/ ValidateSpec \/ SpecRetry
             \/ Building \/ Register \/ DiffGate \/ LogicReplan \/ Testing \/ Triage
    BY <1>1 DEF InitPhase, SpecDesign, GenerateSpec, SpecGate, ValidateSpec, SpecRetry,
       Building, Register, DiffGate, LogicReplan, Testing, Triage
  <1>2. CASE SastScan \/ SecurityReplan \/ AuditDiff \/ ReviewStatus \/ ReviewBlocked
             \/ RecordModel \/ AncestorCheck \/ AutoMerge \/ RemoveWorktree \/ MergeClean
             \/ Checkout \/ IsAncestor \/ Recovered \/ Complete \/ HaltStatus \/ ResumeMerge
             \/ ResumeAudit
    BY <1>2 DEF SastScan, SecurityReplan, AuditDiff, ReviewStatus, ReviewBlocked, RecordModel,
       AncestorCheck, AutoMerge, RemoveWorktree, MergeClean, Checkout, IsAncestor, Recovered,
       Complete, HaltStatus, ResumeMerge, ResumeAudit
  <1>3. CASE CreateWorktree \/ Commit
    BY <1>3 DEF CreateWorktree, Commit, Go, fileVars
  <1>4. CASE Worker
    BY <1>4 DEF Worker, Go, fileVars
  <1>5. CASE FastForward
    BY <1>5 DEF FastForward, IsAncestorOf, Go, fileVars
  <1>6. CASE ValidateDiff \/ RunTests \/ RunSast \/ SastFilter
    BY <1>6 DEF ValidateDiff, RunTests, RunSast, SastFilter, Go, fileVars, Gates, PastCommit,
       PastDiff, PastTests, Undisturbed
  <1>7. CASE AuditCall
    <2>1. PICK answer \in Answers :
            /\ \/ StopsAudit(answer) /\ AuditVerdict(answer) /\ UNCHANGED cand
               \/ ~StopsAudit(answer) /\ NextCandidate /\ UNCHANGED evidence
               \/ /\ ~StopsAudit(answer) /\ cand = Candidates
                  /\ RequestHumanReview("AuditCall") /\ UNCHANGED <<cand, evidence>>
            /\ rejected' = (rejected \/ answer = "FAIL")
      BY <1>7 DEF AuditCall
    <2>2. UNCHANGED <<base, task>> /\ rejected \in BOOLEAN
      BY <1>7 DEF AuditCall, TypeOK
    <2>3. CASE answer = "FAIL"
      <3>1. evidence' = evidence /\ Save("AuditCall", SpendSecurityReplan(ledger), "SecurityReplan")
        BY <2>1, <2>3 DEF StopsAudit, AuditVerdict
      <3>2. ledger'.status = ledger.status
        BY <3>1, StatusKept DEF Save, TypeOK
      <3>3. rejected' = TRUE
        BY <2>1, <2>3
      <3> QED
        BY <2>2, <3>1, <3>2, <3>3
    <2>4. CASE answer # "FAIL"
      <3>1. rejected' = rejected
        BY <2>1, <2>2, <2>4
      <3>2. CASE Go("AuditCall", "RecordModel") /\ Passes("audit", task)
        BY <2>2, <3>1, <3>2 DEF Go, fileVars
      <3>3. CASE UNCHANGED evidence
        BY <2>2, <3>1, <3>3
      <3> HIDE DEF PromiseMove
      <3>4. CASE AuditVerdict(answer)
        BY <2>4, <3>2, <3>3, <3>4, Zenon DEF AuditVerdict
      <3> QED
        BY <2>1, <3>3, <3>4, Zenon
    <2> QED
      BY <2>3, <2>4
  <1>8. CASE BaseCommit
    <2>1. commits' \in Nat
      BY <1>8 DEF BaseCommit, TypeOK
    <2> QED
      BY <1>8, <2>1 DEF BaseCommit, fileVars
  <1>9. CASE (\E m \in Modes : Launch(m)) \/ Crash \/ TaskCommit \/ DirtyMain \/ EditSpec
             \/ UNCHANGED vars
    BY <1>9 DEF Launch, Crash, TaskCommit, DirtyMain, EditSpec, vars, Undisturbed
  <1> QED
    BY <1>1, <1>2, <1>3, <1>4, <1>5, <1>6, <1>7, <1>8, <1>9 DEF Next, Step, Environment

\* The task branch never loses a change, and what the gates passed was on it.
LEMMA TraceStep ==
  ASSUME TypeOK, EvidenceInv, BranchInv, TraceInv, PromiseMove
  PROVE  task \subseteq task' /\ TraceInv'
  <1>1. task \subseteq task'
    BY DEF PromiseMove, BranchInv
  <1>2. \A g \in Gates : evidence'[g] \in {evidence[g], task}
    <2>1. ASSUME NEW g \in Gates, Passes(g, task)
          PROVE  \A h \in Gates : evidence'[h] \in {evidence[h], task}
      BY <2>1 DEF Passes, TypeOK
    <2>2. pc \in PastCommit => WorktreeTree = task
      BY DEF EvidenceInv, WorktreeTree
    <2>3. "audit" \in Gates
      BY DEF Gates
    <2> QED
      BY <2>1, <2>2, <2>3 DEF PromiseMove
  <1> QED
    BY <1>1, <1>2 DEF TraceInv

\* Such a move is a step of Integration, or none.
LEMMA PromiseStep ==
  ASSUME TypeOK, EvidenceInv, RejectionInv, PastMergeInv, BranchInv, TraceInv,
         [Next]_vars, PromiseMove
  PROVE  [Promise!Next]_(Promise!vars)
  <1> DEFINE passed == {g \in Gates : task # {} /\ evidence[g] = task}
             Kept == UNCHANGED <<base, task, evidence, rejected>>
  <1>1. CASE Kept
    <2>1. passed' = passed
      BY <1>1
    <2>2. CASE ledger'.status = "COMPLETED" <=> ledger.status = "COMPLETED"
      BY <1>1, <2>1, <2>2 DEF Promise!vars
    <2>3. CASE ledger'.status = "COMPLETED" /\ ledger.status # "COMPLETED"
      BY <1>1, <2>1, <2>3, CompletedThere DEF Promise!Next, Promise!Finish
    <2>4. CASE ledger'.status # "COMPLETED" /\ ledger.status = "COMPLETED"
      BY <1>1, <2>1, <2>4 DEF Promise!Next, Promise!Reopen
    <2> QED
      BY <2>2, <2>3, <2>4
  <1>2. CASE /\ UNCHANGED <<base, evidence, rejected, ledger>>
             /\ ~Kept
    <2>1. task \subseteq task' /\ task' # task
      BY <1>2, TraceStep
    <2>2. passed' = {}
      BY <1>2, <2>1 DEF TraceInv
    <2> QED
      BY <1>2, <2>1, <2>2 DEF Promise!Next, Promise!Build
  <1>3. CASE /\ pc = "FastForward" /\ base \subseteq task /\ base' = task
             /\ UNCHANGED <<task, evidence, rejected, ledger>>
             /\ ~Kept
    <2>1. Passed(Gates) /\ ~rejected
      BY <1>3 DEF EvidenceInv, Verified, Merging, RejectionInv, BeforeWorker
    <2>2. task # {}
      BY <1>3
    <2>3. passed = Gates /\ passed' = passed
      BY <1>3, <2>1, <2>2 DEF Passed
    <2> QED
      BY <1>3, <2>1, <2>3 DEF Promise!Next, Promise!Merge
  <1>4. CASE /\ \E c \in {"human"} \X Nat : base' = base \cup {c}
             /\ UNCHANGED <<task, evidence, rejected, ledger>>
    BY <1>4 DEF Promise!Next, Promise!HumanCommit
  <1>5. CASE rejected' = FALSE /\ UNCHANGED <<base, task, evidence, ledger>>
    BY <1>5 DEF Promise!Next, Promise!Rework
  <1>6. CASE rejected' = TRUE /\ ledger'.status = ledger.status /\ UNCHANGED <<base, task, evidence>>
    BY <1>6 DEF Promise!Next, Promise!Reject
  <1>7. ASSUME NEW g \in Gates, Passes(g, task), UNCHANGED <<base, task, rejected, ledger>>
        PROVE  [Promise!Next]_(Promise!vars)
    <2>1. evidence'[g] = task /\ \A h \in Gates \ {g} : evidence'[h] = evidence[h]
      BY <1>7 DEF Passes, TypeOK
    <2>2. CASE task = {}
      <3>1. passed' = passed
        BY <1>7, <2>2
      <3> QED
        BY <1>7, <3>1 DEF Promise!vars
    <2>3. CASE task # {}
      <3>1. passed' = passed \cup {g}
        BY <1>7, <2>1, <2>3
      <3> QED
        BY <1>7, <3>1 DEF Promise!Next, Promise!Pass
    <2> QED
      BY <2>2, <2>3
  <1>8. pc \in PastCommit => WorktreeTree = task
    BY DEF EvidenceInv, WorktreeTree
  <1>9. "audit" \in Gates
    BY DEF Gates
  <1> QED
    BY <1>1, <1>2, <1>3, <1>4, <1>5, <1>6, <1>7, <1>8, <1>9 DEF PromiseMove

\* The whole factory, seen from the base branch, implements Integration: every
\* step of every process, over every crash, torn write, restart, recovery and
\* commit of others, is one of its steps or changes nothing the owners see.
THEOREM FactoryIntegrates == Undisturbed => (Spec => KeepsPromise)
  <1> SUFFICES ASSUME Undisturbed PROVE Spec => KeepsPromise
    OBVIOUS
  <1>1. Init => Promise!Init /\ TraceInv
    BY DEF Init, InitState, Promise!Init, TraceInv
  <1>2. TypeOK /\ EvidenceInv /\ BranchInv /\ TraceInv /\ [Next]_vars => TraceInv'
    BY PromiseMoves, TraceStep
  <1>3. TypeOK /\ EvidenceInv /\ RejectionInv /\ PastMergeInv /\ BranchInv /\ TraceInv
        /\ [Next]_vars => [Promise!Next]_(Promise!vars)
    BY PromiseMoves, PromiseStep
  <1>4. Spec => [](TypeOK /\ EvidenceInv /\ RejectionInv /\ PastMergeInv /\ BranchInv)
    BY TypeCorrect, EvidenceInductive, RejectionInductive, PastMergeAlways, BranchAlways, PTL
  <1>5. Spec => []TraceInv
    BY <1>1, <1>2, <1>4, PTL DEF Spec
  <1> QED
    BY <1>1, <1>3, <1>4, <1>5, PTL DEF Spec, KeepsPromise, Promise!Spec

-----------------------------------------------------------------------------
(* The forced removal of the worktree loses no build *)

\* The steps between the auditor's verdict and the removal of the worktree.
TowardsRemoval == {"AncestorCheck", "AutoMerge", "RemoveWorktree"}

RemovalInv == pc \in TowardsRemoval => loose = {}

\* They are reached only from the verdict, and nobody touches the worktree then.
LEMMA RemovalEntered ==
  ASSUME [Next]_vars, pc' \in TowardsRemoval
  PROVE  loose' = loose /\ pc \in TowardsRemoval \cup {"RecordModel"}
  <1> USE DEF Go, Enter, Halt, Save, wtVars, TowardsRemoval
  <1>1. CASE InitPhase \/ SpecDesign \/ GenerateSpec \/ SpecGate \/ ValidateSpec \/ SpecRetry
             \/ CreateWorktree \/ Building \/ Register \/ Worker \/ Commit \/ DiffGate
    BY <1>1 DEF InitPhase, SpecDesign, GenerateSpec, SpecGate, ValidateSpec, SpecRetry,
       CreateWorktree, Building, Register, Worker, Commit, DiffGate
  <1>2. CASE ValidateDiff \/ LogicReplan \/ Testing \/ RunTests \/ Triage \/ SastScan \/ RunSast
             \/ SastFilter \/ SecurityReplan \/ AuditDiff
    BY <1>2 DEF ValidateDiff, LogicReplan, Testing, RunTests, Triage, SastScan, RunSast,
       SastFilter, SecurityReplan, AuditDiff, RetryOrReplan
  <1>3. CASE AuditCall
    BY <1>3 DEF AuditCall, AuditVerdict, NextCandidate, RequestHumanReview
  <1>4. CASE ReviewStatus \/ ReviewBlocked \/ RecordModel \/ AncestorCheck \/ AutoMerge
             \/ RemoveWorktree \/ MergeClean \/ Checkout \/ IsAncestor
    BY <1>4 DEF ReviewStatus, ReviewBlocked, RecordModel, AncestorCheck, AutoMerge,
       RemoveWorktree, MergeClean, Checkout, IsAncestor, MergeFailed
  <1>5. CASE FastForward \/ Recovered \/ Complete \/ HaltStatus \/ ResumeMerge \/ ResumeAudit
    BY <1>5 DEF FastForward, MergeFailed, Recovered, Complete, HaltStatus, ResumeMerge, ResumeAudit
  <1>6. CASE \E m \in Modes : Launch(m)
    BY <1>6 DEF Launch, FirstStep, Modes
  <1>7. CASE Crash \/ BaseCommit \/ TaskCommit \/ DirtyMain \/ EditSpec \/ UNCHANGED vars
    BY <1>7 DEF Crash, BaseCommit, TaskCommit, DirtyMain, EditSpec, vars
  <1> QED
    BY <1>1, <1>2, <1>3, <1>4, <1>5, <1>6, <1>7 DEF Next, Step, Environment

\* Who changes what is in the worktree, committed or not.
LEMMA TreeWriters ==
  [Next]_vars => UNCHANGED <<task, loose>> \/ CreateWorktree \/ Worker \/ Commit
                 \/ RemoveWorktree \/ TaskCommit
  <1> SUFFICES ASSUME [Next]_vars
               PROVE  UNCHANGED <<task, loose>> \/ CreateWorktree \/ Worker \/ Commit
                      \/ RemoveWorktree \/ TaskCommit
    OBVIOUS
  <1> USE DEF gitVars, wtVars
  <1>1. CASE InitPhase \/ SpecDesign \/ GenerateSpec \/ SpecGate \/ ValidateSpec \/ SpecRetry
             \/ Building \/ Register \/ DiffGate \/ ValidateDiff \/ LogicReplan \/ Testing
             \/ RunTests \/ Triage \/ SastScan \/ RunSast
    BY <1>1 DEF InitPhase, SpecDesign, GenerateSpec, SpecGate, ValidateSpec, SpecRetry,
       Building, Register, DiffGate, ValidateDiff, LogicReplan, Testing, RunTests, Triage,
       SastScan, RunSast
  <1>2. CASE SastFilter \/ SecurityReplan \/ AuditDiff \/ AuditCall \/ ReviewStatus
             \/ ReviewBlocked \/ RecordModel \/ AncestorCheck \/ AutoMerge \/ MergeClean
             \/ Checkout \/ IsAncestor \/ FastForward \/ Recovered \/ Complete \/ HaltStatus
             \/ ResumeMerge \/ ResumeAudit
    BY <1>2 DEF SastFilter, SecurityReplan, AuditDiff, AuditCall, ReviewStatus, ReviewBlocked,
       RecordModel, AncestorCheck, AutoMerge, MergeClean, Checkout, IsAncestor, FastForward,
       Recovered, Complete, HaltStatus, ResumeMerge, ResumeAudit
  <1>3. CASE (\E m \in Modes : Launch(m)) \/ Crash \/ BaseCommit \/ DirtyMain \/ EditSpec
             \/ UNCHANGED vars
    BY <1>3 DEF Launch, Crash, BaseCommit, DirtyMain, EditSpec, vars
  <1> QED
    BY <1>1, <1>2, <1>3 DEF Next, Step, Environment

\* run_pipeline removes the worktree before a merge that may still fail.  No
\* build is lost there, or by any other step than create_worktree's own removal:
\* what the auditor passed is on the task branch, whole, when the worktree goes.
THEOREM NoBuildIsLost == Undisturbed => (Spec => BuildsSurvive)
  <1> SUFFICES ASSUME Undisturbed PROVE Spec => BuildsSurvive
    OBVIOUS
  <1>1. Init => RemovalInv
    BY DEF Init, RemovalInv
  <1>2. EvidenceInv /\ RemovalInv /\ [Next]_vars => RemovalInv'
    <2> SUFFICES ASSUME EvidenceInv, RemovalInv, [Next]_vars, pc' \in TowardsRemoval
                 PROVE  loose' = {}
      BY DEF RemovalInv
    <2>1. loose' = loose /\ pc \in TowardsRemoval \cup {"RecordModel"}
      BY RemovalEntered
    <2> QED
      BY <2>1 DEF RemovalInv, EvidenceInv, PastCommit, PastDiff, PastTests
  <1>3. RemovalInv /\ [Next]_vars =>
          [pc # "CreateWorktree" => Builds(WorktreeTree) \subseteq Builds(WorktreeTree)']_vars
    <2> SUFFICES ASSUME RemovalInv, [Next]_vars, pc # "CreateWorktree"
                 PROVE  WorktreeTree \subseteq WorktreeTree'
      BY DEF Builds
    <2> USE DEF WorktreeTree, gitVars
    <2>1. CASE Worker \/ Commit
      BY <2>1 DEF Worker, Commit
    <2>2. CASE RemoveWorktree
      BY <2>2 DEF RemoveWorktree, Go, RemovalInv, TowardsRemoval
    <2>3. CASE TaskCommit
      BY <2>3 DEF TaskCommit, wtVars
    <2>4. CASE CreateWorktree
      BY <2>4 DEF CreateWorktree, Go, Halt, Save
    <2> QED
      BY <2>1, <2>2, <2>3, <2>4, TreeWriters
  <1> QED
    BY <1>1, <1>2, <1>3, EvidenceInductive, PTL DEF Spec, BuildsSurvive

-----------------------------------------------------------------------------
(* A merge that failed can be resumed *)

\* The history ends in the current state; a halt from AUTO_MERGE names the merge
\* as its reason; and whoever began a merge has a branch to merge.
HaltInv ==
    /\ ledger.last.to = ledger.state
    /\ ledger.state = "HALT_HUMAN" /\ ledger.last.from = "AUTO_MERGE" => ledger.last.merge
    /\ MergeBegun(ledger) => branch

\* AUTO_MERGE is entered by a process that merges, and a halt with another reason
\* than a merge is not its.
HistoryMove ==
    \/ ledger'.state = ledger.state /\ ledger'.last = ledger.last
    \/ ledger' = InitState
    \/ \E to \in ValidStates, m \in BOOLEAN :
        /\ ledger' = Transition(ledger, to, m)
        /\ to = "AUTO_MERGE" => pc \in Merging
        /\ to = "HALT_HUMAN" /\ ~m => pc \notin Starting \cup Merging \cup {"HaltStatus"}

\* A transition to a state that is neither AUTO_MERGE nor a halt is one.
LEMMA EnterIsHistoryMove ==
  ASSUME NEW from, NEW state \in ValidStates, NEW to, Enter(from, state, to),
         state # "HALT_HUMAN", state = "AUTO_MERGE" => from \in Merging
  PROVE  HistoryMove
  <1>1. pc = from /\ (ledger' = Transition(ledger, state, FALSE) \/ ledger' = ledger)
    BY DEF Enter, Save
  <1>2. FALSE \in BOOLEAN
    OBVIOUS
  <1> QED
    BY <1>1, <1>2 DEF HistoryMove

\* So is a halt because of a merge, wherever it happens, ...
LEMMA MergeHaltIsHistoryMove ==
  ASSUME NEW from, Halt(from, TRUE)
  PROVE  HistoryMove
  <1>1. ledger' = Transition(ledger, "HALT_HUMAN", TRUE) \/ ledger' = ledger
    BY DEF Halt, Save
  <1>2. TRUE \in BOOLEAN /\ "HALT_HUMAN" \in ValidStates
    BY DEF ValidStates
  <1> QED
    BY <1>1, <1>2 DEF HistoryMove

\* ... and any other halt of a process that does not merge.
LEMMA OtherHaltIsHistoryMove ==
  ASSUME NEW from, Halt(from, FALSE), from \notin Starting \cup Merging \cup {"HaltStatus"}
  PROVE  HistoryMove
  <1>1. pc = from /\ (ledger' = Transition(ledger, "HALT_HUMAN", FALSE) \/ ledger' = ledger)
    BY DEF Halt, Save
  <1>2. FALSE \in BOOLEAN /\ "HALT_HUMAN" \in ValidStates
    BY DEF ValidStates
  <1> QED
    BY <1>1, <1>2 DEF HistoryMove

\* Every step is such a move.
LEMMA HistoryMoves ==
  ASSUME TypeOK, [Next]_vars
  PROVE  HistoryMove
  <1>0. ledger \in LedgerType
    BY DEF TypeOK
  <1> USE <1>0
  <1>k. ASSUME NEW from, NEW to, StaysAt(from, to) PROVE HistoryMove
    BY <1>k DEF StaysAt, HistoryMove
  <1>1. CASE InitPhase \/ SpecDesign \/ SpecGate \/ Building \/ DiffGate \/ Testing \/ SastScan
             \/ AutoMerge \/ Recovered
    BY <1>1, EnterIsHistoryMove DEF InitPhase, SpecDesign, SpecGate, Building, DiffGate, Testing,
       SastScan, AutoMerge, Recovered, ValidStates, Merging
  <1>2. CASE GenerateSpec \/ Worker \/ Commit \/ RemoveWorktree \/ ResumeMerge
    BY <1>2, <1>k, GoStays DEF GenerateSpec, Worker, Commit, RemoveWorktree, ResumeMerge
  <1>3. CASE ReviewStatus \/ ReviewBlocked \/ RecordModel \/ Complete \/ HaltStatus
    BY <1>3, <1>k, SaveStays, OthersStay
    DEF ReviewStatus, ReviewBlocked, RecordModel, Complete, HaltStatus
  <1>4. CASE ValidateSpec \/ ValidateDiff \/ Triage \/ SastFilter
    BY <1>4, <1>k, GoStays, SaveStays, OthersStay
    DEF ValidateSpec, ValidateDiff, Triage, SastFilter, RetryOrReplan
  <1>5. CASE RunTests \/ RunSast \/ ResumeAudit
    BY <1>5, <1>k, GoStays, EnterIsHistoryMove DEF RunTests, RunSast, ResumeAudit, ValidStates
  <1>6. CASE SpecRetry \/ CreateWorktree \/ AuditDiff
    BY <1>6, <1>k, GoStays, OtherHaltIsHistoryMove
    DEF SpecRetry, CreateWorktree, AuditDiff, Starting, Merging
  <1>7. CASE Register \/ LogicReplan \/ SecurityReplan
    BY <1>7, <1>k, SaveStays, OthersStay, OtherHaltIsHistoryMove
    DEF Register, LogicReplan, SecurityReplan, Starting, Merging
  <1>8. CASE AncestorCheck \/ MergeClean \/ Checkout \/ IsAncestor \/ FastForward
    BY <1>8, <1>k, GoStays, MergeHaltIsHistoryMove
    DEF AncestorCheck, MergeClean, Checkout, IsAncestor, FastForward, MergeFailed
  <1>9. CASE AuditCall
    <2>1. \/ Go("AuditCall", "RecordModel")
          \/ Save("AuditCall", SpendSecurityReplan(ledger), "SecurityReplan")
          \/ Halt("AuditCall", TRUE) \/ Halt("AuditCall", FALSE)
          \/ Enter("AuditCall", "HUMAN_REVIEW", "ReviewStatus")
          \/ Enter("AuditCall", "LOGIC_AUDIT", "AuditCall")
      BY <1>9 DEF AuditCall, AuditVerdict, NextCandidate, RequestHumanReview
    <2> QED
      BY <2>1, <1>k, GoStays, SaveStays, OthersStay, MergeHaltIsHistoryMove,
         OtherHaltIsHistoryMove, EnterIsHistoryMove DEF ValidStates, Starting, Merging
  <1>10. CASE \E m \in Modes : Launch(m)
    BY <1>10, OthersStay DEF Launch, HistoryMove
  <1>11. CASE Crash \/ BaseCommit \/ TaskCommit \/ DirtyMain \/ EditSpec \/ UNCHANGED vars
    BY <1>11 DEF Crash, BaseCommit, TaskCommit, DirtyMain, EditSpec, vars, fileVars, HistoryMove
  <1> QED
    BY <1>1, <1>2, <1>3, <1>4, <1>5, <1>6, <1>7, <1>8, <1>9, <1>10, <1>11
       DEF Next, Step, Environment

\* No step takes the task branch away.
LEMMA BranchKept == [Next]_vars /\ branch => branch'
  <1> SUFFICES ASSUME [Next]_vars, branch PROVE branch'
    OBVIOUS
  <1> USE DEF gitVars
  <1>1. CASE InitPhase \/ SpecDesign \/ GenerateSpec \/ SpecGate \/ ValidateSpec \/ SpecRetry
             \/ CreateWorktree \/ Building \/ Register \/ Worker \/ Commit \/ DiffGate
    BY <1>1 DEF InitPhase, SpecDesign, GenerateSpec, SpecGate, ValidateSpec, SpecRetry,
       CreateWorktree, Building, Register, Worker, Commit, DiffGate
  <1>2. CASE ValidateDiff \/ LogicReplan \/ Testing \/ RunTests \/ Triage \/ SastScan \/ RunSast
             \/ SastFilter \/ SecurityReplan \/ AuditDiff \/ AuditCall
    BY <1>2 DEF ValidateDiff, LogicReplan, Testing, RunTests, Triage, SastScan, RunSast,
       SastFilter, SecurityReplan, AuditDiff, AuditCall
  <1>3. CASE ReviewStatus \/ ReviewBlocked \/ RecordModel \/ AncestorCheck \/ AutoMerge
             \/ RemoveWorktree \/ MergeClean \/ Checkout \/ IsAncestor
    BY <1>3 DEF ReviewStatus, ReviewBlocked, RecordModel, AncestorCheck, AutoMerge,
       RemoveWorktree, MergeClean, Checkout, IsAncestor
  <1>4. CASE FastForward \/ Recovered \/ Complete \/ HaltStatus \/ ResumeMerge \/ ResumeAudit
    BY <1>4 DEF FastForward, Recovered, Complete, HaltStatus, ResumeMerge, ResumeAudit
  <1>5. CASE (\E m \in Modes : Launch(m)) \/ Crash \/ BaseCommit \/ TaskCommit \/ DirtyMain
             \/ EditSpec \/ UNCHANGED vars
    BY <1>5 DEF Launch, Crash, BaseCommit, TaskCommit, DirtyMain, EditSpec, vars
  <1> QED
    BY <1>1, <1>2, <1>3, <1>4, <1>5 DEF Next, Step, Environment

\* Whatever halted at AUTO_MERGE cleared every gate and is accepted by
\* --resume-merge, over every crash, restart, failed recovery and commit of others.
THEOREM FailedMergesResume == Undisturbed => (Spec => []HaltedMergeIsResumable)
  <1> SUFFICES ASSUME Undisturbed PROVE Spec => []HaltedMergeIsResumable
    OBVIOUS
  <1>1. Init => HaltInv
    BY DEF Init, InitState, HaltInv, MergeBegun
  <1>2. TypeOK /\ EvidenceInv /\ BranchInv /\ HaltInv /\ [Next]_vars => HaltInv'
    <2> SUFFICES ASSUME TypeOK, EvidenceInv, BranchInv, HaltInv, [Next]_vars
                 PROVE  HaltInv'
      OBVIOUS
    <2>1. CASE ledger'.state = ledger.state /\ ledger'.last = ledger.last
      BY <2>1, BranchKept DEF HaltInv, MergeBegun
    <2>2. CASE ledger' = InitState
      BY <2>2 DEF InitState, HaltInv, MergeBegun
    <2>3. ASSUME NEW to \in ValidStates, NEW m \in BOOLEAN, ledger' = Transition(ledger, to, m),
                 to = "AUTO_MERGE" => pc \in Merging,
                 to = "HALT_HUMAN" /\ ~m => pc \notin Starting \cup Merging \cup {"HaltStatus"}
          PROVE  HaltInv'
      <3>1. /\ ledger'.state = to /\ ledger'.last.to = to
            /\ ledger'.last.from = ledger.state /\ ledger'.last.merge = m
        BY <2>3 DEF TypeOK, LedgerType, Transition
      <3>2. ledger.state = "AUTO_MERGE" => branch /\ pc \in Starting \cup Merging \cup {"HaltStatus"}
        BY DEF HaltInv, MergeBegun, EvidenceInv
      <3>3. to = "AUTO_MERGE" => branch
        BY <2>3 DEF BranchInv, BeforeBranch, Merging
      <3> QED
        BY <2>3, <3>1, <3>2, <3>3, BranchKept DEF HaltInv, MergeBegun
    <2> QED
      BY <2>1, <2>2, <2>3, HistoryMoves DEF HistoryMove
  <1>3. TypeOK /\ EvidenceInv /\ RejectionInv /\ HaltInv => HaltedMergeIsResumable
    <2> SUFFICES ASSUME TypeOK, EvidenceInv, RejectionInv, HaltInv, ledger.state = "HALT_HUMAN",
                        ledger.status = "FAILED", ledger.last.from = "AUTO_MERGE"
                 PROVE  /\ CanResumeMerge(ledger) /\ branch
                        /\ ~rejected /\ \A g \in Gates : evidence[g] = task
      BY DEF HaltedMergeIsResumable
    <2>1. /\ ledger.last \in HistoryEntry /\ ledger.last.to = "HALT_HUMAN"
          /\ ledger.last.merge = TRUE
      BY DEF HaltInv, TypeOK, LedgerType, HistoryEntry
    <2>2. ledger.last = [from |-> "AUTO_MERGE", to |-> "HALT_HUMAN", merge |-> TRUE]
      BY <2>1 DEF HistoryEntry
    <2>3. CanResumeMerge(ledger)
      BY <2>2 DEF CanResumeMerge
    <2>4. branch /\ Verified
      BY DEF HaltInv, MergeBegun, EvidenceInv
    <2>5. ~rejected
      BY DEF RejectionInv, NothingToResume
    <2> QED
      BY <2>3, <2>4, <2>5 DEF Verified, Passed
  <1> QED
    BY <1>1, <1>2, <1>3, TypeCorrect, EvidenceInductive, RejectionInductive, BranchAlways, PTL DEF Spec
=============================================================================

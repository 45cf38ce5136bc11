---------------------------- MODULE FactoryProofs ---------------------------
(***************************************************************************)
(* Type correctness of Factory.  Lemmas first say that every StateManager  *)
(* method returns a well-formed ledger and that every building block of a  *)
(* step keeps the process's half of the state well typed; the theorem then *)
(* goes through the steps, once per half.                                  *)
(***************************************************************************)
EXTENDS Factory, TLAPS

USE BudgetAssumption, FactoryAssumption

\* _init_state creates a well-formed ledger.
LEMMA InitStateType == InitState \in LedgerType
  BY DEF InitState, LedgerType, HistoryEntry, ValidStates, ExecutionStatus

\* transition() to a valid state keeps the ledger well formed.
LEMMA TransitionType ==
  ASSUME NEW l \in LedgerType, NEW to \in ValidStates, NEW m \in BOOLEAN
  PROVE  Transition(l, to, m) \in LedgerType
  BY DEF Transition, LedgerType, HistoryEntry

\* set_execution_status keeps the ledger well formed.
LEMMA SetStatusType ==
  ASSUME NEW l \in LedgerType, NEW s \in ExecutionStatus
  PROVE  SetStatus(l, s) \in LedgerType
  BY DEF SetStatus, LedgerType

\* register_worker_run keeps the ledger well formed.
LEMMA RegisterType ==
  ASSUME NEW l \in LedgerType
  PROVE  RegisterWorkerRun(l) \in LedgerType
  <1>1. l.total + 1 \in Nat /\ l.attempts + 1 \in Nat
    BY DEF LedgerType
  <1>2. \A a, b \in Nat : [l EXCEPT !.total = a, !.attempts = b] \in LedgerType
    BY DEF LedgerType
  <1> QED  BY <1>1, <1>2 DEF RegisterWorkerRun

\* The first save of each consume_* method keeps the ledger well formed.
LEMMA SpendType ==
  ASSUME NEW l \in LedgerType
  PROVE  /\ SpendSpecRetry(l) \in LedgerType
         /\ SpendLogicReplan(l) \in LedgerType
         /\ SpendSecurityReplan(l) \in LedgerType
  BY DEF SpendSpecRetry, SpendLogicReplan, SpendSecurityReplan, LedgerType

\* _new_epoch keeps the ledger well formed.
LEMMA NewEpochType ==
  ASSUME NEW l \in LedgerType
  PROVE  NewEpoch(l) \in LedgerType
  <1>1. l.epoch + 1 \in Nat
    BY DEF LedgerType
  <1>2. \A a, b \in Nat : [l EXCEPT !.epoch = a, !.attempts = b] \in LedgerType
    BY DEF LedgerType
  <1> QED  BY <1>1, <1>2 DEF NewEpoch

\* The last save of request_human_review keeps the ledger well formed.
LEMMA SetBlockedType ==
  ASSUME NEW l \in LedgerType
  PROVE  SetBlockedReason(l) \in LedgerType
  BY DEF SetBlockedReason, LedgerType

\* record_audit_model keeps the ledger well formed.
LEMMA RecordType ==
  ASSUME NEW l \in LedgerType, NEW c \in Nat
  PROVE  RecordAuditModel(l, c) \in LedgerType
  BY DEF RecordAuditModel, LedgerType

\* Loading an existing file keeps the ledger well formed.
LEMMA LoadStateType ==
  ASSUME NEW l \in LedgerType
  PROVE  LoadState(l) \in LedgerType
  BY SetStatusType DEF LoadState, ExecutionStatus

\* The two halves of TypeOK: what the process rewrites at almost every step,
\* and everything else.
PcType == Steps \cup {"Idle"}

ProcessOK ==
    /\ file \in {"absent", "saved", "torn"}
    /\ ledger \in LedgerType
    /\ pc \in PcType

RestOK ==
    /\ mode \in Modes
    /\ sim \in BOOLEAN
    /\ cand \in 1..Candidates
    /\ spec \in {"absent", "valid", "invalid"}
    /\ branch \in BOOLEAN
    /\ task \subseteq Change
    /\ base \subseteq Change
    /\ wt \in BOOLEAN
    /\ loose \subseteq Change
    /\ clean \in BOOLEAN
    /\ launches \in 0..MaxLaunches
    /\ commits \in 0..MaxHumanCommits
    /\ calls \in Nat
    /\ evidence \in [Gates -> SUBSET Change]
    /\ rejected \in BOOLEAN

\* The halves make up TypeOK.
LEMMA TypeHalves == TypeOK <=> ProcessOK /\ RestOK
  BY DEF TypeOK, ProcessOK, RestOK, PcType

\* Names of steps and states used below.
LEMMA PcNames ==
  /\ "Idle" \in PcType
  /\ "Init" \in PcType
  /\ "SpecDesign" \in PcType
  /\ "GenerateSpec" \in PcType
  /\ "SpecGate" \in PcType
  /\ "ValidateSpec" \in PcType
  /\ "SpecRetry" \in PcType
  /\ "CreateWorktree" \in PcType
  /\ "Building" \in PcType
  /\ "Register" \in PcType
  /\ "Worker" \in PcType
  /\ "Commit" \in PcType
  /\ "DiffGate" \in PcType
  /\ "ValidateDiff" \in PcType
  /\ "LogicReplan" \in PcType
  /\ "Testing" \in PcType
  /\ "RunTests" \in PcType
  /\ "Triage" \in PcType
  /\ "SastScan" \in PcType
  /\ "RunSast" \in PcType
  /\ "SastFilter" \in PcType
  /\ "SecurityReplan" \in PcType
  /\ "AuditDiff" \in PcType
  /\ "AuditCall" \in PcType
  /\ "ReviewStatus" \in PcType
  /\ "ReviewBlocked" \in PcType
  /\ "RecordModel" \in PcType
  /\ "AncestorCheck" \in PcType
  /\ "AutoMerge" \in PcType
  /\ "RemoveWorktree" \in PcType
  /\ "MergeClean" \in PcType
  /\ "Checkout" \in PcType
  /\ "IsAncestor" \in PcType
  /\ "FastForward" \in PcType
  /\ "Recovered" \in PcType
  /\ "Complete" \in PcType
  /\ "HaltStatus" \in PcType
  /\ "ResumeMerge" \in PcType
  /\ "ResumeAudit" \in PcType
  BY DEF PcType, Steps

\* The names of states and statuses used below.
LEMMA StateNames ==
  /\ "INIT" \in ValidStates
  /\ "SPEC_DESIGN" \in ValidStates
  /\ "SPEC_GATE" \in ValidStates
  /\ "BUILDING" \in ValidStates
  /\ "DIFF_GATE" \in ValidStates
  /\ "TESTING" \in ValidStates
  /\ "TRIAGING" \in ValidStates
  /\ "SAST_SCAN" \in ValidStates
  /\ "SAST_FILTER" \in ValidStates
  /\ "LOGIC_AUDIT" \in ValidStates
  /\ "AUTO_MERGE" \in ValidStates
  /\ "HUMAN_REVIEW" \in ValidStates
  /\ "HALT_HUMAN" \in ValidStates
  /\ "RUNNING" \in ExecutionStatus
  /\ "INTERRUPTED" \in ExecutionStatus
  /\ "COMPLETED" \in ExecutionStatus
  /\ "FAILED" \in ExecutionStatus
  /\ "NEEDS_HUMAN_REVIEW" \in ExecutionStatus
  BY DEF ValidStates, ExecutionStatus

\* A save keeps the process's half well typed, and so does a step without one.
LEMMA SaveOK ==
  ASSUME ProcessOK, NEW from, NEW l \in LedgerType, NEW to \in PcType,
         Save(from, l, to)
  PROVE  ProcessOK'
  BY PcNames DEF ProcessOK, Save

\* A step without a save keeps the process's half well typed.
LEMMA GoOK ==
  ASSUME ProcessOK, NEW from, NEW to \in PcType, Go(from, to)
  PROVE  ProcessOK'
  BY DEF ProcessOK, Go, fileVars

\* So does entering a state,
LEMMA EnterOK ==
  ASSUME ProcessOK, NEW from, NEW state \in ValidStates, NEW to \in PcType,
         Enter(from, state, to)
  PROVE  ProcessOK'
  <1>1. Transition(ledger, state, FALSE) \in LedgerType
    BY TransitionType DEF ProcessOK
  <1> QED  BY <1>1, SaveOK DEF Enter

\* halting,
LEMMA HaltOK ==
  ASSUME ProcessOK, NEW from, NEW merge \in BOOLEAN, Halt(from, merge)
  PROVE  ProcessOK'
  <1>1. Transition(ledger, "HALT_HUMAN", merge) \in LedgerType
    BY TransitionType, StateNames DEF ProcessOK
  <1> QED  BY <1>1, SaveOK, PcNames DEF Halt

\* asking for a human review,
LEMMA ReviewOK ==
  ASSUME ProcessOK, NEW from, RequestHumanReview(from)
  PROVE  ProcessOK'
  BY EnterOK, StateNames, PcNames DEF RequestHumanReview

\* retrying or replanning after a failed gate,
LEMMA RetryOrReplanOK ==
  ASSUME ProcessOK, NEW from, RetryOrReplan(from)
  PROVE  ProcessOK'
  <1>1. SpendLogicReplan(ledger) \in LedgerType
    BY SpendType DEF ProcessOK
  <1> QED  BY <1>1, SaveOK, GoOK, PcNames DEF RetryOrReplan

\* and giving up a merge.
LEMMA MergeFailedOK ==
  ASSUME ProcessOK, NEW from, MergeFailed(from)
  PROVE  ProcessOK'
  BY HaltOK, GoOK, PcNames DEF MergeFailed

\* Type correctness of the task's whole state, for every value of the budgets
\* and every set of environment events.
THEOREM TypeCorrect == Spec => []TypeOK
  <1> USE DEF fileVars, procVars, gitVars, wtVars, humanVars, obsVars
  <1>1. Init => TypeOK
    <2> SUFFICES ASSUME Init PROVE ProcessOK /\ RestOK
      BY TypeHalves
    <2>1. ProcessOK
      BY InitStateType, PcNames DEF Init, ProcessOK
    <2>2. evidence \in [Gates -> SUBSET Change]
      BY DEF Init
    <2>3. cand \in 1..Candidates /\ launches \in 0..MaxLaunches /\ commits \in 0..MaxHumanCommits
      BY DEF Init
    <2>4. mode \in Modes
      BY DEF Init, Modes
    <2> QED
      BY <2>1, <2>2, <2>3, <2>4 DEF Init, RestOK
  <1>2. ProcessOK /\ RestOK /\ [Next]_vars => ProcessOK'
    <2> SUFFICES ASSUME ProcessOK, RestOK, [Next]_vars
                 PROVE  ProcessOK'
      OBVIOUS
    <2>0. ledger \in LedgerType /\ cand \in Nat
      BY DEF ProcessOK, RestOK
    <2>1. CASE InitPhase
      BY <2>0, <2>1, EnterOK, StateNames, PcNames DEF InitPhase
    <2>2. CASE SpecDesign
      BY <2>0, <2>2, EnterOK, StateNames, PcNames DEF SpecDesign
    <2>3. CASE GenerateSpec
      BY <2>0, <2>3, GoOK, PcNames DEF GenerateSpec
    <2>4. CASE SpecGate
      BY <2>0, <2>4, EnterOK, StateNames, PcNames DEF SpecGate
    <2>5. CASE ValidateSpec
      BY <2>0, <2>5, GoOK, SaveOK, SpendType, PcNames DEF ValidateSpec
    <2>6. CASE SpecRetry
      BY <2>0, <2>6, HaltOK, GoOK, PcNames DEF SpecRetry
    <2>7. CASE CreateWorktree
      BY <2>0, <2>7, HaltOK, GoOK, PcNames DEF CreateWorktree
    <2>8. CASE Building
      BY <2>0, <2>8, EnterOK, StateNames, PcNames DEF Building
    <2>9. CASE Register
      BY <2>0, <2>9, SaveOK, HaltOK, RegisterType, PcNames DEF Register
    <2>10. CASE Worker
      BY <2>0, <2>10, GoOK, PcNames DEF Worker
    <2>11. CASE Commit
      BY <2>0, <2>11, GoOK, PcNames DEF Commit
    <2>12. CASE DiffGate
      BY <2>0, <2>12, EnterOK, StateNames, PcNames DEF DiffGate
    <2>13. CASE ValidateDiff
      BY <2>0, <2>13, GoOK, RetryOrReplanOK, PcNames DEF ValidateDiff
    <2>14. CASE LogicReplan
      BY <2>0, <2>14, HaltOK, SaveOK, NewEpochType, PcNames DEF LogicReplan
    <2>15. CASE Testing
      BY <2>0, <2>15, EnterOK, StateNames, PcNames DEF Testing
    <2>16. CASE RunTests
      BY <2>0, <2>16, GoOK, EnterOK, StateNames, PcNames DEF RunTests
    <2>17. CASE Triage
      BY <2>0, <2>17, RetryOrReplanOK, PcNames DEF Triage
    <2>18. CASE SastScan
      BY <2>0, <2>18, EnterOK, StateNames, PcNames DEF SastScan
    <2>19. CASE RunSast
      BY <2>0, <2>19, GoOK, EnterOK, StateNames, PcNames DEF RunSast
    <2>20. CASE SastFilter
      BY <2>0, <2>20, GoOK, SaveOK, SpendType, PcNames DEF SastFilter
    <2>21. CASE SecurityReplan
      BY <2>0, <2>21, HaltOK, SaveOK, NewEpochType, PcNames DEF SecurityReplan
    <2>22. CASE AuditDiff
      BY <2>0, <2>22, GoOK, HaltOK, PcNames DEF AuditDiff
    <2>23. CASE AuditCall
      BY <2>0, <2>23, GoOK, HaltOK, SaveOK, SpendType, ReviewOK, EnterOK, StateNames, PcNames DEF AuditCall, AuditVerdict, NextCandidate
    <2>24. CASE ReviewStatus
      BY <2>0, <2>24, SaveOK, SetStatusType, StateNames, PcNames DEF ReviewStatus
    <2>25. CASE ReviewBlocked
      BY <2>0, <2>25, SaveOK, SetBlockedType, PcNames DEF ReviewBlocked
    <2>26. CASE RecordModel
      BY <2>0, <2>26, SaveOK, RecordType, PcNames DEF RecordModel
    <2>27. CASE AncestorCheck
      BY <2>0, <2>27, GoOK, HaltOK, PcNames DEF AncestorCheck
    <2>28. CASE AutoMerge
      BY <2>0, <2>28, EnterOK, StateNames, PcNames DEF AutoMerge
    <2>29. CASE RemoveWorktree
      BY <2>0, <2>29, GoOK, PcNames DEF RemoveWorktree
    <2>30. CASE MergeClean
      BY <2>0, <2>30, GoOK, MergeFailedOK, PcNames DEF MergeClean
    <2>31. CASE Checkout
      BY <2>0, <2>31, GoOK, MergeFailedOK, PcNames DEF Checkout
    <2>32. CASE IsAncestor
      BY <2>0, <2>32, GoOK, MergeFailedOK, PcNames DEF IsAncestor
    <2>33. CASE FastForward
      BY <2>0, <2>33, GoOK, MergeFailedOK, PcNames DEF FastForward
    <2>34. CASE Recovered
      BY <2>0, <2>34, EnterOK, StateNames, PcNames DEF Recovered
    <2>35. CASE Complete
      BY <2>0, <2>35, SaveOK, SetStatusType, StateNames, PcNames DEF Complete
    <2>36. CASE HaltStatus
      BY <2>0, <2>36, SaveOK, SetStatusType, StateNames, PcNames DEF HaltStatus
    <2>37. CASE ResumeMerge
      BY <2>0, <2>37, GoOK, PcNames DEF ResumeMerge
    <2>38. CASE ResumeAudit
      BY <2>0, <2>38, GoOK, EnterOK, StateNames, PcNames DEF ResumeAudit
    <2>39. CASE \E m \in Modes : Launch(m)
      BY <2>0, <2>39, InitStateType, LoadStateType, PcNames DEF ProcessOK, Launch, FirstStep, Modes
    <2>40. CASE Crash \/ BaseCommit \/ TaskCommit \/ DirtyMain \/ EditSpec
      BY <2>40, PcNames DEF ProcessOK, Crash, BaseCommit, TaskCommit, DirtyMain, EditSpec
    <2>41. CASE UNCHANGED vars
      BY <2>41 DEF vars, ProcessOK
    <2> QED
      BY <2>1, <2>2, <2>3, <2>4, <2>5, <2>6, <2>7, <2>8, <2>9, <2>10, <2>11, <2>12, <2>13, <2>14, <2>15, <2>16, <2>17, <2>18, <2>19, <2>20, <2>21, <2>22, <2>23, <2>24, <2>25, <2>26, <2>27, <2>28, <2>29, <2>30, <2>31, <2>32, <2>33, <2>34, <2>35, <2>36, <2>37, <2>38, <2>39, <2>40, <2>41 DEF Next, Step, Environment
  <1>3. ProcessOK /\ RestOK /\ [Next]_vars => RestOK'
    <2> SUFFICES ASSUME ProcessOK, RestOK, [Next]_vars
                 PROVE  RestOK'
      OBVIOUS
    <2> DEFINE Quiet == UNCHANGED <<procVars, spec, gitVars, wtVars, clean, humanVars, obsVars>>
    <2>0. Quiet => RestOK'
      BY DEF RestOK
    <2>1. <<"build", ledger.total>> \in Change /\ <<"debris", 0>> \in Change
      BY DEF ProcessOK, LedgerType, Change
    <2>2. ASSUME NEW n \in Nat PROVE <<"human", n>> \in Change
      BY DEF Change
    <2>3. ASSUME NEW g \in Gates, NEW t \in SUBSET Change, Passes(g, t)
          PROVE  evidence' \in [Gates -> SUBSET Change]
      BY <2>3 DEF Passes, RestOK
    <2>4. WorktreeTree \in SUBSET Change
      BY DEF RestOK, WorktreeTree
    <2>5. CASE InitPhase \/ SpecDesign \/ SpecGate \/ ValidateSpec \/ SpecRetry \/ Building \/ Register \/ DiffGate \/ LogicReplan
                \/ Testing \/ Triage \/ SastScan \/ SecurityReplan \/ AuditDiff \/ ReviewStatus
                \/ ReviewBlocked \/ RecordModel \/ AncestorCheck \/ AutoMerge \/ MergeClean \/ Checkout \/ IsAncestor \/ Recovered
                \/ Complete \/ HaltStatus \/ ResumeMerge \/ ResumeAudit
      BY <2>0, <2>5 DEF InitPhase, SpecDesign, SpecGate, ValidateSpec, SpecRetry, Building, Register, DiffGate, LogicReplan, Testing, Triage, SastScan, SecurityReplan, AuditDiff, ReviewStatus, ReviewBlocked, RecordModel, AncestorCheck, AutoMerge, MergeClean, Checkout, IsAncestor, Recovered, Complete, HaltStatus, ResumeMerge, ResumeAudit
    <2>6. CASE GenerateSpec
      BY <2>1, <2>6 DEF GenerateSpec, RestOK
    <2>7. CASE CreateWorktree
      BY <2>1, <2>7 DEF CreateWorktree, RestOK
    <2>8. CASE Worker
      <3>1. calls' \in Nat
        BY <2>8 DEF Worker, RestOK
      <3>2. loose' \subseteq Change
        BY <2>1, <2>8 DEF Worker, RestOK
      <3> QED
        BY <2>8, <3>1, <3>2 DEF Worker, RestOK
    <2>9. CASE Commit
      BY <2>1, <2>9 DEF Commit, RestOK
    <2>10. CASE RemoveWorktree
      BY <2>1, <2>10 DEF RemoveWorktree, RestOK
    <2>11. CASE FastForward
      BY <2>1, <2>11 DEF FastForward, RestOK
    <2>12. CASE ValidateDiff
      BY <2>3, <2>4, <2>12 DEF ValidateDiff, RestOK, Gates
    <2>13. CASE RunTests
      BY <2>3, <2>4, <2>13 DEF RunTests, RestOK, Gates
    <2>14. CASE RunSast
      BY <2>3, <2>4, <2>14 DEF RunSast, RestOK, Gates
    <2>15. CASE SastFilter
      BY <2>3, <2>4, <2>15 DEF SastFilter, RestOK, Gates
    <2>16. CASE AuditCall
      <3>1. evidence' \in [Gates -> SUBSET Change]
        BY <2>3, <2>16 DEF AuditCall, AuditVerdict, RestOK, Gates
      <3>2. cand' \in 1..Candidates
        BY <2>16 DEF AuditCall, NextCandidate, RestOK
      <3>3. rejected' \in BOOLEAN
        BY <2>16 DEF AuditCall, RestOK
      <3> QED
        BY <2>16, <3>1, <3>2, <3>3 DEF AuditCall, RestOK
    <2>17. CASE \E m \in Modes : Launch(m)
      <3> PICK m \in Modes : Launch(m)
        BY <2>17
      <3>1. launches' \in 0..MaxLaunches /\ cand' \in 1..Candidates
        BY DEF Launch, RestOK
      <3>2. mode' \in Modes /\ sim' \in BOOLEAN
        BY DEF Launch
      <3> QED
        BY <3>1, <3>2 DEF Launch, RestOK
    <2>18. CASE BaseCommit \/ TaskCommit
      BY <2>2, <2>18 DEF RestOK, BaseCommit, TaskCommit
    <2>19. CASE Crash \/ DirtyMain \/ EditSpec
      BY <2>19 DEF RestOK, Crash, DirtyMain, EditSpec
    <2>20. CASE UNCHANGED vars
      BY <2>20 DEF vars, RestOK
    <2> QED
      BY <2>5, <2>6, <2>7, <2>8, <2>9, <2>10, <2>11, <2>12, <2>13, <2>14, <2>15, <2>16, <2>17, <2>18, <2>19, <2>20 DEF Next, Step, Environment
  <1>4. TypeOK /\ [Next]_vars => TypeOK'
    BY <1>2, <1>3, TypeHalves, PTL
  <1> QED
    BY <1>1, <1>4, PTL DEF Spec
=============================================================================

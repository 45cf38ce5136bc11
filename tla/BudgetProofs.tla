---------------------------- MODULE BudgetProofs ----------------------------
(***************************************************************************)
(* The execution budgets of a task hold for every value of the limits, over*)
(* any number of crashes, torn writes, restarts and recoveries.            *)
(***************************************************************************)
EXTENDS FactoryProofs, Integers

USE BudgetAssumption, FactoryAssumption

\* The accounts two ledgers have in common.
SameAccounts(a, b) ==
    /\ a.epoch = b.epoch
    /\ a.logic = b.logic
    /\ a.security = b.security
    /\ a.attempts = b.attempts
    /\ a.total = b.total

Capped(n, max) == IF n <= max THEN n ELSE max

\* A replan that is spent and affordable but has not opened its epoch yet.
Pending ==
    IF \/ pc = "LogicReplan" /\ ledger.logic <= MaxLogicReplans
       \/ pc = "SecurityReplan" /\ ledger.security <= MaxSecurityReplans
    THEN 1 ELSE 0

\* A run that is charged but whose worker has not been called yet.
Charged == IF pc = "Worker" THEN 1 ELSE 0

\* The inductive invariant: every affordable replan pays for at most one epoch,
\* every epoch for at most MaxWorkerPerEpoch runs, every run for one call.
BudgetInv ==
    /\ file = "absent" => pc = "Idle" /\ ledger = InitState /\ calls = 0
    /\ ledger.epoch >= 1
    /\ ledger.attempts <= MaxWorkerPerEpoch
    /\ ledger.total <= MaxCumulativeWorkerRuns
    /\ ledger.total <= (ledger.epoch - 1) * MaxWorkerPerEpoch + ledger.attempts
    /\ calls + Charged <= ledger.total
    /\ ledger.epoch + Pending <= 1 + Capped(ledger.logic, MaxLogicReplans)
                                   + Capped(ledger.security, MaxSecurityReplans)

\* The steps at which an account changes.
AccountSteps == {"LogicReplan", "SecurityReplan", "Worker"}

\* A step of the process that leaves the accounts alone.
Neutral ==
    /\ pc # "Idle" /\ pc' \notin AccountSteps
    /\ file' \in {file, "torn"}
    /\ SameAccounts(ledger', ledger)
    /\ calls' = calls

\* The accounts of a well-formed ledger are numbers.
LEMMA FieldTypes ==
  ASSUME NEW l \in LedgerType
  PROVE  /\ l.epoch \in Nat /\ l.logic \in Nat /\ l.security \in Nat
         /\ l.attempts \in Nat /\ l.total \in Nat /\ l.spec \in Nat
  BY DEF LedgerType

\* Which methods of the StateManager touch no account.
LEMMA SameAfter ==
  ASSUME NEW l \in LedgerType, NEW to, NEW m, NEW s, NEW c
  PROVE  /\ SameAccounts(Transition(l, to, m), l)
         /\ SameAccounts(SetStatus(l, s), l)
         /\ SameAccounts(SpendSpecRetry(l), l)
         /\ SameAccounts(SetBlockedReason(l), l)
         /\ SameAccounts(RecordAuditModel(l, c), l)
         /\ SameAccounts(LoadState(l), l)
         /\ SameAccounts(l, l)
  BY DEF LedgerType, SameAccounts, Transition, SetStatus, SpendSpecRetry,
         SetBlockedReason, RecordAuditModel, LoadState

\* What the others do to them.
LEMMA AccountsAfter ==
  ASSUME NEW l \in LedgerType
  PROVE  /\ SpendLogicReplan(l).epoch = l.epoch
         /\ SpendLogicReplan(l).logic = l.logic + 1
         /\ SpendLogicReplan(l).security = l.security
         /\ SpendLogicReplan(l).attempts = l.attempts
         /\ SpendLogicReplan(l).total = l.total
         /\ SpendSecurityReplan(l).epoch = l.epoch
         /\ SpendSecurityReplan(l).logic = l.logic
         /\ SpendSecurityReplan(l).security = l.security + 1
         /\ SpendSecurityReplan(l).attempts = l.attempts
         /\ SpendSecurityReplan(l).total = l.total
         /\ RegisterWorkerRun(l).epoch = l.epoch
         /\ RegisterWorkerRun(l).logic = l.logic
         /\ RegisterWorkerRun(l).security = l.security
         /\ RegisterWorkerRun(l).attempts = l.attempts + 1
         /\ RegisterWorkerRun(l).total = l.total + 1
         /\ NewEpoch(l).epoch = l.epoch + 1
         /\ NewEpoch(l).logic = l.logic
         /\ NewEpoch(l).security = l.security
         /\ NewEpoch(l).attempts = 0
         /\ NewEpoch(l).total = l.total
  BY DEF LedgerType, SpendLogicReplan, SpendSecurityReplan, RegisterWorkerRun, NewEpoch

\* A neutral step keeps the inductive invariant.
LEMMA NeutralKeepsBudget ==
  ASSUME TypeOK, BudgetInv, Neutral
  PROVE  BudgetInv'
  <1>1. ledger \in LedgerType /\ file # "absent" /\ file' # "absent"
    BY DEF TypeOK, BudgetInv, Neutral
  <1>2. Charged' = 0 /\ Pending' = 0
    BY DEF Neutral, AccountSteps, Charged, Pending
  <1>3. Charged \in {0, 1} /\ Pending \in {0, 1}
    BY DEF Charged, Pending
  <1>4. /\ Capped(ledger'.logic, MaxLogicReplans) = Capped(ledger.logic, MaxLogicReplans)
        /\ Capped(ledger'.security, MaxSecurityReplans) = Capped(ledger.security, MaxSecurityReplans)
    BY DEF Neutral, SameAccounts
  <1>5. calls \in Nat
    BY DEF TypeOK
  <1>6. /\ Capped(ledger.logic, MaxLogicReplans) \in Nat
        /\ Capped(ledger.security, MaxSecurityReplans) \in Nat
    BY <1>1, FieldTypes DEF Capped
  <1> QED
    BY <1>1, <1>2, <1>3, <1>4, <1>5, <1>6, FieldTypes DEF BudgetInv, Neutral, SameAccounts

\* A save that touches no account, a step without a save, and a save cut short
\* are neutral.
LEMMA NeutralSave ==
  ASSUME TypeOK, NEW from, from # "Idle", NEW l, NEW to, to \notin AccountSteps,
         SameAccounts(l, ledger), Save(from, l, to), calls' = calls
  PROVE  Neutral
  <1>1. SameAccounts(ledger, ledger)
    BY DEF SameAccounts
  <1> QED
    BY <1>1 DEF Save, Neutral, AccountSteps

\* A step that does not save is neutral.
LEMMA NeutralGo ==
  ASSUME TypeOK, NEW from, from # "Idle", NEW to, to \notin AccountSteps,
         Go(from, to), calls' = calls
  PROVE  Neutral
  <1>1. SameAccounts(ledger, ledger)
    BY DEF SameAccounts
  <1> QED
    BY <1>1 DEF Go, Neutral, fileVars

\* Entering a state, halting, asking for a review and giving up a merge are
\* neutral: transition() touches no account.
LEMMA NeutralEnter ==
  ASSUME TypeOK, NEW from, from # "Idle", NEW state, NEW to, to \notin AccountSteps,
         Enter(from, state, to), calls' = calls
  PROVE  Neutral
  <1>1. ledger \in LedgerType
    BY DEF TypeOK
  <1>2. SameAccounts(Transition(ledger, state, FALSE), ledger)
    BY <1>1, SameAfter
  <1> QED
    BY <1>2, NeutralSave DEF Enter

\* halt_human's first save.
LEMMA NeutralHalt ==
  ASSUME TypeOK, NEW from, from # "Idle", NEW merge, Halt(from, merge), calls' = calls
  PROVE  Neutral
  <1>1. ledger \in LedgerType
    BY DEF TypeOK
  <1>2. SameAccounts(Transition(ledger, "HALT_HUMAN", merge), ledger)
    BY <1>1, SameAfter
  <1> QED
    BY <1>2, NeutralSave DEF Halt, AccountSteps

\* request_human_review's first save.
LEMMA NeutralReview ==
  ASSUME TypeOK, NEW from, from # "Idle", RequestHumanReview(from), calls' = calls
  PROVE  Neutral
  BY NeutralEnter DEF RequestHumanReview, AccountSteps

\* A merge that failed.
LEMMA NeutralMergeFailed ==
  ASSUME TypeOK, NEW from, from # "Idle", MergeFailed(from), calls' = calls
  PROVE  Neutral
  BY NeutralHalt, NeutralGo DEF MergeFailed, AccountSteps

\* The process dies inside save().
LEMMA NeutralTorn ==
  ASSUME TypeOK, pc # "Idle", file' = "torn", pc' = "Idle", ledger' = ledger, calls' = calls
  PROVE  Neutral
  BY DEF Neutral, AccountSteps, SameAccounts

\* Spending a logic replan keeps the budget: the unit waits for its epoch.
LEMMA SpendLogicKeepsBudget ==
  ASSUME TypeOK, BudgetInv, NEW from, from \notin AccountSteps \cup {"Idle"},
         Save(from, SpendLogicReplan(ledger), "LogicReplan"), calls' = calls
  PROVE  BudgetInv'
  <1>1. CASE file' = "torn" /\ pc' = "Idle" /\ ledger' = ledger
    BY <1>1, NeutralTorn, NeutralKeepsBudget DEF Save
  <1>2. CASE ledger' = SpendLogicReplan(ledger) /\ pc' = "LogicReplan" /\ file' = file
    <2>1. ledger \in LedgerType /\ file # "absent" /\ calls \in Nat
      BY DEF TypeOK, BudgetInv, Save
    <2>2. Charged' = 0 /\ Charged = 0 /\ Pending = 0
      BY <1>2 DEF Save, AccountSteps, Charged, Pending
    <2>3. /\ ledger'.epoch = ledger.epoch /\ ledger'.logic = ledger.logic + 1
          /\ ledger'.security = ledger.security
          /\ ledger'.attempts = ledger.attempts /\ ledger'.total = ledger.total
      BY <1>2, <2>1, AccountsAfter
    <2>4. Pending' + Capped(ledger.logic, MaxLogicReplans)
            <= Capped(ledger'.logic, MaxLogicReplans)
      BY <1>2, <2>1, <2>3, FieldTypes DEF Pending, Capped
    <2>5. /\ Capped(ledger.logic, MaxLogicReplans) \in Nat
          /\ Capped(ledger'.logic, MaxLogicReplans) \in Nat
          /\ Capped(ledger.security, MaxSecurityReplans) \in Nat
          /\ Pending' \in Nat
      BY <2>1, <2>3, FieldTypes DEF Capped, Pending
    <2> QED
      BY <1>2, <2>1, <2>2, <2>3, <2>4, <2>5, FieldTypes DEF BudgetInv
  <1> QED
    BY <1>1, <1>2 DEF Save

\* Likewise for a security replan.
LEMMA SpendSecurityKeepsBudget ==
  ASSUME TypeOK, BudgetInv, NEW from, from \notin AccountSteps \cup {"Idle"},
         Save(from, SpendSecurityReplan(ledger), "SecurityReplan"), calls' = calls
  PROVE  BudgetInv'
  <1>1. CASE file' = "torn" /\ pc' = "Idle" /\ ledger' = ledger
    BY <1>1, NeutralTorn, NeutralKeepsBudget DEF Save
  <1>2. CASE ledger' = SpendSecurityReplan(ledger) /\ pc' = "SecurityReplan" /\ file' = file
    <2>1. ledger \in LedgerType /\ file # "absent" /\ calls \in Nat
      BY DEF TypeOK, BudgetInv, Save
    <2>2. Charged' = 0 /\ Charged = 0 /\ Pending = 0
      BY <1>2 DEF Save, AccountSteps, Charged, Pending
    <2>3. /\ ledger'.epoch = ledger.epoch /\ ledger'.security = ledger.security + 1
          /\ ledger'.logic = ledger.logic
          /\ ledger'.attempts = ledger.attempts /\ ledger'.total = ledger.total
      BY <1>2, <2>1, AccountsAfter
    <2>4. Pending' + Capped(ledger.security, MaxSecurityReplans)
            <= Capped(ledger'.security, MaxSecurityReplans)
      BY <1>2, <2>1, <2>3, FieldTypes DEF Pending, Capped
    <2>5. /\ Capped(ledger.security, MaxSecurityReplans) \in Nat
          /\ Capped(ledger'.security, MaxSecurityReplans) \in Nat
          /\ Capped(ledger.logic, MaxLogicReplans) \in Nat
          /\ Pending' \in Nat
      BY <2>1, <2>3, FieldTypes DEF Capped, Pending
    <2> QED
      BY <1>2, <2>1, <2>2, <2>3, <2>4, <2>5, FieldTypes DEF BudgetInv
  <1> QED
    BY <1>1, <1>2 DEF Save

\* A failed gate keeps the budget.
LEMMA RetryKeepsBudget ==
  ASSUME TypeOK, BudgetInv, NEW from, from \notin AccountSteps \cup {"Idle"},
         RetryOrReplan(from), calls' = calls
  PROVE  BudgetInv'
  <1>1. CASE Go(from, "Building")
    BY <1>1, NeutralGo, NeutralKeepsBudget DEF AccountSteps
  <1>2. CASE Save(from, SpendLogicReplan(ledger), "LogicReplan")
    BY <1>2, SpendLogicKeepsBudget
  <1> QED
    BY <1>1, <1>2 DEF RetryOrReplan

\* Opening the epoch an affordable replan paid for keeps the budget.
LEMMA EpochKeepsBudget ==
  ASSUME TypeOK, BudgetInv, NEW from, Pending = 1, NEW to, to \in {"Building", "Idle"},
         from \in {"LogicReplan", "SecurityReplan"},
         Save(from, NewEpoch(ledger), to), calls' = calls
  PROVE  BudgetInv'
  <1>1. CASE file' = "torn" /\ pc' = "Idle" /\ ledger' = ledger
    BY <1>1, NeutralTorn, NeutralKeepsBudget DEF Save
  <1>2. CASE ledger' = NewEpoch(ledger) /\ pc' = to /\ file' = file
    <2>1. ledger \in LedgerType /\ file # "absent" /\ calls \in Nat
      BY DEF TypeOK, BudgetInv, Save
    <2>2. Charged' = 0 /\ Charged = 0 /\ Pending' = 0
      BY <1>2 DEF Save, Charged, Pending
    <2>3. /\ ledger'.epoch = ledger.epoch + 1 /\ ledger'.logic = ledger.logic
          /\ ledger'.security = ledger.security
          /\ ledger'.attempts = 0 /\ ledger'.total = ledger.total
      BY <1>2, <2>1, AccountsAfter
    <2>4. /\ Capped(ledger.logic, MaxLogicReplans) \in Nat
          /\ Capped(ledger.security, MaxSecurityReplans) \in Nat
      BY <2>1, FieldTypes DEF Capped
    <2>5. ledger'.total <= (ledger'.epoch - 1) * MaxWorkerPerEpoch + ledger'.attempts
      <3> DEFINE e == ledger.epoch
                 K == MaxWorkerPerEpoch
      <3>1. e \in Nat /\ e >= 1 /\ K \in Nat /\ ledger.total \in Nat /\ ledger.attempts \in Nat
        BY <2>1, FieldTypes DEF BudgetInv
      <3>2. ledger.total <= (e - 1) * K + ledger.attempts /\ ledger.attempts <= K
        BY DEF BudgetInv
      <3> HIDE DEF e, K
      <3>3. (e - 1) * K + K = e * K /\ (e - 1) * K \in Int /\ e * K \in Int
        BY <3>1
      <3>4. ledger.total <= e * K
        BY <3>1, <3>2, <3>3
      <3> QED
        BY <2>3, <3>1, <3>4 DEF e, K
    <2> QED
      BY <1>2, <2>1, <2>2, <2>3, <2>4, <2>5, FieldTypes DEF BudgetInv
  <1> QED
    BY <1>1, <1>2 DEF Save

\* register_worker_run keeps the budget: the run is charged before the call.
LEMMA RegisterKeepsBudget ==
  ASSUME TypeOK, BudgetInv, MayRegister(ledger), calls' = calls,
         Save("Register", RegisterWorkerRun(ledger), "Worker")
  PROVE  BudgetInv'
  <1>1. CASE file' = "torn" /\ pc' = "Idle" /\ ledger' = ledger
    BY <1>1, NeutralTorn, NeutralKeepsBudget DEF Save
  <1>2. CASE ledger' = RegisterWorkerRun(ledger) /\ pc' = "Worker" /\ file' = file
    <2>1. ledger \in LedgerType /\ file # "absent" /\ calls \in Nat
      BY DEF TypeOK, BudgetInv, Save
    <2>2. Charged' = 1 /\ Charged = 0 /\ Pending' = 0 /\ Pending = 0
      BY <1>2 DEF Save, Charged, Pending
    <2>3. /\ ledger'.epoch = ledger.epoch /\ ledger'.logic = ledger.logic
          /\ ledger'.security = ledger.security
          /\ ledger'.attempts = ledger.attempts + 1 /\ ledger'.total = ledger.total + 1
      BY <1>2, <2>1, AccountsAfter
    <2>4. /\ Capped(ledger.logic, MaxLogicReplans) \in Nat
          /\ Capped(ledger.security, MaxSecurityReplans) \in Nat
          /\ (ledger.epoch - 1) * MaxWorkerPerEpoch \in Int
      BY <2>1, FieldTypes DEF Capped
    <2>5. ledger.attempts < MaxWorkerPerEpoch /\ ledger.total < MaxCumulativeWorkerRuns
      BY DEF MayRegister
    <2> QED
      BY <1>2, <2>1, <2>2, <2>3, <2>4, <2>5, FieldTypes DEF BudgetInv
  <1> QED
    BY <1>1, <1>2 DEF Save

\* The worker's call is the one that was charged.
LEMMA WorkerKeepsBudget ==
  ASSUME TypeOK, BudgetInv, Worker
  PROVE  BudgetInv'
  <1>1. ledger \in LedgerType /\ calls \in Nat /\ calls' \in Nat
    BY DEF TypeOK, Worker
  <1>2. pc = "Worker" /\ pc' = "Commit" /\ file' = file /\ ledger' = ledger
    BY DEF Worker, Go, fileVars
  <1>3. Charged = 1 /\ Charged' = 0 /\ Pending = 0 /\ Pending' = 0
    BY <1>2 DEF Charged, Pending
  <1>4. calls' <= calls + 1
    BY <1>1 DEF Worker
  <1> QED
    BY <1>1, <1>2, <1>3, <1>4, FieldTypes DEF BudgetInv

\* Starting the orchestrator keeps the budget: LoadState gives nothing back.
LEMMA LaunchKeepsBudget ==
  ASSUME TypeOK, BudgetInv, NEW m \in Modes, Launch(m)
  PROVE  BudgetInv'
  <1>1. ledger \in LedgerType /\ calls \in Nat /\ calls' = calls /\ pc = "Idle"
    BY DEF TypeOK, Launch, obsVars
  <1>2. pc' \notin AccountSteps
    BY DEF Launch, FirstStep, AccountSteps, Modes
  <1>3. Charged = 0 /\ Charged' = 0 /\ Pending = 0 /\ Pending' = 0
    BY <1>1, <1>2 DEF Charged, Pending, AccountSteps
  <1>4. SameAccounts(ledger', ledger)
    <2>1. \/ ledger' = ledger
          \/ ledger' = LoadState(ledger)
          \/ file = "absent" /\ ledger' = InitState
      BY DEF Launch
    <2> QED
      BY <1>1, <2>1, SameAfter DEF BudgetInv
  <1>5. file' # "absent"
    BY DEF Launch
  <1> QED
    BY <1>1, <1>3, <1>4, <1>5, FieldTypes DEF BudgetInv, SameAccounts, Capped

\* The inductive invariant holds in every state of every behaviour.
THEOREM BudgetInductive == Spec => []BudgetInv
  <1> USE DEF obsVars
  <1>1. Init => BudgetInv
    BY DEF Init, BudgetInv, InitState, Charged, Pending, Capped
  <1>2. TypeOK /\ BudgetInv /\ [Next]_vars => BudgetInv'
    <2> SUFFICES ASSUME TypeOK, BudgetInv, [Next]_vars
                 PROVE  BudgetInv'
      OBVIOUS
    <2>0. \A s, c : /\ SameAccounts(SetStatus(ledger, s), ledger)
                    /\ SameAccounts(SpendSpecRetry(ledger), ledger)
                    /\ SameAccounts(SetBlockedReason(ledger), ledger)
                    /\ SameAccounts(RecordAuditModel(ledger, c), ledger)
      BY SameAfter DEF TypeOK
    <2>00. Neutral => BudgetInv'
      BY NeutralKeepsBudget
    <2>1. CASE InitPhase
      BY <2>1, <2>00, NeutralEnter DEF InitPhase, AccountSteps
    <2>2. CASE SpecDesign
      BY <2>2, <2>00, NeutralEnter DEF SpecDesign, AccountSteps
    <2>3. CASE GenerateSpec
      BY <2>3, <2>00, NeutralGo DEF GenerateSpec, AccountSteps
    <2>4. CASE SpecGate
      BY <2>4, <2>00, NeutralEnter DEF SpecGate, AccountSteps
    <2>5. CASE ValidateSpec
      BY <2>5, <2>00, NeutralGo, NeutralSave, <2>0 DEF ValidateSpec, AccountSteps
    <2>6. CASE SpecRetry
      BY <2>6, <2>00, NeutralHalt, NeutralGo DEF SpecRetry, AccountSteps
    <2>7. CASE CreateWorktree
      BY <2>7, <2>00, NeutralGo, NeutralHalt DEF CreateWorktree, AccountSteps
    <2>8. CASE Building
      BY <2>8, <2>00, NeutralEnter DEF Building, AccountSteps
    <2>9. CASE Commit
      BY <2>9, <2>00, NeutralGo DEF Commit, AccountSteps
    <2>10. CASE DiffGate
      BY <2>10, <2>00, NeutralEnter DEF DiffGate, AccountSteps
    <2>11. CASE Testing
      BY <2>11, <2>00, NeutralEnter DEF Testing, AccountSteps
    <2>12. CASE RunTests
      BY <2>12, <2>00, NeutralGo, NeutralEnter DEF RunTests, AccountSteps
    <2>13. CASE SastScan
      BY <2>13, <2>00, NeutralEnter DEF SastScan, AccountSteps
    <2>14. CASE RunSast
      BY <2>14, <2>00, NeutralGo, NeutralEnter DEF RunSast, AccountSteps
    <2>15. CASE AuditDiff
      BY <2>15, <2>00, NeutralGo, NeutralHalt DEF AuditDiff, AccountSteps
    <2>16. CASE ReviewStatus
      BY <2>16, <2>00, NeutralSave, <2>0 DEF ReviewStatus, AccountSteps
    <2>17. CASE ReviewBlocked
      BY <2>17, <2>00, NeutralSave, <2>0 DEF ReviewBlocked, AccountSteps
    <2>18. CASE RecordModel
      BY <2>18, <2>00, NeutralSave, <2>0 DEF RecordModel, AccountSteps
    <2>19. CASE AncestorCheck
      BY <2>19, <2>00, NeutralGo, NeutralHalt DEF AncestorCheck, AccountSteps
    <2>20. CASE AutoMerge
      BY <2>20, <2>00, NeutralEnter DEF AutoMerge, AccountSteps
    <2>21. CASE RemoveWorktree
      BY <2>21, <2>00, NeutralGo DEF RemoveWorktree, AccountSteps
    <2>22. CASE MergeClean
      BY <2>22, <2>00, NeutralGo, NeutralMergeFailed DEF MergeClean, AccountSteps
    <2>23. CASE Checkout
      BY <2>23, <2>00, NeutralGo, NeutralMergeFailed DEF Checkout, AccountSteps
    <2>24. CASE IsAncestor
      BY <2>24, <2>00, NeutralGo, NeutralMergeFailed DEF IsAncestor, AccountSteps
    <2>25. CASE FastForward
      BY <2>25, <2>00, NeutralGo, NeutralMergeFailed DEF FastForward, AccountSteps
    <2>26. CASE Recovered
      BY <2>26, <2>00, NeutralEnter DEF Recovered, AccountSteps
    <2>27. CASE Complete
      BY <2>27, <2>00, NeutralSave, <2>0 DEF Complete, AccountSteps
    <2>28. CASE HaltStatus
      BY <2>28, <2>00, NeutralSave, <2>0 DEF HaltStatus, AccountSteps
    <2>29. CASE ResumeMerge
      BY <2>29, <2>00, NeutralGo DEF ResumeMerge, AccountSteps
    <2>30. CASE ResumeAudit
      BY <2>30, <2>00, NeutralGo, NeutralEnter DEF ResumeAudit, AccountSteps
    <2>31. CASE Register
      BY <2>31, <2>00, NeutralHalt, RegisterKeepsBudget DEF Register
    <2>32. CASE Worker
      BY <2>32, WorkerKeepsBudget
    <2>33. CASE ValidateDiff
      BY <2>33, <2>00, NeutralGo, RetryKeepsBudget DEF ValidateDiff, AccountSteps
    <2>34. CASE Triage
      BY <2>34, RetryKeepsBudget DEF Triage, AccountSteps
    <2>35. CASE LogicReplan
      <3>1. CASE Halt("LogicReplan", FALSE)
        BY <2>35, <3>1, <2>00, NeutralHalt DEF LogicReplan
      <3>2. CASE ~LogicReplansExhausted(ledger) /\ Save("LogicReplan", NewEpoch(ledger), "Building")
        <4>1. ledger.logic \in Nat
          BY FieldTypes DEF TypeOK
        <4>2. Pending = 1
          BY <3>2, <4>1 DEF Save, Pending, LogicReplansExhausted
        <4> QED
          BY <2>35, <3>2, <4>2, EpochKeepsBudget DEF LogicReplan
      <3> QED
        BY <2>35, <3>1, <3>2 DEF LogicReplan
    <2>36. CASE SastFilter
      BY <2>36, <2>00, NeutralGo, SpendSecurityKeepsBudget DEF SastFilter, AccountSteps
    <2>37. CASE SecurityReplan
      <3> DEFINE to == IF mode = "run" THEN "Building" ELSE "Idle"
      <3>1. CASE Halt("SecurityReplan", FALSE)
        BY <2>37, <3>1, <2>00, NeutralHalt DEF SecurityReplan
      <3>2. CASE ~SecurityReplansExhausted(ledger) /\ Save("SecurityReplan", NewEpoch(ledger), to)
        <4>1. ledger.security \in Nat
          BY FieldTypes DEF TypeOK
        <4>2. Pending = 1
          BY <3>2, <4>1 DEF Save, Pending, SecurityReplansExhausted
        <4> QED
          BY <2>37, <3>2, <4>2, EpochKeepsBudget DEF SecurityReplan
      <3> QED
        BY <2>37, <3>1, <3>2 DEF SecurityReplan
    <2>38. CASE AuditCall
      <3>1. \/ Go("AuditCall", "RecordModel")
            \/ \E merge \in BOOLEAN : Halt("AuditCall", merge)
            \/ Save("AuditCall", SpendSecurityReplan(ledger), "SecurityReplan")
            \/ RequestHumanReview("AuditCall")
            \/ Enter("AuditCall", "LOGIC_AUDIT", "AuditCall")
        BY <2>38 DEF AuditCall, AuditVerdict, NextCandidate
      <3>2. calls' = calls
        BY <2>38 DEF AuditCall
      <3> QED
        BY <3>1, <3>2, <2>00, NeutralGo, NeutralHalt, NeutralReview, NeutralEnter,
           SpendSecurityKeepsBudget DEF AccountSteps
    <2>39. CASE \E m \in Modes : Launch(m)
      BY <2>39, LaunchKeepsBudget
    <2>40. CASE Crash
      <3>1. SameAccounts(ledger, ledger)
        BY DEF SameAccounts
      <3> QED
        BY <2>40, <3>1, <2>00 DEF Crash, Neutral, fileVars, AccountSteps
    <2>41. CASE BaseCommit \/ TaskCommit \/ DirtyMain \/ EditSpec \/ UNCHANGED vars
      <3>1. UNCHANGED <<file, ledger, pc, calls>>
        BY <2>41 DEF BaseCommit, TaskCommit, DirtyMain, EditSpec, vars, fileVars
      <3> QED
        BY <3>1 DEF BudgetInv, Charged, Pending
    <2> QED
      BY <2>1, <2>2, <2>3, <2>4, <2>5, <2>6, <2>7, <2>8, <2>9, <2>10, <2>11,
         <2>12, <2>13, <2>14, <2>15, <2>16, <2>17, <2>18, <2>19, <2>20, <2>21,
         <2>22, <2>23, <2>24, <2>25, <2>26, <2>27, <2>28, <2>29, <2>30, <2>31,
         <2>32, <2>33, <2>34, <2>35, <2>36, <2>37, <2>38, <2>39, <2>40, <2>41 DEF
         Next, Step, Environment
  <1> QED
    BY <1>1, <1>2, TypeCorrect, PTL DEF Spec

\* The worker model is called at most max_cumulative_worker_runs times in the
\* life of a task: register_worker_run saves the charge before the call, so no
\* crash, restart or recovery makes a call free.
THEOREM CallsAreBounded == Spec => []WorkerCallsBounded
  <1>1. TypeOK /\ BudgetInv => WorkerCallsBounded
    BY FieldTypes DEF TypeOK, BudgetInv, Charged, WorkerCallsBounded
  <1> QED
    BY <1>1, TypeCorrect, BudgetInductive, PTL

\* The epochs of a task are bounded by its replan budgets and its runs by its
\* epochs, although consume_logic_replan and consume_security_replan may be cut
\* short between their two saves.
THEOREM AccountsBalance == Spec => []BudgetAccounting
  <1>1. TypeOK /\ BudgetInv => BudgetAccounting
    <2> SUFFICES ASSUME TypeOK, BudgetInv PROVE BudgetAccounting
      OBVIOUS
    <2>1. /\ ledger.epoch \in Nat /\ ledger.logic \in Nat /\ ledger.security \in Nat
      BY FieldTypes DEF TypeOK
    <2>2. ledger.epoch <= 1 + MaxLogicReplans + MaxSecurityReplans
      BY <2>1 DEF BudgetInv, Capped, Pending
    <2> QED
      BY <2>2 DEF BudgetInv, BudgetAccounting
  <1> QED
    BY <1>1, TypeCorrect, BudgetInductive, PTL

\* b is a ledger that gives back nothing of what a had spent.
NothingBack(a, b) ==
    /\ b.total >= a.total
    /\ b.logic >= a.logic
    /\ b.security >= a.security
    /\ b.spec >= a.spec
    /\ b.epoch >= a.epoch
    /\ b.attempts < a.attempts => b.epoch > a.epoch

\* What one step may do to the ledger: nothing, or one method of StateManager.
LedgerMove ==
    \/ ledger' = ledger
    \/ \E to, m : ledger' = Transition(ledger, to, m)
    \/ \E st \in {"FAILED", "NEEDS_HUMAN_REVIEW"} : ledger' = SetStatus(ledger, st)
    \/ pc = "Complete" /\ ledger' = SetStatus(ledger, "COMPLETED")
    \/ ledger' = RegisterWorkerRun(ledger)
    \/ ledger' = SpendSpecRetry(ledger)
    \/ ledger' = SpendLogicReplan(ledger)
    \/ ledger' = SpendSecurityReplan(ledger)
    \/ ledger' = NewEpoch(ledger)
    \/ ledger' = SetBlockedReason(ledger)
    \/ ledger' = RecordAuditModel(ledger, cand)
    \/ ledger' = LoadState(ledger)
    \/ file = "absent" /\ ledger' = InitState

\* Every step of the process, of its operator and of other people is such a move.
LEMMA LedgerMoves == [Next]_vars => LedgerMove
  <1> SUFFICES ASSUME [Next]_vars PROVE LedgerMove
    OBVIOUS
  <1> USE DEF LedgerMove, Save, Go, Enter, Halt, fileVars
  <1>1. CASE InitPhase \/ SpecDesign \/ GenerateSpec \/ SpecGate \/
            ValidateSpec \/ SpecRetry \/ CreateWorktree
    BY <1>1 DEF InitPhase, SpecDesign, GenerateSpec, SpecGate, ValidateSpec,
       SpecRetry, CreateWorktree
  <1>2. CASE Building \/ Register \/ Worker \/ Commit \/ DiffGate \/
            ValidateDiff \/ LogicReplan
    BY <1>2 DEF Building, Register, Worker, Commit, DiffGate, ValidateDiff,
       LogicReplan, RetryOrReplan
  <1>3. CASE Testing \/ RunTests \/ Triage \/ SastScan \/ RunSast \/
            SastFilter \/ SecurityReplan
    BY <1>3 DEF Testing, RunTests, Triage, SastScan, RunSast, SastFilter,
       SecurityReplan, RetryOrReplan
  <1>4. CASE AuditDiff
    BY <1>4 DEF AuditDiff
  <1>5. CASE AuditCall
    BY <1>5 DEF AuditCall, AuditVerdict, NextCandidate, RequestHumanReview
  <1>6. CASE ReviewStatus \/ ReviewBlocked \/ RecordModel \/ AncestorCheck \/
            AutoMerge \/ RemoveWorktree
    BY <1>6 DEF ReviewStatus, ReviewBlocked, RecordModel, AncestorCheck,
       AutoMerge, RemoveWorktree
  <1>7. CASE MergeClean \/ Checkout \/ IsAncestor \/ FastForward
    BY <1>7 DEF MergeClean, Checkout, IsAncestor, FastForward, MergeFailed
  <1>8. CASE Recovered \/ Complete \/ HaltStatus \/ ResumeMerge \/ ResumeAudit
    BY <1>8 DEF Recovered, Complete, HaltStatus, ResumeMerge, ResumeAudit
  <1>9. CASE \E m \in Modes : Launch(m)
    BY <1>9 DEF Launch
  <1>10. CASE Crash \/ BaseCommit \/ TaskCommit \/ DirtyMain \/ EditSpec \/ UNCHANGED vars
    BY <1>10 DEF Crash, BaseCommit, TaskCommit, DirtyMain, EditSpec, vars
  <1> QED
    BY <1>1, <1>2, <1>3, <1>4, <1>5, <1>6, <1>7, <1>8, <1>9, <1>10
       DEF Next, Step, Environment

\* No method of StateManager gives anything back, and _init_state is used only
\* where nothing was spent.
LEMMA MovesGiveNothingBack ==
  ASSUME TypeOK, BudgetInv, LedgerMove
  PROVE  NothingBack(ledger, ledger')
  <1>1. ledger \in LedgerType
    BY DEF TypeOK
  <1>2. /\ ledger.epoch \in Nat /\ ledger.logic \in Nat /\ ledger.security \in Nat
        /\ ledger.attempts \in Nat /\ ledger.total \in Nat /\ ledger.spec \in Nat
    BY <1>1, FieldTypes
  <1>3. CASE file = "absent" /\ ledger' = InitState
    BY <1>2, <1>3 DEF BudgetInv, NothingBack
  <1>4. CASE ledger' = RegisterWorkerRun(ledger)
    <2>1. ledger'.spec = ledger.spec
      BY <1>1, <1>4 DEF LedgerType, RegisterWorkerRun
    <2> QED
      BY <1>1, <1>2, <1>4, <2>1, AccountsAfter DEF NothingBack
  <1>5. CASE ledger' = NewEpoch(ledger)
    <2>1. ledger'.spec = ledger.spec
      BY <1>1, <1>5 DEF LedgerType, NewEpoch
    <2> QED
      BY <1>1, <1>2, <1>5, <2>1, AccountsAfter DEF NothingBack
  <1>6. CASE ledger' = SpendLogicReplan(ledger) \/ ledger' = SpendSecurityReplan(ledger)
    <2>1. ledger'.spec = ledger.spec
      BY <1>1, <1>6 DEF LedgerType, SpendLogicReplan, SpendSecurityReplan
    <2> QED
      BY <1>1, <1>2, <1>6, <2>1, AccountsAfter DEF NothingBack
  <1>7. CASE ledger' = SpendSpecRetry(ledger)
    BY <1>1, <1>2, <1>7 DEF LedgerType, NothingBack, SpendSpecRetry
  <1>8. CASE \/ ledger' = ledger
             \/ \E to, m : ledger' = Transition(ledger, to, m)
             \/ \E st : ledger' = SetStatus(ledger, st)
             \/ ledger' = SetBlockedReason(ledger)
             \/ ledger' = RecordAuditModel(ledger, cand)
             \/ ledger' = LoadState(ledger)
    <2>1. ledger'.spec = ledger.spec
      BY <1>1, <1>8 DEF LedgerType, Transition, SetStatus, SetBlockedReason,
                        RecordAuditModel, LoadState
    <2>2. SameAccounts(ledger', ledger)
      BY <1>1, <1>8, SameAfter
    <2> QED
      BY <1>2, <2>1, <2>2 DEF SameAccounts, NothingBack
  <1> QED
    BY <1>3, <1>4, <1>5, <1>6, <1>7, <1>8 DEF LedgerMove

\* What a task has spent stays spent, over every crash, restart and recovery;
\* the attempts of an epoch start over only in a new epoch.
THEOREM NothingIsGivenBack == Spec => SpentStaysSpent
  <1>1. TypeOK /\ BudgetInv /\ [Next]_vars => NothingBack(ledger, ledger')
    BY LedgerMoves, MovesGiveNothingBack
  <1>2. TypeOK /\ BudgetInv /\ [Next]_vars =>
          [/\ ledger'.total >= ledger.total
           /\ ledger'.logic >= ledger.logic
           /\ ledger'.security >= ledger.security
           /\ ledger'.spec >= ledger.spec
           /\ ledger'.epoch >= ledger.epoch
           /\ ledger'.attempts < ledger.attempts => ledger'.epoch > ledger.epoch]_vars
    BY <1>1 DEF NothingBack
  <1> QED
    BY <1>2, TypeCorrect, BudgetInductive, PTL DEF Spec, SpentStaysSpent

\* The measure of NoFreeCycle, step by step.
LEMMA StepsToGoAt ==
    /\ StepsToGo["HaltStatus"] = 1 /\ StepsToGo["Complete"] = 1
    /\ StepsToGo["ReviewBlocked"] = 1 /\ StepsToGo["ReviewStatus"] = 2
    /\ StepsToGo["Recovered"] = 2 /\ StepsToGo["FastForward"] = 3
    /\ StepsToGo["IsAncestor"] = 4 /\ StepsToGo["Checkout"] = 5
    /\ StepsToGo["MergeClean"] = 6 /\ StepsToGo["RemoveWorktree"] = 7
    /\ StepsToGo["ResumeMerge"] = 7 /\ StepsToGo["AutoMerge"] = 8
    /\ StepsToGo["AncestorCheck"] = 9 /\ StepsToGo["RecordModel"] = 10
    /\ StepsToGo["AuditCall"] = 11 /\ StepsToGo["AuditDiff"] = 12
    /\ StepsToGo["ResumeAudit"] = 13 /\ StepsToGo["SastFilter"] = 13
    /\ StepsToGo["RunSast"] = 14 /\ StepsToGo["SastScan"] = 15
    /\ StepsToGo["RunTests"] = 16 /\ StepsToGo["Testing"] = 17
    /\ StepsToGo["ValidateDiff"] = 18 /\ StepsToGo["DiffGate"] = 19
    /\ StepsToGo["Commit"] = 20 /\ StepsToGo["Worker"] = 21
    /\ StepsToGo["Register"] = 2 /\ StepsToGo["Building"] = 3
    /\ StepsToGo["LogicReplan"] = 4 /\ StepsToGo["SecurityReplan"] = 4
    /\ StepsToGo["Triage"] = 5 /\ StepsToGo["CreateWorktree"] = 4
    /\ StepsToGo["SpecRetry"] = 5 /\ StepsToGo["ValidateSpec"] = 6
    /\ StepsToGo["SpecGate"] = 7 /\ StepsToGo["GenerateSpec"] = 8
    /\ StepsToGo["SpecDesign"] = 9 /\ StepsToGo["Init"] = 10
  BY DEF StepsToGo

\* A save that charges no worker run, a step without a save, a transition and a
\* halt use up a step when they lead on.
LEMMA SaveUsesUp ==
  ASSUME NEW from, NEW l, NEW to, Save(from, l, to), pc' # "Idle",
         l.total = ledger.total, StepsToGo[to] < StepsToGo[from]
  PROVE  UsesUp
  BY DEF Save, UsesUp

\* A step without a save.
LEMMA GoUsesUp ==
  ASSUME NEW from, NEW to, Go(from, to), StepsToGo[to] < StepsToGo[from]
  PROVE  UsesUp
  BY DEF Go, UsesUp, fileVars

\* sm.transition().
LEMMA EnterUsesUp ==
  ASSUME TypeOK, NEW from, NEW state, NEW to, Enter(from, state, to), pc' # "Idle",
         StepsToGo[to] < StepsToGo[from]
  PROVE  UsesUp
  <1>1. SameAccounts(Transition(ledger, state, FALSE), ledger)
    BY SameAfter DEF TypeOK
  <1>2. Transition(ledger, state, FALSE).total = ledger.total
    BY <1>1 DEF SameAccounts
  <1> QED
    BY <1>2, SaveUsesUp DEF Enter

\* halt_human's first save.
LEMMA HaltUsesUp ==
  ASSUME TypeOK, NEW from, 1 < StepsToGo[from], Halt(from, TRUE) \/ Halt(from, FALSE),
         pc' # "Idle"
  PROVE  UsesUp
  <1>1. ASSUME NEW merge \in BOOLEAN
        PROVE  Transition(ledger, "HALT_HUMAN", merge).total = ledger.total
    BY SameAfter DEF TypeOK, SameAccounts
  <1>2. CASE Halt(from, TRUE)
    BY <1>1, <1>2, StepsToGoAt, SaveUsesUp DEF Halt
  <1>3. CASE Halt(from, FALSE)
    BY <1>1, <1>3, StepsToGoAt, SaveUsesUp DEF Halt
  <1> QED
    BY <1>2, <1>3

\* A merge that failed.
LEMMA MergeFailedUsesUp ==
  ASSUME TypeOK, NEW from, 1 < StepsToGo[from], MergeFailed(from), pc' # "Idle"
  PROVE  UsesUp
  <1>1. ~Go(from, "Idle")
    BY DEF Go
  <1> QED
    BY <1>1, HaltUsesUp DEF MergeFailed

\* A gate that failed.
LEMMA RetryUsesUp ==
  ASSUME TypeOK, NEW from \in {"ValidateDiff", "Triage"}, RetryOrReplan(from), pc' # "Idle"
  PROVE  UsesUp
  <1>1. SpendLogicReplan(ledger).total = ledger.total
    BY AccountsAfter DEF TypeOK
  <1>2. /\ StepsToGo["Building"] < StepsToGo[from]
        /\ StepsToGo["LogicReplan"] < StepsToGo[from]
    BY StepsToGoAt
  <1> QED
    BY <1>1, <1>2, SaveUsesUp, GoUsesUp DEF RetryOrReplan

\* Every step of the process that does not end it uses something up.
LEMMA StepUsesUp ==
  ASSUME TypeOK, BudgetInv, Step, pc' # "Idle"
  PROVE  UsesUp
  <1>0. /\ \A to, m, st : /\ Transition(ledger, to, m).total = ledger.total
                          /\ SetStatus(ledger, st).total = ledger.total
                          /\ RecordAuditModel(ledger, st).total = ledger.total
        /\ SpendSpecRetry(ledger).total = ledger.total
        /\ SetBlockedReason(ledger).total = ledger.total
        /\ SpendSecurityReplan(ledger).total = ledger.total
        /\ NewEpoch(ledger).total = ledger.total
    BY SameAfter, AccountsAfter DEF TypeOK, SameAccounts
  <1>a. ASSUME NEW from \in {"SpecRetry", "CreateWorktree", "Register", "LogicReplan",
                            "SecurityReplan", "AuditDiff", "AuditCall", "AncestorCheck"}
        PROVE  /\ Halt(from, TRUE) => UsesUp
               /\ Halt(from, FALSE) => UsesUp
    <2>1. 1 < StepsToGo[from]
      BY StepsToGoAt
    <2> QED
      BY <2>1, HaltUsesUp
  <1>b. /\ Go("ValidateSpec", "CreateWorktree") => UsesUp
        /\ Save("ValidateSpec", SpendSpecRetry(ledger), "SpecRetry") => UsesUp
        /\ Go("SpecRetry", "CreateWorktree") => UsesUp
        /\ Go("CreateWorktree", "Building") => UsesUp
        /\ Enter("Building", "BUILDING", "Register") => UsesUp
        /\ Save("LogicReplan", NewEpoch(ledger), "Building") => UsesUp
        /\ Go("AuditDiff", "AuditCall") => UsesUp
        /\ Go("AuditCall", "RecordModel") => UsesUp
        /\ Save("AuditCall", SpendSecurityReplan(ledger), "SecurityReplan") => UsesUp
        /\ RequestHumanReview("AuditCall") => UsesUp
        /\ Go("AncestorCheck", "AutoMerge") => UsesUp
        /\ Enter("AutoMerge", "AUTO_MERGE", "RemoveWorktree") => UsesUp
        /\ Go("RemoveWorktree", "MergeClean") => UsesUp
    BY <1>0, StepsToGoAt, SaveUsesUp, GoUsesUp, EnterUsesUp DEF RequestHumanReview
  <1>1. CASE InitPhase \/ SpecDesign \/ GenerateSpec \/ SpecGate
    BY <1>1, StepsToGoAt, EnterUsesUp, GoUsesUp DEF InitPhase, SpecDesign, GenerateSpec, SpecGate
  <1>2. CASE ValidateSpec \/ SpecRetry
    BY <1>2, <1>a, <1>b DEF ValidateSpec, SpecRetry
  <1>3. CASE CreateWorktree \/ Building
    BY <1>3, <1>a, <1>b DEF CreateWorktree, Building
  <1>4. CASE Worker \/ Commit \/ DiffGate
    BY <1>4, StepsToGoAt, EnterUsesUp, GoUsesUp DEF Worker, Commit, DiffGate
  <1>5. CASE ValidateDiff \/ Triage
    BY <1>5, StepsToGoAt, RetryUsesUp, GoUsesUp DEF ValidateDiff, Triage
  <1>6. CASE LogicReplan
    BY <1>6, <1>a, <1>b DEF LogicReplan
  <1>7. CASE Testing \/ RunTests \/ SastScan \/ RunSast
    BY <1>7, StepsToGoAt, EnterUsesUp, GoUsesUp DEF Testing, RunTests, SastScan, RunSast
  <1>8. CASE SastFilter
    BY <1>8, StepsToGoAt, <1>0, GoUsesUp, SaveUsesUp DEF SastFilter
  <1>9. CASE AuditDiff
    BY <1>9, <1>a, <1>b DEF AuditDiff
  <1>10. CASE AncestorCheck \/ AutoMerge \/ RemoveWorktree
    BY <1>10, <1>a, <1>b DEF AncestorCheck, AutoMerge, RemoveWorktree
  <1>11. CASE MergeClean \/ Checkout \/ IsAncestor \/ FastForward
    BY <1>11, StepsToGoAt, GoUsesUp, MergeFailedUsesUp DEF MergeClean, Checkout, IsAncestor, FastForward
  <1>12. CASE Recovered
    BY <1>12, StepsToGoAt, EnterUsesUp DEF Recovered
  <1>13. CASE ReviewStatus \/ ReviewBlocked \/ Complete \/ HaltStatus
    <2>1. ~ReviewBlocked /\ ~Complete /\ ~HaltStatus
      BY DEF ReviewBlocked, Complete, HaltStatus, Save
    <2> QED
      BY <1>13, <2>1, <1>0, StepsToGoAt, SaveUsesUp DEF ReviewStatus
  <1>14. CASE RecordModel
    BY <1>14, <1>0, StepsToGoAt, SaveUsesUp DEF RecordModel
  <1>15. CASE ResumeMerge \/ ResumeAudit
    <2>1. ~Go("ResumeMerge", "Idle") /\ ~Go("ResumeAudit", "Idle")
      BY DEF Go
    <2> QED
      BY <1>15, <2>1, StepsToGoAt, GoUsesUp, EnterUsesUp DEF ResumeMerge, ResumeAudit
  <1>16. CASE SecurityReplan
    <2>1. CASE Halt("SecurityReplan", FALSE)
      BY <2>1, <1>a
    <2>2. CASE Save("SecurityReplan", NewEpoch(ledger), "Building")
      BY <2>2, <1>0, StepsToGoAt, SaveUsesUp
    <2>3. ~Save("SecurityReplan", NewEpoch(ledger), "Idle")
      BY DEF Save
    <2> QED
      BY <1>16, <2>1, <2>2, <2>3 DEF SecurityReplan
  <1>17. CASE Register
    <2>1. CASE Halt("Register", FALSE)
      BY <2>1, <1>a
    <2>2. CASE MayRegister(ledger) /\ Save("Register", RegisterWorkerRun(ledger), "Worker")
      <3>1. ledger' = RegisterWorkerRun(ledger)
        BY <2>2 DEF Save
      <3>2. ledger'.total = ledger.total + 1 /\ ledger.total \in Nat
        BY <3>1, AccountsAfter, FieldTypes DEF TypeOK
      <3> QED
        BY <2>2, <3>2 DEF MayRegister, UsesUp
    <2> QED
      BY <1>17, <2>1, <2>2 DEF Register
  <1>18. CASE AuditCall
    <2>1. \/ Go("AuditCall", "RecordModel")
          \/ Halt("AuditCall", TRUE) \/ Halt("AuditCall", FALSE)
          \/ Save("AuditCall", SpendSecurityReplan(ledger), "SecurityReplan")
          \/ RequestHumanReview("AuditCall")
          \/ NextCandidate
      BY <1>18 DEF AuditCall, AuditVerdict
    <2>2. CASE NextCandidate
      <3>1. ledger' = Transition(ledger, "LOGIC_AUDIT", FALSE) /\ pc' = pc
        BY <2>2 DEF NextCandidate, Enter, Save
      <3>2. cand < cand' /\ cand' <= Candidates
        BY <2>2 DEF NextCandidate, TypeOK
      <3> QED
        BY <3>1, <3>2, <1>0 DEF UsesUp
    <2> QED
      BY <2>1, <2>2, <1>a, <1>b
  <1> QED
    BY <1>1, <1>2, <1>3, <1>4, <1>5, <1>6, <1>7, <1>8, <1>9, <1>10, <1>11, <1>12, <1>13, <1>14, <1>15, <1>16, <1>17, <1>18 DEF Step

\* No cycle of builds, retries, replans and audits is free: every step of the
\* process ends it, or charges a worker run, of which MaxCumulativeWorkerRuns
\* are left at most, or moves it nearer to doing so; and nobody else's step sets
\* it back.  With the fairness of FairSpec this is why a run ends.
THEOREM EveryCycleIsCharged == Spec => NoFreeCycle
  <1>1. TypeOK /\ BudgetInv /\ [Next]_vars =>
          [pc # "Idle" /\ pc' # "Idle" =>
              IF Step THEN UsesUp ELSE UNCHANGED <<fileVars, pc, cand>>]_vars
    <2> SUFFICES ASSUME TypeOK, BudgetInv, Next, pc # "Idle", pc' # "Idle"
                 PROVE  IF Step THEN UsesUp ELSE UNCHANGED <<fileVars, pc, cand>>
      OBVIOUS
    <2>1. CASE Step
      BY <2>1, StepUsesUp
    <2>2. CASE ~Step
      <3>1. ~Crash /\ \A m \in Modes : ~Launch(m)
        BY DEF Crash, Launch
      <3>2. BaseCommit \/ TaskCommit \/ DirtyMain \/ EditSpec
        BY <2>2, <3>1 DEF Next, Environment
      <3>3. UNCHANGED <<fileVars, pc, procVars>>
        BY <3>2 DEF BaseCommit, TaskCommit, DirtyMain, EditSpec
      <3> QED
        BY <2>2, <3>3 DEF procVars
    <2> QED
      BY <2>1, <2>2
  <1> QED
    BY <1>1, TypeCorrect, BudgetInductive, PTL DEF Spec, NoFreeCycle
=============================================================================

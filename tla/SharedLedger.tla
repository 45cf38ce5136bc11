---------------------------- MODULE SharedLedger ----------------------------
(***************************************************************************)
(* Orchestrators started on the same task at the same time.  Each holds a  *)
(* copy of the ledger, read once by StateManager.__init__; every method    *)
(* changes the copy and save() writes all of it over the file, without a   *)
(* lock and without reading the file again.                                *)
(*                                                                         *)
(* Of run_pipeline this follows the build loop, where the budgets are, up  *)
(* to the first gate; the specification is valid, and the worktree the     *)
(* processes also share is left out.                                       *)
(***************************************************************************)
EXTENDS Ledger

CONSTANTS
    Proc,     \* the orchestrator processes
    NoFile    \* the state file does not exist

VARIABLES
    file,     \* state_<TASK>.json: a ledger, or NoFile
    data,     \* per process, self.data
    pc,       \* per process, its next step
    calls     \* observer: times the worker model was called, by anyone

vars == <<file, data, pc, calls>>

Init ==
    /\ file = NoFile
    /\ data = [p \in Proc |-> InitState]
    /\ pc = [p \in Proc |-> "Load"]
    /\ calls = 0

\* p changes its copy to l, saves it and goes on at step "to".
Save(p, from, l, to) ==
    /\ pc[p] = from
    /\ data' = [data EXCEPT ![p] = l]
    /\ file' = l
    /\ pc' = [pc EXCEPT ![p] = to]
    /\ UNCHANGED calls

\* p goes on without touching the ledger.
Go(p, from, to) ==
    /\ pc[p] = from
    /\ pc' = [pc EXCEPT ![p] = to]
    /\ UNCHANGED <<file, data>>

\* StateManager.__init__ up to its save, which it makes for a new file and for
\* one left RUNNING.
Load(p) ==
    /\ pc[p] = "Load"
    /\ data' = [data EXCEPT ![p] = IF file = NoFile THEN InitState ELSE LoadState(file)]
    /\ pc' = [pc EXCEPT ![p] = IF file = NoFile \/ file.status = "RUNNING"
                               THEN "FirstSave" ELSE "InitPhase"]
    /\ UNCHANGED <<file, calls>>

FirstSave(p) == Save(p, "FirstSave", data[p], "InitPhase")

InitPhase(p) == Save(p, "InitPhase", Transition(data[p], "INIT", FALSE), "SpecGate")

SpecGate(p) == Save(p, "SpecGate", Transition(data[p], "SPEC_GATE", FALSE), "Building")

Building(p) == Save(p, "Building", Transition(data[p], "BUILDING", FALSE), "Register")

Halt(p, from) == Save(p, from, Transition(data[p], "HALT_HUMAN", FALSE), "HaltStatus")

Register(p) ==
    \/ MayRegister(data[p]) /\ Save(p, "Register", RegisterWorkerRun(data[p]), "Worker")
    \/ ~MayRegister(data[p]) /\ Halt(p, "Register")

Worker(p) ==
    /\ Go(p, "Worker", "DiffGate")
    /\ calls' = calls + 1

DiffGate(p) == Save(p, "DiffGate", Transition(data[p], "DIFF_GATE", FALSE), "ValidateDiff")

\* The gate passes and p leaves the loop, or it fails.
ValidateDiff(p) ==
    \/ Go(p, "ValidateDiff", "Done") /\ UNCHANGED calls
    \/ /\ CanWorkerRetryInEpoch(data[p])
       /\ Go(p, "ValidateDiff", "Building") /\ UNCHANGED calls
    \/ /\ ~CanWorkerRetryInEpoch(data[p])
       /\ Save(p, "ValidateDiff", SpendLogicReplan(data[p]), "LogicReplan")

LogicReplan(p) ==
    \/ LogicReplansExhausted(data[p]) /\ Halt(p, "LogicReplan")
    \/ /\ ~LogicReplansExhausted(data[p])
       /\ Save(p, "LogicReplan", NewEpoch(data[p]), "Building")

HaltStatus(p) == Save(p, "HaltStatus", SetStatus(data[p], "FAILED"), "Done")

Next ==
    \E p \in Proc :
        \/ Load(p) \/ FirstSave(p) \/ InitPhase(p) \/ SpecGate(p) \/ Building(p)
        \/ Register(p) \/ Worker(p) \/ DiffGate(p) \/ ValidateDiff(p)
        \/ LogicReplan(p) \/ HaltStatus(p)

Spec == Init /\ [][Next]_vars

\* README.md: state changes happen under a lock between processes and reload
\* the file first, so what one process spent no other process spends again and
\* max_cumulative_worker_runs is the limit of the task.  There is neither lock
\* nor reload in state_manager.py.
LifetimeLimit == calls <= MaxCumulativeWorkerRuns
=============================================================================

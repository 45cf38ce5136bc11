---------------------------- MODULE Integration -----------------------------
(***************************************************************************)
(* What the factory promises the owners of the base branch, without its    *)
(* processes, ledger, budgets, worktrees and recoveries: a change gets in  *)
(* by one door.  The tree that every gate passed is the tree that gets in, *)
(* no change refused by an auditor does, nothing others committed is lost, *)
(* and a task is reported done only when it is in.                         *)
(***************************************************************************)
CONSTANTS
    Gate,    \* the gates a tree has to pass
    Human    \* the changes people make

VARIABLES
    base,      \* the history of the base branch
    task,      \* that of the task branch
    passed,    \* the gates that passed the tree of the task branch as it is now
    rejected,  \* an auditor refused the change, and nobody has reworked it since
    done       \* the task is reported complete

vars == <<base, task, passed, rejected, done>>

Init == base = {} /\ task = {} /\ passed = {} /\ rejected = FALSE /\ done = FALSE

\* The task branch grows.  What was said of the tree before says nothing now.
Build ==
    /\ task \subseteq task' /\ task' # task
    /\ passed' = {}
    /\ UNCHANGED <<base, rejected, done>>

Pass(g) == passed' = passed \cup {g} /\ UNCHANGED <<base, task, rejected, done>>

Reject == rejected' = TRUE /\ UNCHANGED <<base, task, passed, done>>

Rework == rejected' = FALSE /\ UNCHANGED <<base, task, passed, done>>

\* The door.
Merge ==
    /\ passed = Gate /\ ~rejected
    /\ base \subseteq task
    /\ base' = task
    /\ UNCHANGED <<task, passed, rejected, done>>

\* Others commit to the base branch, and nothing but what they made.
HumanCommit ==
    /\ base \subseteq base' /\ base' \ base \subseteq Human
    /\ UNCHANGED <<task, passed, rejected, done>>

Finish ==
    /\ task \subseteq base
    /\ done' = TRUE
    /\ UNCHANGED <<base, task, passed, rejected>>

\* A completed task is started again and does not get through this time.
Reopen == done' = FALSE /\ UNCHANGED <<base, task, passed, rejected>>

Next ==
    \/ Build \/ Reject \/ Rework \/ Merge \/ HumanCommit \/ Finish \/ Reopen
    \/ \E g \in Gate : Pass(g)

Spec == Init /\ [][Next]_vars
=============================================================================

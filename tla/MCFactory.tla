----------------------------- MODULE MCFactory ------------------------------
(* Instances of Factory for TLC: the sets of environment events of its runs. *)
EXTENDS Factory

\* Everything that can happen to a task's ledger and branches.
AnyEvent == EventKinds \ {"edit_spec", "locked_files"}

\* Crashes, concurrent work on the repository and restarts, with people keeping
\* off the task branch, git committing and the scanner working.
OrderlyEvents == {"crash", "base_commit", "dirty", "rerun", "locked_files"}

\* The process dies and is started again, and nobody else is around.
RestartEvents == {"crash", "torn_write", "edit_spec", "rerun"}
=============================================================================

# Formal models of the autonomous multi-agent software factory

This directory models the factory's control logic in TLA+, checks it with TLC on
small instances and proves the statements that matter most with TLAPS for every
value of the constants. `PROJECT.json` maps every definition to the source lines it
stands for and lists the runs, the mutants, the hazards and the theorems.

## 1. The system

| Part | State it keeps | Operations | Module |
|---|---|---|---|
| Task ledger, `orchestrator/state_manager.py` | `state_<TASK>.json`: current state, execution status, epoch, four counters, history, `blocked_reason`, `audit_model_used` | `transition`, `set_execution_status`, `register_worker_run`, `consume_*`, `halt_human`, `request_human_review`, `record_audit_model`, `can_resume_*` | `Ledger`, `SharedLedger` |
| Pipeline, `orchestrator.py` | where the process is; which auditor it asks | `run_pipeline`, `execute_logic_security_audit`, `resume_merge`, `resume_audit` | `Factory` |
| Merge gate and worktrees, `scripts/merge_gate.py`, `scripts/worktree_manager.py` | base branch, task branch, worktree directory, main working copy | `create_worktree`, `remove_worktree`, `is_repo_clean`, `execute_fast_forward_merge` | `Factory`, `Integration` |
| Gates, `scripts/spec_gate.py`, `diff_gate.py`, `test_runner.py`, `sast_runner.py`, `discovery.py` | none | a verdict on the specification or on the worktree | verdicts in `Factory` |
| Adapters, `adapters/` | none | one answer per call, transport retries below it | answers in `Factory` |
| TTL cache, `src/cache/ttl_cache.py` | ordered entries, cached expiry bound | `set`, `get`, `delete`, `clear`, `in`, `len`, `iter` | `TTLCache`, `LiveCache`, `OrderedDict` |
| Rate limiter, `src/security/rate_limiter.py` | window per client | `allow` | planned |
| Authorization policy, password and token validators, `src/security`, `src/auth` | none | predicates | planned / left out |
| Stage A snapshot (C++), `remediation/round37/stage_a_fixture/src/snapshot.cpp`, `windows_snapshot.cpp` | open handles, two inventories, the bytes read | `compare_fresh_controller` over a `WindowsSession` | `Snapshot`, `OneLook` |
| Stage A binding (C++), same directory: `controller_authority_composition.cpp`, `authority_binding.cpp`, `read_fixture_head_codec.cpp`, `windows_read_fixture_head_nonce.cpp` | what was read so far; nonce; messages; the broker's reading | `bind_controller_precomparison`, the codec | `Binding` |
| Stage A protected readers (C++): `windows_p10_reader.cpp`, `windows_p11_custody.cpp`, over `windows_snapshot.cpp` | held handles, identities found, bytes read | `read_verified_p10`, `read_verified_p11`, `HeldHandles`, `inspect`, `check_node`, `read_content` | `ProtectedRead`, `OneLook` |
| Stage A decoders (C++): directory page in `windows_snapshot.cpp`, `windows_controller_token_sid.cpp`, `parse_writer_result` in `contracts.cpp` | offset in a buffer of bytes | `parse_file_id_extd_directory_buffer`, `decode_token_user_sid`, the decimal | `Decoders` |
| `orchestrator/env_loader.py` | the environment | reads keys from files | left out: pure I/O |

How they interact. The operator starts a process; the process reads the ledger once,
then alternates between rewriting it, running git, running gates and asking models.
Nothing but the ledger file and the git repository survives the process, so recovery
(`--resume-merge`, `--resume-audit`, or simply a new start) decides from those two. People
share the repository: they commit to the base branch, edit the main copy and the
specification, and may touch the task branch.

What is hard here: a crash between two saves of one method; a ledger and a repository
that no longer tell the same story; a base branch that moves between a check and the
merge it guards; verdicts about a tree that is not the tree that gets merged; a build
loop without a bound of its own; budgets tested before the increment in one method and
after it in another; a file read in pieces through a handle that others may write through;
lengths and offsets that come from the bytes they are about. What makes each part correct:

* ledger: nothing spent is given back, and the limits hold over the life of the task;
* pipeline: only what passed every gate is merged, a rejection stays a rejection,
  every started process ends;
* merge gate: COMPLETED means merged, and a merge that failed can be resumed with nothing lost;
* cache: lazy removal is invisible, live entries are evicted only for live ones;
* snapshot: what is judged is what the directory held at one moment;
* binding: what is handed to the comparison is fresh, and all its parts agree;
* readers: what is returned was, with its whole path, as sealed at one moment; no handle is lost;
* decoders: no read outside the buffer, no wrap-around, and an end.

## 2. The models

### Ledger and Factory

`Ledger` has no variables: each operator returns the ledger as *one* call of `save()`
leaves it. `consume_logic_replan`, which saves twice, is `SpendLogicReplan` and, one
step later, `NewEpoch`, and the process may die in between. The history list is kept
as the two things the code asks of it: its last entry, and whether any entry goes
from LOGIC_AUDIT to HUMAN_REVIEW.

`Factory` is one task. `pc` names the next step of the process; a step ends where an
effect that another party or a restart can see has happened (a save, a git command, an
answer). The steps follow `orchestrator.py` from top to bottom and keep its names. Some
correspondences that are not obvious:

* `Save` has two outcomes, since `Path.write_text` truncates before it writes: the new
  ledger, or a torn file (event `torn_write`) that no later start can load.
* `Halt` and `HaltStatus` are the two saves of `halt_human`; `RequestHumanReview`,
  `ReviewStatus` and `ReviewBlocked` the three of `request_human_review`.
* A branch is the set of changes in its history. Histories are linear and changes are
  unique, so "is an ancestor of" is inclusion and a fast-forward is an assignment.
* `loose` are the uncommitted changes of the worktree. The gates that run in it look at
  `task \cup loose`, the audit and the merge at `task`.
* `Commit` ignores git's return code, `RunSast` ignores EXIT_TOOL_ERROR, `RemoveWorktree`
  ignores what `remove_worktree` returns: the code does.
* `SpecRetry` validates the same file again; nothing regenerates it.
* `Launch` of the pipeline does not reset status, history or budgets: the code does not.
* `calls`, `evidence` and `rejected` are observers. No guard reads them.

`Events` selects what the environment may do, so each run asks its question of the
smallest environment in which it is a real question: kill, torn write, commit by a
person, dirty main copy, specification edited, restart of a finished task, failed
`git commit`, scanner error, undeletable files, `--simulate`.

`Integration` is the promise of all this to the owners of the base branch: five variables (base branch, task
branch, the gates that passed the tree *as it is now*, a standing rejection, "reported done") and a
handful of steps of which one, `Merge`, lets the factory's work in. It has no process, ledger, budget, worktree
or recovery. The mapping `Promise` of `Factory` derives the gates passed from the observer `evidence` (a gate
has passed if the tree it saw is the tree of the task branch now, and there is one), and "done" from the ledger's
status; the other three variables are `Factory`'s own. `Reopen` is there because the code allows it: a COMPLETED
task that is started again and halts is no longer COMPLETED.

`FactoryClaims` states two sentences of the repository's own documents over the same
model, and `SharedLedger` a third; TLC refutes each (section 5). `SharedLedger` is the ledger under
several orchestrators at once: each process has its own copy (`data`), read once in `Load`, and `Save`
writes all of it over the file. It follows the build loop up to the diff gate, with the operators of `Ledger`,
and leaves out the worktree the processes would also share and a file read while it is half written.

### The TTL cache

`OrderedDict` is Python's dictionary as the cache uses it (external): a set of entries,
one per key, and the relation "used before". `TTLCache` has one action per public method,
because each holds the lock from its first access to its last; expired entries stay
until something removes them, and `nextExpiry` is the bound that lets `_purge_expired`
skip its scan. `get` takes any reading of the clock, because a caller may pass one and a
wall-clock reading is shifted by a wall clock that may have been set in between.
`LiveCache` is the promise: a map of live entries without lazy removal and without a
bound. The refinement mapping parts the entries in two: `live <- Live(entries, clock)`, with the order
restricted to their keys, and `ended <- Ended(entries, clock)`, of which the promise says only that
they may be forgotten at any call and that nothing of a key is left once it was set, deleted or
looked up in vain. A caller of `get` whose own reading is behind the clock may still see an entry of
`ended` that has not ended at that reading; so nobody is shown an entry that is expired at the time he
asks with. What calls return is part of both specifications, so the refinement covers results as well
as state. Lifetimes are natural numbers: an infinite one, which `set` accepts, is left out.

### The Stage A snapshot

`Snapshot` is `compare_impl` reading a directory that others write. One action is one native
call, or one loop iteration around it, because a writer may come between any two: a page of
an enumeration, opening a file by its name, reading it. `dir`, `data` and `had` are the file
system: which file a name stands for, what it contains, what it has ever contained. Things
to know:

* The order in which files are held and read is left open; the code's order is one of them.
* A page lists every name behind the cursor: the buffer of 65,536 bytes holds more than the 32
  entries that are accepted. Names created behind the cursor are missed, ahead of it listed.
* Every native call may fail and every comparison of metadata may disagree; both are `Stop`,
  enabled in every state. `held' = Nothing` is the session's destructor.
* `MayTouch` is the share mode of `snapshot_child_spec`: while a file is held nobody opens it for
  writing, deleting or renaming. `MappedWrite` is what share modes do not stop
  (`snapshot.hpp`:8-9 says so). Such writes are assumed not to bring back contents the file has had;
  two readings cannot tell otherwise, and without the assumption `SnapshotIsAtomic` fails.
* `witness` is an observer: the directory's contents at the first call of the final inventory.

`OneLook` is what an observation of many calls should amount to, for this module and for the readers
below: one moment is chosen, the answer is what was true at that moment or a refusal, and an answer is not taken
back. Here the truth is the verdict one look would give now, the look is the first call of the final
inventory, the answer the verdict. This says more than `SnapshotIsAtomic` and `VerdictIsTrue` together: it
includes `reject_mismatch`, and that the moment comes before the answer and is fixed from then on.

Two checks of the code turn out not to be needed for these properties: without the comparison
of identities in `hold_child`, or of the two lists of names, the second look at each file
(`ids.at(...)`, identity, contents) still stops every case. They are defence in depth.

### The Stage A binding

`Binding` has a controller, a broker, the wire between them and two protected files that are open
for write sharing. The controller's steps are those of `bind_internal` and
`bind_protected_authority` in their order: token, approval, P10 twice, request, response. The
broker's are `read_verified_p11`: the file twice, then the answer. The transport and the broker
process are not in the repository; they are modelled as the codec's comments describe their use
(marked external). `wire` keeps every message, so any of them may arrive late, twice or never, also
in a later call. A truncated message is a lost one. Renderings are records of what they bind (P10
names the controller's SID, P11 the case and the digest of P10); digests are injective; a nonce is
not drawn twice. A check that fails, an exception and a missing answer all end in `Fail`, as they all
end in a result without comparison input. `trusted` holds what the parties were given and may be
inconsistent: refusing that is half of the component's purpose.

### The protected readers

`ProtectedRead` is `read_verified_p10` and `read_verified_p11`, which are the same code with other names
and sizes (the map names one of the two files for each definition). A path of `Depth` levels below the
volume root (three in the code) is opened node by node, each relative to the handle of its parent; a
node is opened, handed to `HeldHandles`, looked at (`inspect` asks for attributes and tag, final path
and descriptor one after the other) and compared with its seal. Then the leaf is read twice, in
chunks, and all nodes are looked at again. `open` is what the process has handles on, `held` how many
of them `HeldHandles` owns: between `Open` and `Add` they differ, which is where an exception could
lose one. `Fail` is every exception, at any step; `Close` is one iteration of the destructor.

The disk belongs to the others: they unlink and link names, set attributes and descriptors, write
within the file or behind its end, and truncate it. What they may not do is `MayMove`, and it is less
than the share modes in the code suggest. Root and directories are opened for attributes and descriptor
only (`root_identity_spec`, `ancestor_identity_spec`), and Windows enforces share modes only for
handles that read, write or delete data. So a directory may be moved although it is open, and moved back. Two
things do hold: the leaf is open for reading data and not shared for deleting (`SharesNoDelete`,
`p10_file_read_spec`), and NTFS does not rename or remove a directory while something below it is open
(`Below`, external). Between the check of a directory and the opening of the leaf there is therefore
room for every exchange, and `PathStays` says what is left: from the check of the leaf until it
is closed the reviewed path leads to the file that is read. `inspect` establishes it by comparing the leaf's final
path (`AtPath`), and the two rules keep it. No directory is linked below itself. As in
`Snapshot` a write does not bring back what was there before (`hadMeta`, `hadData`); the two readings
and two looks cannot tell otherwise, and without this assumption the property fails. Truncating may
uncover nothing new, but extending the file again counts as a write. `witness` is an observer: the
disk when the second reading asks for the size. It turns out that this one moment serves for
everything, the path and metadata of all nodes included. So the reader, too, is `OneLook`: the look is that
size query, the answer the check of the last node, every exception before it gives up, and the closing of handles
after it changes nothing. `Binding` treats a reading as one step on the strength of this refinement.

Each digest comparison is a comparison of the bytes. The trusted configuration is a constant; a call
whose configuration does not agree with itself is `Fail` before the first open.

### The decoders

`Decoders` has one variable part per decoder and one action per check-and-copy. The code looks at
every byte once, so what a byte contains is chosen at the moment it is read: every page, token and
decimal there can be is covered, not a list of examples. Unsigned subtraction and addition wrap at
`Word`; that no check depends on a value that wrapped is part of what is shown. `read` is the range
of bytes last copied.

## 3. Runs

| Run | Asks | Bounds |
|---|---|---|
| `any_event` | does the lifetime limit on worker calls survive every event in every order; does COMPLETED mean merged; is no cycle of builds, replans and audits free? | 2 starts, 1 commit, 2 auditors, 1 attempt per epoch, 2 runs |
| `orderly` | is only the tree that passed every gate merged; is a rejection final; does the review report tell the truth; does a forced removal of the worktree lose no build; can a merge that failed be resumed; is the whole an `Integration`? | 3 starts, 1 commit, 2 auditors |
| `budgets` | do epochs, attempts and totals stay consistent when a process dies between any two saves, and does every started process end but for a hung test or scanner? | 2 starts, 2 auditors, 2 attempts per epoch, 3 runs |
| `cache` | does the cache keep the promise of `LiveCache`? | 3 keys, size 2, lifetimes 1, 2, 4, clock to 6 |
| `snapshot` | is a judged snapshot what the directory held at one moment, and the verdict true of it; is the comparison a `OneLook`? | 4 names, 2 of them in the fixture; 4 files, 2 contents, 3 changes, 3 pages, 3 entries |
| `binding` | is a record handed on fresh, and does it agree with approval, token, P10 and the broker's seal? | 2 calls, 2 edits, 2 SIDs, 3 cases, 14 inputs of which one is consistent |
| `protected_read` | does the path stay with the file being read although directories are moved; were the bytes returned, and the whole path to them, as sealed at one moment; is every handle closed; does the call get on with every step, and end; is it a `OneLook`? | 2 levels below the root, 5 objects, 5 disks to start from, 2 blocks sealed and room for 3, chunks of 1 or 2, 2 changes |
| `decoders` | does a decoder stay in its buffer, get on with every step, and end, whatever the bytes? | words of 24 values, pages to 20, tokens to 14 bytes, decimals to 3 digits around a limit of 21 |
| `claim_*` | the three refuted sentences | 1 start; for `claim_lock` 2 processes, 3 runs |

Why the bounds are enough. `MaxLaunches`: a recovery needs one start to fail and one to
recover, and the interesting third one is a restart after a recovery. `MaxHumanCommits`:
one commit at any moment already separates every check from what it guards. Budgets of 1
and 2 reach both sides of every limit, and `MaxCumulativeWorkerRuns` lies below what the
epochs allow in some runs and above in others, so both circuit breakers of
`register_worker_run` fire. Two `Candidates` are a primary and a fallback. `calls` stops
counting just above `MaxCumulativeWorkerRuns`, where the property has already failed. For the
cache: more keys than room, lifetimes that end in another order than they start, and a clock
that outlives every entry; keys and values are symmetric. For the snapshot: names between
and behind those of the fixture, so that files appear on both sides of the cursor;
room for one entry too many and for one page too many; three changes are enough to replace a
listed file and write another. For the binding: a second call is what a late answer to the
first can confuse, and two edits overwrite a record and bring it back. For the readers: an object for
every level to be replaced by, disks that are right, become right by one change or cannot, a file of
two chunks or one that can grow past the sealed size, and two changes, the first of which makes right
what the second makes wrong (with three changes, which move a directory away, put another in its place and
bring the first back, TLC needs four minutes and 2.1 million states and finds nothing either). For the decoders: a word hardly larger than the largest buffer, so that
sums really wrap; room for several entries in a page; a limit that is no multiple of ten.
`CHECK_DEADLOCK FALSE` is set for the factory, which rests when the operator starts nothing more, and
for the modules of Stage A, which are over after their verdicts.

Fairness. `FairSpec` adds weak fairness of `Step` outside `Unbounded`: a process that was started and not
killed goes on from every step whose calls return. Git works on the local repository. The adapters give every
request a timeout, try three times and cap the delay between attempts, a Retry-After of the server
included (a timeout is per read: a server that sends a byte now and then for ever is left out). Not so `run_tests` (`scripts/test_runner.py`:38), which runs tests the worker wrote, and the
scanners (`scripts/sast_runner.py`:43 and 84): `subprocess.run` without a timeout. Nothing is assumed of these two steps,
and the code gives nothing: a generated test that loops for ever hangs the orchestrator. `RunEnds`
therefore says that every started process ends unless it waits for ever in one such call. That still
excludes what the budgets are for, an endless round of builds, tests, replans and audits of which every
single call returns. Nothing is assumed of people or of the answers; crashes only end a process earlier.
The readers and the decoders are calls on one
thread that wait for nobody, so a step that is enabled is eventually taken (`WF` of `Reader`, and of
`Next` in `Decoders`, which has no other party); nothing is assumed of those who change the disk.
`CallEnds` is real because the file may change its size under the loop, `DecoderEnds` because nothing but
the offsets in a page moves the walk on.

Limits of `orderly`. `VerifiedMerge`, `ReviewIsTruthful`, `HaltedMergeIsResumable`, `BuildsSurvive` and `KeepsPromise` are claims about a factory
whose tools work and whose task branch is left alone, so that run leaves out `commit_fails`,
`tool_error`, `task_commit` and `simulate` (the proof assumes the same, as `Undisturbed`), and to stay
small `torn_write` and `edit_spec`, which the proof allows. With a failed `git commit` the
tests pass on files that never reach the branch; with a scanner error the scan lets the tree
through; with a rebase before `--resume-merge` the merged tree is not the one the gates saw;
with `--simulate` nothing was really audited. `any_event` has them all.

Mutants. Each property of each passing run has a mutated definition (named in
PROJECT.json, kept next to its original) that a plausible bug in the code would produce,
and that breaks the property under the run's own configuration.

## 4. Proofs

All constants are arbitrary naturals and sets, restricted only by the named assumptions
(`BudgetAssumption`, `FactoryAssumption`, `MaxSizeAssumption`, `TTLAssumption`, `TimeAssumption`,
`InfAssumption`; for the snapshot `NamesAssumption`, `NoneAssumption`, `FixtureAssumption` and
`LimitAssumption`; for the binding `InputAssumption`, `CaseAssumption`, `NoneAssumption`,
`GarbledAssumption` and `BoundAssumption`; for the readers `DepthAssumption`, `ObjAssumption`,
`SealAssumption`, `CanonicalAssumption`, `WorldAssumption` and `BoundAssumption`; for the decoders
`PageAssumption`, `TokenAssumption` and `DecimalAssumption`), which TLC evaluates in every run. The theorems hold for any number of
starts, crashes, commits, auditors and budgets.

* `FactoryProofs`: `TypeCorrect`, the type invariant, one case per action.
* `BudgetProofs`: from `BudgetInv`, the inductive invariant: `WorkerCallsBounded`
  (`CallsAreBounded`), `BudgetAccounting` (`AccountsBalance`), `SpentStaysSpent`
  (`NothingIsGivenBack`). The bound on calls is not
  inductive: it needs that a call is charged before it is made, that is, that the calls
  made never exceed `ledger.total`, minus one while the process stands at the call. The
  bound on epochs needs that between the save that spends a replan and the save that
  opens the epoch one unit is spent and not yet used, wherever the process died.
  Then `EveryCycleIsCharged` (`NoFreeCycle`): each step of a process ends it or lowers a lexicographic
  measure (worker runs left in the total; steps to the next charge, a table `StepsToGo` over `pc`; auditors
  left), and no event of the environment touches it while the process runs. The delicate case is the end of
  an audit, a test or a scan, which leads back to the head of the loop: the table puts the steps before
  `register_worker_run` below those after it, so every way back is downhill and only the charge goes up.
* `AuditProofs`: `RejectionIsFinal`, that is `Spec => NoModelShopping`, from `RejectionInv`: while a
  rejection stands the process is at no step that leads to a merge, and the ledger
  satisfies neither `CanResumeMerge` nor `CanResumeAudit`. That a stale `blocked_reason` or
  an old LOGIC_AUDIT -> HUMAN_REVIEW entry cannot help is the part that needs the invariant.
  Then `OnlyVerifiedMerges` (`VerifiedMerge`) and `ReviewReportsTrue` (`ReviewIsTruthful`), both under the
  assumption `Undisturbed` on `Events`, from `EvidenceInv`: at each step of one process it says which gates
  have passed the tree on the branch, and for the next process that a ledger in HUMAN_REVIEW, in
  AUTO_MERGE, or halted from AUTO_MERGE was written over a tree with that evidence, which nothing but the build
  loop can change. Last `CompletedMeansMerged` (`CompletedIsMerged`), which assumes nothing of the events: past
  the fast-forward the task branch is in the base, and no other step writes COMPLETED.
  From these invariants together `FactoryIntegrates`, the refinement `Spec => KeepsPromise` under
  `Undisturbed`: `PromiseMoves` sorts the steps of `Factory` by what they do to the variables of the promise,
  `PromiseStep` maps each sort to a step of `Integration` or a stutter. It needs two more facts: a process works on no
  branch that is not there (`BranchInv`), and a verdict is about a tree the branch has had (`TraceInv`), so that a
  branch that grows loses all its verdicts at once. And `NoBuildIsLost` (`BuildsSurvive`): on the way to the
  forced removal nothing in the worktree is uncommitted (`RemovalInv`), because the worktree is
  clean when the verdict comes (`EvidenceInv`) and no step after it writes files. And `FailedMergesResume`
  (`HaltedMergeIsResumable`), from `HaltInv`: the halts that leave a last transition AUTO_MERGE -> HALT_HUMAN are those of a failed
  merge, whose reason speaks of one; the branch is still there; and while the ledger says so, no
  process has got past the start, so that evidence and verdict are those of the audit.
* `CacheProofs`: `BoundNeverLate`, `DictStays` (`OrderedAndBounded`) and `CacheRefines`, the whole refinement
  `Spec => Promise!Spec`. `CacheInv` says that `nextExpiry` is a lower bound and keys are
  unique. Then what `_purge_expired` leaves is the set of live entries whether it scans
  or not (`PurgedIsLive`), eviction sees the same entries in both specifications
  (`MoveRestrict`, `MostRecentRestrict`), and every call maps to the call of the same name. The size bound
  needs that eviction always finds an oldest entry. No induction proves that of an order, so
  `DictInv` keeps the stronger fact that every nonempty set of keys has one, which each operation preserves.
* `SnapshotProofs`: `OneMoment` (`SnapshotIsAtomic`) and `VerdictsAreTrue` (`VerdictIsTrue`). Neither is
  inductive. `SnapInv` adds that a held file keeps its name (`HeldInv`), that the bytes read are
  contents it has had (`BytesInv`), and, from the first page of the final inventory on, that a
  file which still has those bytes had them at that page, and that every name present then is
  listed (`WitnessInv`). So a second reading that agrees pins the file to that moment. From the same
  invariant `ComparisonIsOneLook`, the refinement `Spec => AsOneLook`: `StepIsOneLook` has a case per step.
* `BindingProofs`: `NoStaleHead` (`HeadIsFresh`) and `ChainHolds` (`AuthorityChain`). `BindInv` says that
  messages and the broker know only nonces already drawn (`NonceInv`), so that nothing on the
  wire carries the nonce of a request not yet sent; that from the request on everything read or
  said under its nonce is in `seen` (`FreshInv`); that the broker says only what its seal names
  (`SealInv`); and what each passed check has established (`ChecksInv`).

* `ReaderProofs`: `AtomicRead` (`ReadIsAtomic`), `PathInPlace` (`PathStays`), `HandlesReleased`
  (`NoHandleLeft`) and `ReaderTypeCorrect`, for every depth of the path. `IInv` counts the handles
  (`HandleInv`); says that what was checked and read has been on the disk (`IdentityInv`, `ContentInv`);
  and, from the size query of the second reading on, that whatever has its sealed value now, or had it
  when it was read or looked at since, had it at the query (`WitnessInv`, `WitnessReadInv`,
  `WitnessLookInv`). The last is inductive because a sealed value that was there before the query and
  is replaced does not come back. For the path nothing is known of a directory after its check. The invariant
  starts at the leaf: when its final path has been compared, the names lead from the root to it (`PathInv`), and no
  change can break that path, since every node on it but the leaf has the leaf below it (`LeafPathKept`). That
  the nodes on it are the ones that were opened follows only at the second look, when each of them is found at its
  level of the same path: the path of a given length from the root is unique (`PathUnique`, by a least
  level at which two paths differ, `LeastNumber`), so it is the sealed one, and it was that at the
  size query too (`WitnessPathInv`). `ReadingIsOneLook` is the refinement
  `Safety => AsOneLook` from the same invariant. `ReaderNeverGoesBack` (`NoStepBack`) is the variant behind `CallEnds`:
  every step of the reader goes to a later stage, or on within one (fewer bytes to read, fewer handles to close), and
  others never move it.
* `DecoderProofs`: `ReadsStayInBounds`, `EntriesDoNotOverlap`, `DecimalsAreExact` and the types, for every
  word size, buffer size and limit. The invariant says at each step of a walk what the last check left:
  the header of the current entry lies within the buffer, its name too, the SID begins where its
  fixed part still fits. `DecodersGetOn` (`NoStepBack`) is the variant behind `DecoderEnds`: an entry is
  followed only by one further on in the same page, however the offsets are chosen.

Only model-checked: `RunEnds`, `CallEnds` and `DecoderEnds`. Liveness under fairness is out of the prover's reach, and so
is the induction over a well-founded order that would lead from a variant to termination. What is proved is the
rest of the argument: the variants, for every value of the constants (`NoFreeCycle` and the two `NoStepBack`). What they
leave to TLC is that a step is enabled until the end, and that fairness takes it. Every other property of a passing run
is a theorem, `VerifiedMerge`, `ReviewIsTruthful`, `HaltedMergeIsResumable`, `BuildsSurvive` and the refinement of `Integration` under
`Undisturbed`, the others without a condition on the events.

## 5. Where the code and its documents disagree

Refuted by a run:

* `claim_sast`: README.md:93 says tool errors of the scanner halt the pipeline;
  `orchestrator.py` compares with EXIT_FINDINGS only and goes on to audit and merge.
* `claim_review`: README.md:142 sends an UNCERTAIN verdict to HUMAN_REVIEW, and README.md:150 calls
  `--resume-audit` the recovery of tasks there whose `blocked_reason.gate` is LOGIC_AUDIT; the review that the
  primary auditor's answer requests is recorded as coming from SAST_SCAN, and `can_resume_audit` refuses it.
* `claim_lock`: README.md:124 gives a task five worker runs over its life; `save()` writes a copy read at
  the start, without a lock, and two orchestrators on one task together exceed that limit. README.md:113-114 promise a
  lock between processes and a reload before each change; README.md:459 says that this lock is not part of
  the published code.

Seen while modelling, direct consequences of a line and given no run of their own:

* README.md:114 promises atomic replacement of the ledger; `save()` is `write_text`.
* CONTRIBUTING.md:66 says the primary working copy stays clean; a generated specification is written into
  it and later blocks the merge.
* README.md:147 and the report of `halt_human` say the worktree is preserved; the pipeline removes it
  before a merge that may still fail.
* README.md:150 against `resume_audit`: a FAIL of a resumed audit spends a security replan.
* CONTRIBUTING.md:67: a crash in AUTO_MERGE leaves a task `--resume-merge` refuses, and a rebase
  before `--resume-merge` is merged without passing the gates again.
* A rerun of a COMPLETED task stays COMPLETED while it builds.
* `normalize_path` of the diff gate strips the leading dot of `.env` and `.gitignore`, so those
  protected patterns (RULES.md:14-15) never match.

## 6. Not modelled

Texts, timestamps, prompts, HTTP, report files and console output; secret redaction; the
environment loader; `delete_branch`, which nobody calls; the password and token validators
(character classes). How the gates reach their verdicts, the retry decorator, the rate
limiter and the authorization policy are not modelled yet. Of Stage A, the layout of the wire messages,
the conversion of names, descriptors and SIDs to text, the fixed prefix of a writer's result, and the
evidence records are left out. `Snapshot` reads a file in one step: a
reading that a mapped write splits is not repeated by the second one, which is what `ProtectedRead`
shows in detail for the same loop.

## 7. Plan

1. Done: `Ledger`, `Factory`, `FactoryClaims`, `SharedLedger`, their proofs; `TTLCache` and its refinement;
   `Snapshot`, `Binding`, `ProtectedRead` and `Decoders` with their proofs; the refinements of `Integration` and
   `OneLook`, and the variants behind the liveness properties.
2. Stage A, continued: `Binding` composed with `Snapshot` (the comparison input of one is the
   fixture of the other), and an abstract specification of the whole comparison that the
   composition refines.
3. The gates as operators over small sets of paths and sections (diff boundaries, protected
   patterns, traceability of the specification, the scanner's fallback chain), checked against a
   reference definition; the authorization policy likewise.
4. The retry decorator under the fallback chain; the rate limiter with several threads.
5. Proofs: `Binding` as one fresh reading of the broker's file (a `OneLook` per call), and the composition of the
   Stage A modules; for the factory, what of `Integration` survives without `Undisturbed`.

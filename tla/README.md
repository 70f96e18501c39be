# Verification of CADRIG

CADRIG puts language-model agents in front of CAD kernels. A model proposes typed
edits; CADRIG validates them against a document revision, previews them, applies
them as transactions, verifies them independently and rolls back what the
verification rejects. A second half of the code runs a CAD benchmark
(CADGenBench) over many fixtures with token and cost budgets that hold across
crashes and restarts.

This directory models that behaviour in TLA+, checks it with TLC and proves part
of it with TLAPS. Paths below are relative to the repository; `cadgenbench/`
stands for `src/cadrig/benchmarks/cadgenbench/`.

## 1. Inventory

| Component (code) | State it keeps | Operations |
|---|---|---|
| **Memory kernel adapter** (`src/cadrig/adapters/memory.py`) | documents with features and revisions, undo records by receipt, under one lock | `observe`, `validate`, `execute` (dry run or apply), `rollback` |
| **Execution engine, registry** (`executor.py`, `registry.py`) | the adapters and their leases | forwards `observe`/`validate`/`execute`/`rollback`, captures artifacts |
| **Contract verifier** (`verification.py`, `design_contracts.py`) | none | `verify(contract, before, after)` |
| **Native agent** (`native_agent.py`, `action_graph.py`, `contract_compiler.py`) | the local variables of one `run` | observe, compile, then up to `max_repairs + 1` times propose, preflight, preview, and apply, verify, roll back |
| **FreeCAD adapter** (`adapters/freecad.py`) | host documents (shared with the user at the keyboard), fingerprints, revisions, undo records | the same four operations over native transactions |
| **Macro assistant** (`macros.py`) | a generated macro and its review; the host's documents while it executes one | generate, review, repair, one approved execution |
| **Episode store** (`episodes.py`, `artifacts.py`) | a directory per episode, staged and renamed | `record_run`, `record_failure` |
| **Process lock** (`cadgenbench/common.py`) | a file holding a pid | acquire (and reclaim), release |
| **Cohort scheduler** (`cadgenbench/scheduler.py`) | `cohort.json`, published task directories, attempts | start, resume, reserve, run an attempt, settle, publish, record, finish |
| **Baseline runner** (`cadgenbench/runner.py`) | an invocation record, then a manifest in the run directory | start the official command line, find its directory, judge it |
| **Baseline driver** (`cadgenbench/official_cli.py`, `compat.py`) | consumed tokens, a ledger on disk, accepted candidates | capped model call, ledger record, candidate acceptance and clean-up |
| **Matrix coordinator** (`cadgenbench/matrix.py`) | `matrix.json`, one cohort per cell | run or resume all cells in order, recompute totals |
| **Batch planner** (`cadgenbench/batch_plan.py`) | a plan file | bands, capacities, assignment, running a batch |
| **Compose, package** (`compose.py`, `package.py`) | a staged output directory | merge verified runs, build an archive |
| **Run verification, dataset** (`sanity.py`, `dataset.py`) | none | candidate discovery, external sanity checker |
| **Fallbacks** (`mesh_fallback.py`, `brep_fallback.py`, `step_io.py`) | none | numerical geometry |
| **Reports, harness evaluation** (`report.py`, `harness_eval.py`) | none | aggregate finished runs |
| **Model clients, tracing, command line, panel** | none that others read | I/O and wiring |

How they interact:

* The agent, the panel and the command line call an adapter through the engine.
  The adapter's lock makes one call atomic; nothing makes a *run* of several
  calls atomic, so users and other runs act between any two calls of a run.
* The scheduler holds a process lock while it runs, starts one baseline child per
  attempt and learns what the child spent from the ledger file the child rewrites
  after each provider call. The child is another process: it may outlive the
  scheduler. The matrix coordinator runs one cohort after another in the same way.
* Invocations of the runner share an output root without a lock. Planning,
  cohorts, composing and packaging share run directories without one: each reads
  what others wrote, and hashes and the official checker are all that ties what
  was verified to what is used.
* A committed agent run is handed to the episode store after its outcome; macros
  run in the host's main thread between the adapter's calls, in its documents.

What is hard, component by component, and what makes each correct:

* **Adapter.** Transactions of several callers interleave with rollbacks in every
  order, revision numbers come back after a rollback, actions fail half-way
  through a list. Correct: a receipt says exactly what happened; a rollback
  restores exactly the version its transaction replaced or is refused; nothing
  else changes a version.
* **Agent.** The document can change between observation, preview, apply and
  rollback. Correct: it leaves no edit its contract rejects, or says so; it ends.
* **FreeCAD adapter.** The same, while the user edits in the host and the host's
  undo list is shared. Correct: the same, for the user's transactions too.
* **Lock.** Processes die at any point, pids are reused, and every system call
  can be interleaved with others'. Correct: one process inside at a time; a dead
  owner's lock is taken over; a living owner's never is.
* **Scheduler.** It is killed between any two disk writes, or fails to read a
  child's output; children live on.
  Correct: all attempts of all starts together stay within the budgets; a
  completed task stays completed and its candidate is the one recorded; an
  interrupted cohort can be resumed.
* **Baseline driver.** The allowance rests on an estimated prompt size, the last
  call may cross the cap, later turns may overwrite a good candidate. Correct:
  spending per attempt stays within the cap but for the one call that crosses
  it; the newest *accepted* candidate is what remains.
* **Matrix.** A cell may raise, stop on its budget, or leave a stale status.
  Correct: totals are those of the cells; a resume runs what is left.
* **Runner.** Children outlive runners and directories appear concurrently.
  Correct: a manifest describes the run it lies in; "completed" is complete.
* **Batch planner.** Plans are made again and edited while cohorts exist, and the
  directory of a cohort may be named by hand. Correct: every task in exactly one
  batch, sizes even and within the target; a cohort pays for nothing its plan counts
  as completed, nor for what another batch of that plan pays for.
* **Compose, package.** Candidates change between hash, copy, verification and
  archive. Correct: what is published was accepted by the official checker.
* **Episode store.** Kills and I/O errors at every step. Correct: an episode is
  whole or absent, and recording it does not change the outcome of the run.
* **Macros.** The code is anything, and nothing but a prompt keeps it from the
  native transaction it runs in. Correct: a failed macro that kept to its
  transaction leaves the active document as it was.

`PROJECT.json` lists the hazards behind this at their lines.

## 2. The modules

| Module | Models | Role |
|---|---|---|
| `FeatureEdits` | the memory adapter's actions | operators: what a list of actions makes of a document's features |
| `VersionStack` | the contract of `adapters/base.py` | abstract specification: a stack of versions, `Commit` and `Undo` |
| `MemoryAdapter` | `adapters/memory.py` | state machine; refines `VersionStack` |
| `Verification` | `verification.py` | operators: what a contract says of two states |
| `NativeAgent` | `native_agent.py`, `action_graph.py` | composes the adapter, the verifier, runs and users |
| `Episodes` | `_finish` of `native_agent.py`, `episodes.py` | extends `NativeAgent` by the recording of its runs |
| `AgentProofs` | | theorems about `MemoryAdapter`, called by anybody, and about `NativeAgent` and `Episodes` |
| `FreeCADAdapter` | `adapters/freecad.py`, its host and the host's user | state machine |
| `FreeCADFeatures` | the FreeCAD adapter's actions: preflight and application | operators |
| `Macros` | `macros.py`: an approved execution | extends `FreeCADAdapter` by macros in the same host |
| `FreeCADProofs` | | theorems about `FreeCADAdapter` and `Macros` |
| `ProcessLock` | `exclusive_process_lock` | state machine, one action per system call |
| `ProcessLockProofs` | | theorems about `ProcessLock` |
| `Sums` | the additions of `_recalculate_usage`, `_recalculate` and the planner | operators: sums over tasks, cells and batches |
| `SumTheorems` | | theorems about `Sums`, used by `CohortSchedulerProofs`, `MatrixCoordinatorProofs` and `RunProofs` |
| `CohortScheduler` | `scheduler.py`, and the ledger of `official_cli.py` | state machine with kills and restarts |
| `CohortSchedulerProofs` | | theorems about `CohortScheduler` |
| `BaselineAttempt` | `official_cli.py`: cap, ledger, acceptance and publication of candidates | state machine of one attempt |
| `BaselineAttemptProofs` | | theorems about `BaselineAttempt` |
| `CohortAccount` | a cohort as its `cohort.json` shows it to others | abstract specification of `CohortScheduler`, and the cells of `MatrixCoordinator` |
| `MatrixCoordinator` | `matrix.py`: `run_matrix` | state machine with kills, composed of one `CohortAccount` per cell |
| `MatrixCoordinatorProofs` | | theorems about `MatrixCoordinator` |
| `RunVerification` | `candidate_for`, `expected_tasks`, `verify_run` | operators over run directories |
| `BaselineRun` | `runner.py` | state machine: concurrent invocations and their children |
| `BatchPlan` | `batch_plan.py`: profiles, capacities, assignment | operators |
| `Production` | plans and batches, `compose.py`, `package.py` | state machine that composes planning, cohorts, composing and packaging |
| `RunProofs` | | theorems about `BaselineRun`, `BatchPlan` and `Production` |
| `MCMemoryAdapter`, `MCNativeAgent`, `MCFreeCADAdapter`, `MCCohortScheduler`, `MCMatrixCoordinator`, `MCBaselineAttempt`, `MCBaselineRun`, `MCProduction` | | values of the constants for TLC |

Beside some definitions stand *faulty variants*, the definition with one
plausible bug in it (a dropped guard, a wrong order, a missing reset), marked as
such. No specification uses them. Putting a variant in the place of its
definition makes the property named with it in `PROJECT.json` ("mutants") fail:
that is the evidence that the property depends on that piece of code.

### MemoryAdapter

`documents[d]` is the stored `_Document` (its features, or `Absent`), its
revision included; `undo` is the set of `_UndoRecord`s; `issued` numbers the
receipts in place of their uuids; `receipts[c]` is the last receipt caller `c`
got. One action is one call, since each runs under the adapter's lock:
`ExecuteRefused`, `ExecuteDryRun`, `ExecuteApplied` are the three ways through
`execute`, `RollbackRefused` and `RolledBack` the two through `rollback`.
`Valid` is `validate`: supported actions, a fresh base revision, a creation
first when the document does not exist and none when it does. What actions do to
features is a parameter (`Apply`), given by `FeatureEdits` in the runs and left
arbitrary in the proofs. `observe` changes nothing and is the operator `Observe`.

Revision numbers start at 1 with a creation, grow by one per transaction, and a
rollback puts the old number back, as the code does; a later transaction gets
the same number again.

### NativeAgent

`run[a]` holds the local variables of one `NativeCADAgent.run`. One action is one
adapter call and the local code up to the next one. Model answers are arbitrary: any
contract the compiler lets through (`Compiles`), any list of actions, or an error.
Any other caller may apply a plan or roll back *any* receipt between two actions;
refused calls and dry runs of users are left out because a run cannot observe them.
The repair loop replans against the snapshot taken at the start, as in the code.

### Episodes

When a run is done, `Capture` takes the artifacts of a committed one, from the
document as it is by then, and asks whether there is an episode of that name;
`Stage`, `Write` and `Move` are the effects of `_record` on the disk; `StageFails`
is the `OSError` of the two `mkdir` calls outside the `try`, which escapes `run`;
`RecordFails` is an error inside it, which removes the staging directory and is
reported as `episode_error`. A committed document's files come from
`EngineCaptures`: the exports show the document as it is by then, and any of them
may be missing. `RecordAgain` is a caller who hands the returned run to the store
once more: by then the captured files are gone (`Writable`). An episode's name is
its trace; the directory of the date above it is left out.

### FreeCADAdapter

`host[d]` is the host's document of that name: its features (what the semantic
snapshot shows and the fingerprint hashes), the rest of it (`hidden`: placements,
constraint values, colours), its native undo list with the transactions of the
adapter and of the user, and its `UndoMode`. `revisions` and `undo` are the
adapter's dictionaries. Everything runs on the host's main thread, so a call is
one action; between calls the user edits, undoes, closes and opens. `Observed`
is the comparison of fingerprints with which every call begins. The operators of
the host (`NewDocument`, `Committed`, `Aborted`, `Undone`) are external: they say
what the code relies on, with one exception it does not check, that aborting
takes nothing back where no undo list is kept. Failing host calls are modelled
where the code has a path for them: actions, the recompute after them, closing a
document, the undo and the recompute after it. What an action list does to
features is a parameter, given by `FreeCADFeatures` in the runs. Two history variables, `unseen` and `missed`, name the
documents in which the user's change was not noticed at the next observation.

`FreeCADFeatures` has all action kinds: the preflight sees ids only and follows
them through the list, the application sees the objects and stops within the first
action that fails: the items of a sketch action are added one by one (`Added`),
and their ids are written when all of them are, so a failure leaves elements in
the sketch that have no id. A list that passes the preflight and fails half-way
(a line that is there already) is one of the run's.

### Macros

`ExecuteMacro` is `FreeCADMacroExecutor.execute` after its refusals. The macro's
code is a free choice: it changes the active document and another one, or makes
one, and ends in one of `Endings`: normally, with an exception, or with an exit, which
the runner's `except Exception` does not catch, so that there is no receipt and
nothing is taken back. `Conducts` says what it does with the transaction the
runner opened in the active document: it keeps to it, commits it, undoes it and
the one before, switches the undo list off, which clears it, or closes the
document. Opening a transaction of its own commits the runner's. Only the
generator's prompt asks it not to open, commit or abort one. The runner's commit
or abort acts on what is still open, which is nothing then (`Ended`, `Left`).
The document is given an undo list if it keeps none; documents that were not
there are closed after a failure; the host may refuse the abort or the close (`refused`). Two
bounds: code that does not keep to its transaction touches no other document,
and macros make of a document what `Made` holds. `macro` says what the last step
executed and is read by properties only. To the adapter a macro is an act of the
user, so the adapter's properties are checked against macros as well.

### ProcessLock

A process idles, creates the file with `O_CREAT|O_EXCL`, or, if it exists, opens
and reads it, probes the pid, unlinks the path and creates anew; it writes its
pid, is inside, and unlinks on the way out. A file is identified by the process
that created it (`owner`), `written` says whether it holds the pid yet, `seen[p]`
is the owner of the file `p` read. `End` is a process's exit or death at any of
the points in `EndPoints` (pids of the dead may be recycled); `usurped` is a history variable: it becomes true when a
process unlinks a file whose owner is alive and is not itself. Unlinking follows
POSIX: an open file can be unlinked. On Windows, where it cannot, the model allows more
than happens.

### CohortScheduler

On disk: `saved` (`cohort.json`), `published` (the candidate in each task
directory), `ledger` (what each attempt's child reported). In memory, lost by
`Crash`: `state`, the position in the loop, the tasks attempted in this start.
One action is the code between two effects on the disk: a reservation is saved
(`Reserve`) before the child exists; a passing attempt is settled in memory
(`AttemptPasses`), its candidate renamed into place (`Publish`), and only then
recorded (`Record`). Children charge their ledgers at any time, also after the
scheduler's death. `AttemptFails` has two forms: the child has ended; or an
`OSError` of the log or the terminal ended the reading of its output
(`runner.py:240-248`), which the scheduler gets as a `RuntimeError` and takes for
the end of the attempt, while the child goes on in its own session. The history
variable `detached` holds the attempts settled that way. In the model their
children may go on up to their cap; in the code the next write to the pipe that
nobody reads fails, so the model allows more than happens. `Tamper` changes or
deletes a published candidate. Tokens and dollars are two units of the same
admission check. `Reportable` is what one attempt's ledger may add up to; it may
hold amounts beyond the cap, since the last call of an attempt may cross it.

`Shown` is what a save tells a reader: the status, the number of completed tasks,
the sums of what was used and debited, whether an attempt is open. Each save is a
step of `CohortAccount` (`ImplementsAccount`).

### MatrixCoordinator

`saved` is `matrix.json`, `cohort[c]` the account of cell `c`'s cohort, `state` and
`next` what `run_matrix` has in memory. A cell is entered (`EnterCell`), its
cohort started (`EnterCohort`, `CohortResumes`) and run save by save
(`CohortReserves`, `CohortSettles`, `CohortEnds`); its steps are those of
`CohortAccount`, which the scheduler's model is checked to implement, so the scheduler is not
modelled twice. `CellReturns` and `CohortRaises` are the two ways out of the
cell. The same cohort operators serve the `Direct...` actions, somebody's run of a
cell's cohort beside the matrix, which the cohort's lock keeps out only while the
coordinator is inside that cohort. `touched` is a history variable: a direct run
changed a cohort after the latest recalculation. The coordinator's lock and the cohorts' are taken to
exclude; `ProcessLock` says when they do.

### BaselineAttempt

The attempt is what one child of the scheduler does for one fixture. The
upstream package's loop is external: it asks the model, runs the programs of the
reply in order, validates the turn and saves the run; `official_cli.py` replaces
five of its functions, and those are the actions. `Ask` and `Answered` are
`_complete_with_cap` before and after the provider's answer: the allowance is
what the cap leaves after an estimated prompt and a margin; the answer may count
more prompt tokens (`Drifts`) and write past `max_tokens` (`Overruns`); it
calibrates the margin, is charged, recorded in the ledger and only then judged
against the cap. `AskInspected` and `AskExhausted` are the refusals before a call.
`Review` is the done signal. `ValidateNothing`, `ValidateInspection`, `Accept`
and `Reject` are the ways through `_auto_validate_and_render_strict`, whose
geometry, change and count checks are a free verdict over a turn's last program.
`Snapshot` is the upstream saver, which copies the work directory's candidate
into the turn's directory and the root; `Sanitize` and `Publish` are the two
halves of `_sanitize_saved_candidates`.

A candidate file (`work`, `backup`, `root`, `dirs[t].file`) carries who wrote it:
turn, place in the reply, code (the code stands for its hash) and success.
`passed`, `ever`, `accepted`, `inspections` and `budgetStop` are the thread's
validation state. A kill adds no state, since the files are those of the state it
happens in: an invariant about the files covers every kill. The invariants name
the points they exclude: the root while a save is under way, and the
ledger while a call is being answered. `billed` and `drift` are history
variables of the provider. It is assumed that upstream saves after every turn
and leaves earlier turns' directories alone, and that without a program in the
turn it may or may not validate.

### RunVerification, BaselineRun

A run directory is a record: its params and manifest, and under each task what
lies under the two candidate names. `VerifyRun` is the report of `verify_run`,
`ExpectedTasks` the priority of the places a task list may come from.

`call[i]` is the local state of one `run_official_baseline`, `child[i]` its child,
`dirs[i]` the directory that child made. `newer` stands for the modification times:
the pairs of run directories of which the first was changed later. The
runner's actions are its effects on the disk in order: `Invoke` writes the
record, `Launch` starts the child, `ChildReturns` or `Interrupt` ends the wait,
`Locate` compares the listings, `WriteManifest`, `MoveRecord`. `StreamFails` is an
`OSError`, also of the log after the child was started; that child goes on, as do
those of killed runners. The child is external: `MakeDirectory`, `WriteParams`,
`WorkOn` per fixture, `ChildExits` at any point with any code. `disturbed` is a history variable:
the invocations during whose listing another child's directory appeared.

### BatchPlan, Production

`BatchPlan` has the planner as operators: tertiles within a family, capacities,
the greedy assignment with its six-part rank and its order of strata and tasks.
Scores are numbers of the dataset; strings are compared through their ranks.

`Production` follows a dataset from a verified run to a submission. `CreatePlan`
and `RunBatch` are the planner's entry points, with the id and the fingerprint
they check. A batch has a default directory, but `--cohort-dir` names any, so
`RunBatch` takes any batch and any directory of `Cohorts`; the scheduler's
`_load_state` refuses a directory that belongs to another configuration
(`Admits`). A cohort is what it publishes (`Publish`) and the metadata and report
it ends with (`CohortEnds`), `CohortScheduler` being about the rest. `Select`,
`PublishComposition` and `VerifyAgain` are the steps of `compose_runs`,
`VerifyForPackage`, `Recheck` and `WriteArchive` those of `package_run`. `Tamper`,
`ChangeDataset` and `EditPlan` happen in between. History: `planned` holds, by
directory, the plans and the batches of them it was run for, `raced` the tasks
whose candidate changed after a program read it, and `steady` says that the dataset
has not changed. Plans are made again at any time, as `CreatePlan` allows.
The planner is a recursive function over the tasks that are left; a batch is a
sequence of tasks while it is filled and a set in the plan.

## 3. What is checked

| Run | What it asks | Bounds |
|---|---|---|
| `memory_adapter` | Undo records form a stack, receipts are true, `VersionStack` is refined | 2 documents, 7 action lists over 2 features, revisions 0..3, 4 transactions |
| `native_agent` | What a run commits satisfies its contract; what it rejects it takes back, but for a reported conflict; its episode is whole and tells its outcome; it ends | 1 run and 1 user, 1 document, 1 repair, 3 contracts, 4 transactions |
| `freecad_adapter` | A rollback takes back its own transaction and nothing else while the user's changes are noticed; the adapter reports what it changes; a failed macro that kept to its transaction is taken back | 1 document and another for macros, 4 action lists, 3 transactions, 2 acts of the user or macros, macros make one thing |
| `freecad_rollback` | Does every rollback of an edit undo that edit? **No** | 1 document with an undo list, no macros |
| `process_lock` | Exclusion fails only through a reclaim of a living owner's file; no leaked file; stale files are reclaimed | 3 processes, death anywhere, recycled pids |
| `lock_exclusion` | Is there mutual exclusion when nobody crashes? **No** | 3 processes that exit only when idle |
| `cohort_scheduler` | Budget, durable reservations, finality and backing of completed tasks, one attempt per start; `CohortAccount` is refined | 2 fixtures, 3 starts, 2 candidates, a budget of two reservations and a bit, ledgers one token past the cap, 1 attempt settled while its child lives |
| `cohort_publish` | Can every interrupted cohort be resumed to publication? **No** | 2 fixtures, 2 starts |
| `matrix_coordinator` | Totals are the cohorts', errors explain the status, a completed matrix is complete in every cell, each cell's cohort takes the steps of `CohortAccount` | 2 cells of 2 tasks, 2 starts, 1 direct run |
| `baseline_attempt` | Only accepted candidates are published, the newest stays; charges are kept; nothing after the cap; the cap is crossed only on a new miscount | 4 turns, 2 programs a turn, 2 codes, a cap of 14 tokens, miscounts 0 and 3, overruns 0 and 4 |
| `baseline_run` | Manifests lie in their own run unless a directory appeared meanwhile; a run that verifies as "all" is whole; "completed" is complete | 2 invocations, 2 tasks, 3 outcomes of a task |
| `production` | Batches partition what is left; a cohort pays for nothing its plan counts as completed and for nothing another batch of it pays for; compositions and production archives hold what the checker accepted | 5 tasks, 1 done, a target of 3, so 2 batches of 2, 2 directories for any of them, 1 cohort that is run again, 1 change behind the programs' backs |

Why the bounds are enough to be interesting:

* *Adapter.* Two documents show that records of different documents do not
  disturb each other; four transactions with rollbacks reach a document that is
  created, edited, rolled back to nothing, created again and edited while older
  receipts are presented for rollback. Base revisions include stale and future
  ones. One caller suffices for the run: callers differ only in who holds the
  receipt, and any receipt number may be rolled back. The theorems have no bound.
* *Agent.* Every property is about one run, and other runs act on the adapter
  only by applying and rolling back, as the user does; so one run beside an
  arbitrary user covers more runs. The contracts use all predicate kinds and
  tell apart all the documents that the action lists make.
* *FreeCAD.* Documents share nothing but their adapter's dictionaries, which are
  keyed by name, so one suffices. Two acts of the user are enough for a change
  and its reversal, for closing and reopening, for an undo followed by an edit;
  three transactions allow an older record below, and another above, the one
  that is rolled back. The second document is there so that a macro can make or
  change one beside the active one; the adapter is called for the first only. One list
  fails half-way and one changes nothing. All that a macro may make of a document is the
  sketch: what the adapter sees of it is that it is another content than before, or
  the same. The run's `VIEW` leaves out `macro`, which no step reads; the
  properties about it are about the step that sets it.
* *Lock.* Three processes are the fewest for the interesting case: a reclaimer,
  the owner it read, and the one that comes in between.
* *Scheduler.* The budget admits two full reservations and not three, so that
  admission is at its limit, in tokens as well as dollars, and partial use makes
  a third attempt possible or not; an attempt may report one token more than its cap,
  settled or abandoned, and the totals of the matrix count it; three starts let an attempt be abandoned,
  found, and the task tried again. One attempt settled while its child lives can be of
  any start and be followed by another of the same or of the other task. The
  candidates are only compared with one another, so the run takes them as symmetric.
* *Matrix.* Two cells are one that is reached and one that may not be; the budget
  of a cell admits its two tasks exactly and a third attempt only after cheap
  ones, so a second start may complete a cell or stop in it. A direct run may
  fall between any two steps of either start.
* *Attempt.* A call takes three to twelve of the fourteen tokens, so the cap is met
  before or in the second, third or fourth call, or not at all, with and without a
  larger margin learned from the first; four turns
  allow an acceptance, a rejection, a turn that only inspects, and the end of
  the budget, in each order. Two programs in a turn are the fewest
  with a writer that is not the last program. The theorems have no bound.

* *Runner.* Two invocations are the fewest that disturb each other, and one killed
  and one begun later are the orphan's case. Two tasks tell a full request from a
  partial one, and a whole run from a part.
* *Production.* Four remaining tasks in two families and three bands make the planner
  choose between batches by stratum, family, band and score, and four is the least number
  above the least target, three, that the planner's configuration admits. Two batches and two
  directories are all ways to run them: each in one of its own, one in both, and both in one,
  which is refused.
  Plans are made again from the verified run and from a composition with one cohort or with
  both; one change, of the dataset, the plan or a candidate, can fall between any two steps of
  planning, composing and packaging, and a second would be a repetition of the first. Drafts
  (`allow_incomplete`) are in the model and the theorems and not in the run, since no property
  says anything of them. The theorems have no bound.

The largest runs are `baseline_run` (2.5 million distinct states), `baseline_attempt`
(1.1), `matrix_coordinator` (1.1), `cohort_scheduler` (0.6) and `production` (0.4); each takes
less than three minutes.

Deadlock checking is off where the system really ends: every run of the agent
done, every process gone, every start used up, the attempt ended.

### Fairness

`NativeAgent` and `Episodes` take weak fairness of each run's steps and of its
recording: both are sequential code that continues while it has a next call
(model calls time out and raise). Users
are not fair. `ProcessLock` takes weak fairness of each process's steps between entering and leaving; a process may
stay idle or be dead for good. The liveness property `StaleFileIsReclaimed` is
about a process that keeps trying. `CohortScheduler` states no liveness and
takes no fairness, nor do `MatrixCoordinator`, `BaselineRun` and `Production`. Neither does `BaselineAttempt`: an attempt ends because its turns
are counted by the upstream loop, which is not this code's to promise.

### Disagreements between the code and what it says

With a run of its own:

1. **A rollback can undo the user's work** (`freecad_rollback`). The adapter
   calls the host's `undo`, which takes back the newest transaction. One the
   fingerprint does not show (moving a part, say) leaves the revision as it is: it is
   undone in place of the adapter's edit, which stays.
2. **The lock can be stolen** (`lock_exclusion`). A process reads a pid, finds it
   dead, and later unlinks the path, whatever is there by then. With the owner
   releasing and exiting and a third process entering in between, two are inside.
   Proved instead: it happens *only* this way.
3. **A kill between publish and record** (`cohort_publish`) leaves a published
   directory of a task marked failed; every later success of it raises in
   `_publish_task` after spending its tokens.

In the models, without a run. The first six are stated as formulas that TLC
refutes when they are put in the configuration of their module's passing run:

* **A failed log ends an attempt but not its child** (`AdmittedWithinBudget` in
  `CohortScheduler`). An `OSError` of the log or the terminal is reported like a command
  that did not start (`runner.py:385-397`); the scheduler settles the attempt at what its
  ledger says by then and admits the next one on the difference, while the child goes on.
  Both together can spend past the budget, each within its cap, where `scheduler.py:401`
  has none "admitting work beyond its budgets". What holds and is proved: with what was
  recorded of such attempts, the budget is kept.
* **A rollback can close the user's document** (`RollbacksCloseTheirOwn` in
  `FreeCADAdapter`). Rolling back a creation closes the document of that name if its
  fingerprint is the one recorded. Meanwhile the user may have closed the created one and
  opened a file of the same name and features; that is closed, with all that the
  fingerprint does not show.
* **Generated code can take the transaction away** (`MacrosAreTransactional` in `Macros`).
  "The runner—not generated code—owns the FreeCAD transaction" (`docs/MACRO_GUIDE.md:53`),
  but nothing except a prompt keeps the code from committing, undoing or clearing it. A
  macro that commits and then raises is reported as failed, and what it did stays; the
  backup is then the only way back.
* **Revisions come back** (`CommitsToTheObservedDocument` in `NativeAgent`). A plan
  is bound to a revision number; after a rollback another transaction gets the same
  number, and a run can commit to a document it never observed
  ("validated against the observed document revision", `README.md:46`). What
  holds and is checked: it commits only what its contract accepts over the state
  actually replaced.
* **Abandoned attempts that crossed their cap** (`DebitsCoverUsage` in
  `CohortScheduler`) are debited the cap, less than the ledger beside it reports.
* **A candidate removed while it is packaged** (`ProductionArchivesAreFull` in
  `Production`) after its verification is passed over in a
  production archive, where the option promises to refuse partial runs.
* A dry run in a document without an undo list stays, since only real executions
  are refused there (`ExecuteDryRun` with `Aborted` in `FreeCADAdapter`).
* The `"orchestration_error"` of a raising cell does not reach `matrix.json` once
  the cell has a `cohort.json`: `_recalculate` puts the cohort's own status in its
  place before the save (`CohortRaises` in `MatrixCoordinator`); the error stays.
* An `OSError` of the two `mkdir` calls of an episode escapes `run` after the commit
  (`StageFails` in `Episodes`), where `docs/DATASET_GUIDE.md:69-71` has the run returned
  with `episode_error`. A run returned with `episode_error` names artifacts
  whose temporary files are gone, so recording it again fails (`Writable`); and
  the artifacts may be of a later document than the committed one (`Capture`).
* **A removed candidate is paid for again** (`Tamper`, `Planned` in `Production`). A
  composition made after a candidate was removed from the run verified first does not have it
  and passes its verification, since it is held to its own tasks; a plan made from that
  composition has the task in a batch once more, while the plan of the first run
  did not. Nothing is lost but the tokens. `BatchesAreKeptApart` compares batches with
  the plan they belong to and not with those of other plans.
* **One batch in two directories is paid for twice** (`RunBatch` in `Production`). Nothing
  ties a plan's batch to one `--cohort-dir`. The override is deliberate, since failed
  fixtures are to be run again in a separate cohort (`README.md:200-201`), and nothing promises
  the contrary; `BatchesAreKeptApart` is about different batches.
* The greedy assignment keeps sizes even but not strata: seven tasks (five of one family, two
  of the other) with a target of three can put two of a stratum in
  one batch and none in another, where `README.md:180-182` speaks of distributing them.
* What a failed macro did to other documents stays, and so does the transaction of
  one that exits: `SystemExit` passes the runner's `except Exception` (`macros.py:427`), there
  is no receipt, and the transaction is left open (`ExecuteMacro` in `Macros`).
* The sanity report holds a hash taken after the checker ran (`sanity.py:121`): a
  candidate replaced in between is on record as valid. The models take one
  verification as one step, and so do not show it.

## 4. What is proved

Every theorem is for all values of the constants that satisfy the modules' named
`ASSUME`s, and rests on nothing else; TLC evaluates the assumptions in the runs.
They say: configurations have at least one task, amounts are numbers, the absence
of a thing (`Nothing`, `NoFile`, `NoReport`) is not a thing of that kind; what actions and
macros leave of a document are features (`ApplyAssumption`, `MacroAssumption`); datasets are
finite, of two families, with scores that can be compared, cohorts are not started in
the directories of other runs, which the scheduler refuses, and the target size is at
least three, which the planner's `__post_init__` requires (`Production`).

The proofs have one form. The invariant is a conjunction of named parts; each
action is a lemma, with a step for each part it can disturb; where several
actions do the same to part of the state, that effect is a definition (`Settles`,
`Evolves`, `Called`) and its lemma is cited by all of them.

### The adapter and the agent

`AgentProofs`, first of the adapter alone, for every set of callers, documents and action lists,
every meaning of actions and every revision (`Calls` has no bound on them):

* `TypeCorrect`, `UndoStackCorrect`. The invariant is inductive
  together with the types: a document at revision *n* has exactly one undo record for
  each version 1..n, the record of version *i* remembers version *i - 1*, and the
  top one remembers the present contents. This is why comparing one
  revision number at rollback is enough: a receipt's record can match only if it is
  the top of its stack. Pushing (`PushKeepsStack`) and popping (`PopKeepsStack`)
  are treated apart, each conjunct a step.
* `ReceiptsCorrect`: no receipt misreports its step.
* `AdapterImplementsVersionStack`: with the contents remembered by the records as
  the abstract stack, an applied transaction is a `Commit`, a rollback an `Undo`
  of exactly that version, everything else a stutter. It rests on the stack
  invariant.

Then for any number of runs and users, any contracts and repairs. `AgentInv`
adds to the adapter's invariant what a run's local variables mean: the receipt
of an accepted preview verifies; an apply that shows the same features as the preview
verifies as well (`AppliedAsPreviewed`); a run's edit is among the undo records at most
once, under the number of its own receipt, and numbers are not issued twice, so
that nobody else's call can make or change it. From it:

* `AgentTypeCorrect`, `CommittedEditsAreVerified`, `UncommittedEditsAreConflicts` and
  `RejectedAppliesSawOtherContent`.
* `EpisodesAreTheOutcome`, with a second invariant, `RecordInv`: a run that is over
  stays as it is (`OverStaysOver`), so what was staged for it still tells its outcome
  when it is moved into place.
* `AgentsImplementVersionStack`: runs, users and recordings together refine the
  abstract stack, because all of them reach documents through the adapter's calls.

### The FreeCAD adapter and macros

`FreeCADProofs`, for any documents, contents, meanings of action lists, receipts and acts of
the user. The host's undo list belongs to adapter and user both, and the adapter knows of
hers only through the fingerprint. So `HostInv` is conditional, document by document (`Kept`):

* while no change to a document was missed, no undo record is ahead of its revision, no
  two records are for one revision (`Behind`), and the adapter remembers nothing of a
  document that is gone (`Forgotten`);
* while no change is waiting to be observed either, a record from whose revision up
  there is no gap (`Live`) is in place (`InPlace`): its transaction lies as deep in the
  host's list as its revision lies below the document's, and what it left is what the next
  one found (`Stacked`). A noticed change is a revision without a record, so a gap, which
  is why older records are never rolled back over it.

From it `HostTypeCorrect`; `NoticedWorkStaysSafe`, because a rollback is admitted only at the
document's own revision, where the record is the top of the list; `ReceiptsTellOfTheHost`;
and `FailedMacrosLeaveNothing`, which is about macros whose code keeps to the transaction
it is given, in a host that does not refuse to abort: for any other the claim is
false (`MacrosAreTransactional`). That no new document is left is for every failed macro,
unless the host refuses to close it. Macros are acts of the user with
a transaction around them, so each part of `HostInv` is also kept by `ExecuteMacro`,
however its code ends and whatever it does with the transaction.

### Cohorts and the matrix

`SumTheorems` has what the accounts need: what an addition, a change and a larger
number do to a sum. `SumTo` is a recursive function. Its equation, and with it
every induction over positions, comes from the least position at which a claim
would fail (`NumbersReachedFromZero`), since the library's induction theorems
cannot be used here.

`CohortSchedulerProofs`, for any fixtures, caps, budgets, charges, reports and starts.
`Inv` ties disk, memory and children together: a child that is alive has its
full reservation on disk, unless its attempt was settled while it lived (`Reserved`), and
such an attempt is on record, no longer running (`Detachments`); each attempt counts for no
more, up to its cap, than it is debited (`OnRecord`), where what counts is its ledger, and of an
attempt settled that way what was recorded of it; and the debits
are within the budget (`DebitsWithinBudget`); in a start nothing but the attempt at
hand is running (`RunningIsAtHand`), memory and disk agree except in the window between
a passing attempt and its record (`Memory`, `AtHand`); tasks have no more attempts than starts,
abandoned ones counted twice (`StartsPaid`); completed tasks that the loop has passed have their
candidates (`PassedAreBacked`). All properties of the run follow: `CohortTypeCorrect`,
`CohortSpendingWithinBudget`, `CohortReservedWhileSpending`,
`CohortOneAttemptPerStart`, `CohortCompletedIsFinal`, `CohortCompletionIsBacked`, and

* `CohortImplementsAccount`: each save of `cohort.json` is a step of `CohortAccount`.
  It needs a second invariant, `Accounting`: the attempt left running is the only one
  and has used nothing in the totals yet, and a start stops only where the account's
  own budget refuses a reservation.

`MatrixCoordinatorProofs`, for any cells, caps, budgets, reports, starts and direct
runs. `Inv` says that every account is sound (no more completed tasks than there are,
an open attempt is paid for), that what a running cohort has left, has open and
has completed fits its tasks, and how far `matrix.json` lags behind the
cohorts. The actions are first reduced to four kinds (`Kind`): a cohort moves,
nothing that counts changes, the record is noted, the totals are taken again. Theorems:
`MatrixTypeCorrect`, `MatrixTotalsMatch`, `MatrixErrorsExplained`,
`MatrixPairedWhenCompleted`, and `MatrixKeepsTheAccounts`: the cohorts of the cells take
only steps of `CohortAccount`. Together with `CohortImplementsAccount` this is why
the matrix may be modelled over accounts instead of schedulers.

### The lock, the attempt, the runner

`ProcessLockProofs`, for any number of processes and any points of death:

* `LockTypeCorrect`, `NoFileLeaks`, and `ExclusionUnlessUsurped`. The
  strengthening says who may own the file in each phase: as long as nobody was
  usurped, a process that is writing or inside owns the file at the path, which
  has one owner.

`BaselineAttemptProofs`, for every cap, margin, limit, set of programs and number
of turns, and whatever the provider reports. All properties of its run are proved:

* `ChargesReachTheLedger`, `CapEndsTheAttempt` and `AcceptedSurvivesTheBudget`
  from one inductive invariant, `BudgetInv`: the ledger is what the client has
  consumed, what was billed is that plus the call being answered; past the cap
  the attempt has failed or carries `budgetStop`, which the next save turns into
  the end; an attempt that failed never passed.
* `MiscountsAreLearned`: the margin stays above the base margin and above each
  earlier miscount, and an allowance never exceeds what cap, estimate and
  margin leave, so a call that kept to it can cross only on a larger miscount.
* `AttemptTypeCorrect`, which rests on the budget for the numbers and needs
  that inspections do not outnumber turns.
* `OnlyAcceptedIsPublished` and `AcceptedStaysPublished` from an invariant about
  directories: after sanitizing, a directory holds a candidate only if its
  producer's code is accepted, and the file was written by a program that succeeded
  and was accepted; the backup is the candidate of the last accepted turn, and from
  the moment that turn is saved its directory, or a later one, holds a candidate. The
  maximum over the directories is a lemma of its own (`LargestOfSome`, from the
  well-foundedness of the subsets of a finite set).

`RunProofs`, first for any invocations, requests and results of children:
`WritesToItsOwnRun`, `CompletedRunsStayComplete` and `AllIsAll`. The invariant says that
of any directories one is the newest, that an undisturbed invocation can find none but
its own (`Invocation`), and whose request the params, manifest and record of a directory
come from, together with the manifest's promise once it says "completed" (`Directory`).

### From a plan to a submission

The second half of `RunProofs` is for any datasets, target size, batches, runs, candidates
and changes.

The planner comes first. Its tuples are ordered, and as the last place tells any two of
them apart, the least task and the least batch are always one (`LeastIsOne`, `TaskKeysDiffer`,
`SimilaritiesDiffer`; the latter because turning the batches by an offset keeps them
apart, `Rotated`). Capacities add up to the number of tasks (`Capacities`, with
`SumTheorems`). After *n* steps *n* tasks are in the batches, each in one, none over its
capacity (`Filled`), and so a batch is eligible as long as a task is left (`FilledByOne`,
`NextIsFilled`); that the recursion gets there (`StepsExist`, `AllAreFilled`) is again a least
position. All tasks placed, each batch is at its capacity (`SameSumSameNumbers`), and the
batches are a partition of what was left, with sizes from one to the target and at most one
apart (`BatchesPartition`, `PlanIsMade`).

`ProductionInv` carries that through the programs: the plan's id is of such a partition
whatever was edited since (`PlanHolds`); a cohort's configuration is the batch of every plan it
was ever run for, however often plans were made again (`CohortHolds`, `AssignmentHolds`), because
the planner refuses an edited plan and the scheduler a directory of another configuration; a run
that says it is of everything has params for everything (`RunHolds`); what is copied is what was
hashed and what is archived was accepted, `raced` aside
(`ComposerHolds`, `PackagerHolds`). One lemma per action keeps it. Theorems: `ProductionTypes`,
`PlansPartition`, `BatchesKeptApart`, `ArchivesVerified`, and `CompositionsVerified`, for
which it takes that nothing but `PublishComposition` makes the composed run (`OnlyPublished`).

### What is only model-checked

* Liveness under fairness, which the prover does not do: `EveryRunEnds` and
  `StaleFileIsReclaimed`. All other properties of the passing runs are proved.
* What the recursive definitions of the action semantics compute (`FeatureEdits`,
  `FreeCADFeatures`): the theorems hold for every meaning of actions, and the runs use these.
* The runs that refute a claim (`freecad_rollback`, `lock_exclusion`, `cohort_publish`).

The type invariants of the adapter, the lock, the attempt, the matrix and the production are proved
and in no run.

## 5. What is not modelled

`PROJECT.json` says it for each component. In short: timestamps, wording, hashing
(a hash stands for its contents) and JSON layout are abstracted; the geometry of
the fallbacks and the CAD kernels is out of a model checker's reach; the
external sanity checker and the models are arbitrary answers; reports, tracing
and the command line keep no state anyone reads back. Known gaps in the modelled
parts: a kill between a cohort's last state and its metadata (`CohortEnds` writes
params, manifest and report in one step); ids longer than 128 characters, for which
`execute` raises instead of refusing; artifact capture in the host; episodes of one
run recorded on two days, which lie in two directories; candidates replaced while
one verification looks at them; the token and dollar policy a batch plan hands to
its cohort; the generation, review and repair of macros, which are pure.

## 6. Plan

Done, in this order: the adapter and its abstract specification, the verifier,
the agent over both, the lock, the scheduler, the FreeCAD adapter, the baseline
attempt, the matrix coordinator; proofs about the adapter, the lock and the
attempt; the runner and the verification of runs, the batch planner, composition
and packaging, the episode store, the FreeCAD adapter's actions, macros; proofs
about the agent and its episodes, the scheduler, the matrix and the runner.
Then proofs about the FreeCAD adapter with its macros, the planner and what is
built on its plans. What could follow: the metadata a cohort ends with, step by step, inside
`CohortScheduler`; a verification that looks at one candidate after another, so that
replacements during it show; and the harness evaluation of `matrix.py`, as soon as
its results decide anything.

------------------------- MODULE MatrixCoordinator -------------------------
(***************************************************************************)
(* The matrix coordinator, run_matrix of                                   *)
(* src/src/cadrig/benchmarks/cadgenbench/matrix.py: it runs or resumes one *)
(* cohort per cell, in order, and keeps their statuses and totals in       *)
(* matrix.json.                                                            *)
(*                                                                         *)
(* A cohort is its CohortAccount.  Beside the coordinator somebody may run *)
(* the cohort of a cell directly; a cohort's lock is held by whoever runs  *)
(* it (ProcessLock says when that is so), and one coordinator runs at a    *)
(* time.  The coordinator is killed, or ended by an exception it does not  *)
(* catch, between any two saves.                                           *)
(*                                                                         *)
(* Left out: the fingerprint, a first save that is cut short (as in        *)
(* CohortScheduler), and the harness evaluation, a report written at the   *)
(* end.  Bounds: MaxStarts starts, MaxDirect direct runs.                  *)
(***************************************************************************)
EXTENDS CohortAccount, Sequences, Sums

CONSTANTS Cells, MaxStarts, MaxDirect

CellIds == {Cells[i] : i \in DOMAIN Cells}

\* CadgenbenchMatrixConfig: a cell's budget admits all of its fixtures.
ASSUME ConfigAssumption ==
    /\ Cells \in Seq(CellIds) /\ Cells # <<>>
    /\ \A i, j \in DOMAIN Cells : Cells[i] = Cells[j] => i = j
    /\ TaskCount \in Nat \ {0} /\ {MaxStarts, MaxDirect} \subseteq Nat
    /\ Reservation \in Amount /\ Budget \in Amount
    /\ \A u \in Units : TaskCount * Reservation[u] <= Budget[u]
    /\ NoReport \in Reports /\ Reports \ {NoReport} \subseteq Amount

NoState == [status |-> "none"]
Nobody == "nobody"

VARIABLES
    \* on disk
    saved,          \* matrix.json
    cohort,         \* cohort.json of each cell
    \* the coordinator
    pc, state, next,
    todo,           \* tasks the cohort at hand has yet to attempt
    \* the world
    starts,
    direct,         \* the cell whose cohort somebody runs directly, or Nobody
    directTodo, directRuns,
    touched         \* a cohort changed that way after the latest recalculation

process == <<pc, state, next, todo>>
direction == <<direct, directTodo, directRuns>>
vars == <<saved, cohort, process, starts, direction, touched>>

Cell == [status : {"pending", "running", "orchestration_error", "ready", "completed",
                   "partial", "stopped"},
         error : BOOLEAN]

MatrixState ==
    [status : {"ready", "running", "completed", "partial", "failed"},
     cells  : [CellIds -> Cell],
     usage  : [total : Amount, debited : Amount]]

TypeOK ==
    /\ saved = NoState \/ saved \in MatrixState
    /\ cohort \in [CellIds -> Account \cup {NoAccount}]
    /\ pc \in {"down", "begin", "next", "enter", "resume", "cell", "returned"}
    /\ IF pc = "down" THEN state = NoState ELSE state \in MatrixState
    /\ next \in 1 .. Len(Cells) + 1 /\ todo \in 0 .. TaskCount
    /\ starts \in 0 .. MaxStarts
    /\ direct \in CellIds \cup {Nobody}
    /\ directTodo \in 0 .. TaskCount /\ directRuns \in 0 .. MaxDirect
    /\ touched \in BOOLEAN

-----------------------------------------------------------------------------
(***************************************************************************)
(* run_cohort, by whoever holds the lock of the cell's cohort.  Its steps  *)
(* are the saves of cohort.json.                                           *)
(***************************************************************************)
NowIs(c, account) == cohort' = [cohort EXCEPT ![c] = account]

Resumes(c) ==
    /\ cohort[c] # NoAccount
    /\ \E report \in Reports : NowIs(c, Begun(cohort[c], report))

\* The tasks a start attempts: neither completed nor just found abandoned.
Attemptable(c) == TaskCount - cohort[c].completed - (IF cohort[c].open THEN 1 ELSE 0)

\* Faulty variant: an attempt is admitted without a look at the budget.
ReservesRegardless(c, left) ==
    /\ ~cohort[c].open /\ left > 0
    /\ NowIs(c, Reserved(cohort[c]))

Reserves(c, left) ==
    /\ ~cohort[c].open /\ left > 0 /\ Refusing(cohort[c]) = {}
    /\ NowIs(c, Reserved(cohort[c]))

Settles(c) ==
    /\ cohort[c].open
    /\ \E report \in Reports, done \in BOOLEAN : NowIs(c, Settled(cohort[c], report, done))

\* The loop is over, or is left at the budget.
Ends(c, left) ==
    /\ ~cohort[c].open
    /\ left = 0 \/ Refusing(cohort[c]) # {}
    /\ NowIs(c, Ended(cohort[c], IF left > 0 THEN "stopped"
                                 ELSE IF cohort[c].completed = TaskCount THEN "completed"
                                 ELSE "partial"))

-----------------------------------------------------------------------------
(***************************************************************************)
(* matrix.json                                                             *)
(***************************************************************************)
InitialState ==
    [status |-> "ready",
     cells  |-> [c \in CellIds |-> [status |-> "pending", error |-> FALSE]],
     usage  |-> [total |-> Nothing, debited |-> Nothing]]

Existing == {c \in CellIds : cohort[c] # NoAccount}

\* What the cohorts' own files add up to; a cell without one adds nothing.
UsedBy(c) == IF c \in Existing THEN cohort[c].used ELSE Nothing
DebitedBy(c) == IF c \in Existing THEN cohort[c].debited ELSE Nothing

InCohorts ==
    [total   |-> [u \in Units |-> SumSeq([i \in 1 .. Len(Cells) |-> UsedBy(Cells[i])[u]])],
     debited |-> [u \in Units |-> SumSeq([i \in 1 .. Len(Cells) |-> DebitedBy(Cells[i])[u]])]]

CellsNow(s) ==
    [c \in CellIds |-> IF c \in Existing
                       THEN [s.cells[c] EXCEPT !.status = cohort[c].status]
                       ELSE s.cells[c]]

\* Faulty variant: the statuses are taken over, the totals are not.
StatusesOnly(s) == [s EXCEPT !.cells = CellsNow(s)]

\* _recalculate: statuses and totals as the cohorts' own files have them.
Recalculated(s) == [s EXCEPT !.cells = CellsNow(s), !.usage = InCohorts]

Save(s) == state' = s /\ saved' = s

\* The process returns, raises or is killed: its memory is gone.
Leave == pc' = "down" /\ state' = NoState /\ next' = 1 /\ todo' = 0

Init ==
    /\ saved = NoState /\ cohort = [c \in CellIds |-> NoAccount]
    /\ pc = "down" /\ state = NoState /\ next = 1 /\ todo = 0
    /\ starts = 0 /\ touched = FALSE
    /\ direct = Nobody /\ directTodo = 0 /\ directRuns = 0

-----------------------------------------------------------------------------
(***************************************************************************)
(* run_matrix                                                              *)
(***************************************************************************)
Current == Cells[next]

\* _load_state: what is saved, or the initial state, saved.
Start ==
    /\ pc = "down" /\ starts < MaxStarts
    /\ starts' = starts + 1
    /\ IF saved = NoState THEN Save(InitialState) ELSE state' = saved /\ UNCHANGED saved
    /\ pc' = "begin"
    /\ UNCHANGED <<cohort, next, todo, direction, touched>>

Begin ==
    /\ pc = "begin"
    /\ Save([state EXCEPT !.status = "running"])
    /\ pc' = "next"
    /\ UNCHANGED <<cohort, next, todo, starts, direction, touched>>

\* Faulty variant: the error of an earlier start stays.
EnterCellKeepingError ==
    /\ pc = "next" /\ next <= Len(Cells)
    /\ Save([state EXCEPT !.cells[Current].status = "running"])
    /\ pc' = "enter"
    /\ UNCHANGED <<cohort, next, todo, starts, direction, touched>>

EnterCell ==
    /\ pc = "next" /\ next <= Len(Cells)
    /\ Save([state EXCEPT !.cells[Current] = [status |-> "running", error |-> FALSE]])
    /\ pc' = "enter"
    /\ UNCHANGED <<cohort, next, todo, starts, direction, touched>>

\* run_cohort has the lock; a cohort without a cohort.json gets its first one.
EnterCohort ==
    /\ pc = "enter" /\ direct # Current
    /\ IF cohort[Current] = NoAccount THEN NowIs(Current, Fresh) ELSE UNCHANGED cohort
    /\ pc' = "resume"
    /\ UNCHANGED <<saved, state, next, todo, starts, direction, touched>>

CohortResumes ==
    /\ pc = "resume" /\ Resumes(Current)
    /\ todo' = Attemptable(Current)
    /\ pc' = "cell"
    /\ UNCHANGED <<saved, state, next, starts, direction, touched>>

CohortReserves ==
    /\ pc = "cell" /\ Reserves(Current, todo)
    /\ todo' = todo - 1
    /\ UNCHANGED <<saved, pc, state, next, starts, direction, touched>>

CohortSettles ==
    /\ pc = "cell" /\ Settles(Current)
    /\ UNCHANGED <<saved, process, starts, direction, touched>>

CohortEnds ==
    /\ pc = "cell" /\ Ends(Current, todo)
    /\ todo' = 0
    /\ pc' = "returned"
    /\ UNCHANGED <<saved, state, next, starts, direction, touched>>

\* run_cohort returned its status, and released the lock: _recalculate reads
\* the status again from cohort.json, as it is by now.
CellReturns ==
    /\ pc = "returned"
    /\ Save(Recalculated(state)) /\ touched' = FALSE
    /\ next' = next + 1 /\ pc' = "next"
    /\ UNCHANGED <<cohort, todo, starts, direction>>

\* run_cohort raises: the lock is taken, no checker is found, a completed task
\* does not verify, a directory is in the way, the metadata cannot be written.
\* The cell's "orchestration_error" gives way to its cohort's own status.
CohortRaises ==
    /\ pc \in {"enter", "resume", "cell", "returned"}
    /\ saved' = Recalculated(
                    [state EXCEPT !.status = "failed",
                                  !.cells[Current] = [status |-> "orchestration_error",
                                                      error  |-> TRUE]])
    /\ touched' = FALSE
    /\ Leave
    /\ UNCHANGED <<cohort, starts, direction>>

\* Faulty variant: a matrix without errors counts as completed.
FinishUnlessError ==
    /\ pc = "next" /\ next > Len(Cells)
    /\ saved' = Recalculated(
                    [state EXCEPT !.status =
                         IF \A c \in CellIds : ~state.cells[c].error
                         THEN "completed" ELSE "partial"])
    /\ touched' = FALSE
    /\ Leave
    /\ UNCHANGED <<cohort, starts, direction>>

\* The status follows from the cells as of the latest recalculation; they and
\* the totals are then read once more.
Finish ==
    /\ pc = "next" /\ next > Len(Cells)
    /\ saved' = Recalculated(
                    [state EXCEPT !.status =
                         IF \A c \in CellIds : state.cells[c].status = "completed"
                         THEN "completed" ELSE "partial"])
    /\ touched' = FALSE
    /\ Leave
    /\ UNCHANGED <<cohort, starts, direction>>

\* The coordinator is killed, or raises what it does not catch.
Crash ==
    /\ pc # "down"
    /\ Leave
    /\ UNCHANGED <<saved, cohort, starts, direction, touched>>

-----------------------------------------------------------------------------
(***************************************************************************)
(* Somebody runs the cohort of a cell directly.                            *)
(***************************************************************************)
LockHeld(c) == pc \in {"resume", "cell"} /\ c = Current

DirectStarts(c) ==
    /\ direct = Nobody /\ directRuns < MaxDirect /\ ~LockHeld(c)
    /\ Resumes(c)
    /\ direct' = c /\ directTodo' = Attemptable(c) /\ directRuns' = directRuns + 1
    /\ touched' = TRUE
    /\ UNCHANGED <<saved, process, starts>>

DirectReserves ==
    /\ direct # Nobody /\ Reserves(direct, directTodo)
    /\ directTodo' = directTodo - 1
    /\ touched' = TRUE
    /\ UNCHANGED <<saved, process, starts, direct, directRuns>>

DirectSettles ==
    /\ direct # Nobody /\ Settles(direct)
    /\ touched' = TRUE
    /\ UNCHANGED <<saved, process, starts, direction>>

DirectEnds ==
    /\ direct # Nobody /\ Ends(direct, directTodo)
    /\ direct' = Nobody /\ directTodo' = 0
    /\ touched' = TRUE
    /\ UNCHANGED <<saved, process, starts, directRuns>>

\* It is killed, or raises.
DirectLeaves ==
    /\ direct # Nobody
    /\ direct' = Nobody /\ directTodo' = 0
    /\ UNCHANGED <<saved, cohort, process, starts, directRuns, touched>>

Next ==
    \/ Start \/ Begin \/ EnterCell \/ EnterCohort
    \/ CohortResumes \/ CohortReserves \/ CohortSettles \/ CohortEnds
    \/ CellReturns \/ CohortRaises \/ Finish \/ Crash
    \/ \E c \in CellIds : DirectStarts(c)
    \/ DirectReserves \/ DirectSettles \/ DirectEnds \/ DirectLeaves

Spec == Init /\ [][Next]_vars

-----------------------------------------------------------------------------
(***************************************************************************)
(* Properties.                                                             *)
(***************************************************************************)

\* The total in matrix.json never runs ahead of what the cohorts report, and
\* once run_matrix has returned or raised both totals are what cohort.json has
\* for every cell, those of cells that were not reached included - unless
\* somebody has run a cohort directly since.
TotalsMatchTheCohorts ==
    saved # NoState =>
        /\ \A u \in Units : saved.usage.total[u] <= InCohorts.total[u]
        /\ saved.status # "running" /\ ~touched => saved.usage = InCohorts

\* A failed matrix names a cell with its error, and one that ends completed or
\* partial carries no error of an earlier start.
ErrorsExplainTheStatus ==
    saved # NoState =>
        LET withError == {c \in CellIds : saved.cells[c].error}
        IN  /\ saved.status = "failed" => withError # {}
            /\ saved.status \in {"completed", "partial"} => withError = {}

\* A completed matrix has every task of every cell completed: neither a stop at
\* a budget nor a cohort left half way passes for a paired result.
CompletedMatrixIsPaired ==
    saved # NoState /\ saved.status = "completed" =>
        \A c \in CellIds : cohort[c] # NoAccount /\ cohort[c].completed = TaskCount

\* Whoever runs a cohort, the coordinator after any crash or somebody beside it,
\* changes it only as one cohort run by itself may change: no task is attempted
\* that is already completed, nothing is debited past a budget, and no cohort
\* ends with an attempt left open.
CohortsKeepTheirAccounts ==
    [][\A c \in CellIds : cohort'[c] = cohort[c] \/ AccountStep(cohort[c], cohort'[c])]_vars

=============================================================================

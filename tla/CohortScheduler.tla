-------------------------- MODULE CohortScheduler --------------------------
(***************************************************************************)
(* The resumable cohort scheduler of                                       *)
(* src/src/cadrig/benchmarks/cadgenbench/scheduler.py: it runs one         *)
(* baseline attempt per fixture and start, reserves the cap of an attempt  *)
(* in cohort.json before it begins, publishes a verified candidate, and    *)
(* may be killed at any point and started again.                           *)
(*                                                                         *)
(* On disk: cohort.json (saved), the published task directories, the usage *)
(* ledger each attempt's child process writes.  In memory: the state the   *)
(* process works on, lost when it ends.  One action is the code between    *)
(* two effects on the disk; a child that outlives its scheduler, or the    *)
(* attempt it was started for, goes on spending.  One process runs at a    *)
(* time: ProcessLock says when that is so.                                 *)
(*                                                                         *)
(* Tokens and dollars are two units of one admission check; an amount is a *)
(* number of each.  Left out: the manifest and params files written after  *)
(* the end, timestamps, and the configuration's fingerprint.               *)
(*                                                                         *)
(* Bounds: MaxStarts starts of the scheduler; MaxDetached attempts settled *)
(* while their child lives; a provider call charges one of Charges, whose  *)
(* dollars follow from the tokens and the rates; what is reported for an   *)
(* attempt, its cap crossed or not, stays in Reportable; each published    *)
(* task is tampered with at most once per start.                           *)
(***************************************************************************)
EXTENDS Integers, Sequences, FiniteSets, Functions, Sums

CONSTANTS
    Fixtures,       \* the task ids, in order
    Hashes,         \* contents of candidate files
    Reservation,    \* max_tokens_per_task, and its cost at the higher rate
    Budget,         \* total_token_budget and total_cost_budget_usd
    Charges,        \* what one provider call may be reported to use
    Reportable,     \* what the ledger of an attempt may add up to
    MaxStarts,
    MaxDetached

Units == {"token", "cost"}
Amount == [Units -> Nat]
Nothing == [u \in Units |-> 0]

Tasks == {Fixtures[i] : i \in DOMAIN Fixtures}

ASSUME ConfigAssumption ==
    /\ Fixtures \in Seq(Tasks) /\ Fixtures # <<>> /\ IsInjective(Fixtures)
    /\ Reservation \in Amount /\ Budget \in Amount
    /\ 0 < Reservation["token"] /\ Reservation["token"] <= Budget["token"]
    /\ Charges \subseteq Amount /\ Reportable \subseteq Amount
    /\ MaxStarts \in Nat /\ MaxDetached \in Nat

NoState  == [status |-> "none"]
NoLedger == [u \in {} |-> 0]
Missing  == "missing"

VARIABLES
    \* on disk
    saved,          \* cohort.json
    leftover,       \* the temporary file of its very first save
    published,      \* the candidate in each published task directory
    ledger,         \* provider_usage.json (or the trace) of every attempt
    \* the scheduler process
    pc, state, next, attempted,
    passed,         \* the verified candidate of the attempt at hand
    \* the world
    children,       \* attempts whose baseline process is alive
    detached,       \* attempts settled while their child lived (never read by a step)
    starts,
    changed         \* tasks tampered with since the latest start

disk    == <<saved, leftover, published, ledger>>
process == <<pc, state, next, attempted, passed>>
world   == <<children, detached, starts, changed>>
vars    == <<disk, process, world>>

-----------------------------------------------------------------------------
InitialState ==
    [status |-> "ready",
     tasks  |-> [t \in Tasks |->
                    [status |-> "pending", attempts |-> <<>>, candidate_sha256 |-> Missing]]]

Init ==
    /\ saved = NoState /\ leftover = FALSE
    /\ published = [t \in Tasks |-> Missing]
    /\ ledger = [t \in Tasks |-> <<>>]
    /\ pc = "down" /\ state = NoState /\ next = 1 /\ attempted = {} /\ passed = Missing
    /\ children = {} /\ detached = {} /\ starts = 0 /\ changed = {}

Task == Fixtures[next]
Latest(t) == Len(state.tasks[t].attempts)

\* _trace_usage: nothing found counts as nothing used.
UsageIn(report) == IF report = NoLedger THEN Nothing ELSE report

\* _recalculate_usage: the debits of all attempts of all tasks.
Debits(s, u) ==
    [t \in Tasks |-> [n \in DOMAIN s.tasks[t].attempts |-> s.tasks[t].attempts[n].debit[u]]]

Debited(s, u) == SumAll(Debits(s, u), Fixtures)

\* The process returns, raises or is killed: its memory is gone.
Leave == pc' = "down" /\ state' = NoState /\ next' = 1 /\ attempted' = {} /\ passed' = Missing

\* The state is changed in memory and saved at once.
Save(s) == state' = s /\ saved' = s
-----------------------------------------------------------------------------
(***************************************************************************)
(* Starting: _load_state and _reconcile_abandoned_attempts.                *)
(***************************************************************************)

\* A directory that holds something but no cohort.json is refused: the
\* temporary file of a first save that was cut short is something.
Start ==
    /\ pc = "down" /\ starts < MaxStarts
    /\ starts' = starts + 1 /\ changed' = {}
    /\ \/ saved # NoState /\ pc' = "resume" /\ UNCHANGED leftover
       \/ saved = NoState /\ ~leftover /\ leftover' = TRUE /\ pc' = "initialise"
    /\ UNCHANGED <<saved, published, ledger, state, next, attempted, passed, children, detached>>

\* The temporary file replaces cohort.json.
Initialise ==
    /\ pc = "initialise"
    /\ saved' = InitialState /\ leftover' = FALSE /\ pc' = "resume"
    /\ UNCHANGED <<published, ledger, state, next, attempted, passed, world>>

Abandoned(s) ==
    {t \in Tasks : \E n \in DOMAIN s.tasks[t].attempts :
                       s.tasks[t].attempts[n].status = "running"}

\* Faulty variant: an abandoned attempt is debited what it is found to have used.
ClosedAtUsage(t, n, attempt) ==
    IF attempt.status = "running"
    THEN [status |-> "abandoned", usage |-> UsageIn(ledger[t][n]),
          debit |-> UsageIn(ledger[t][n])]
    ELSE attempt

\* An attempt found running is closed; its whole reservation stays debited.
Closed(t, n, attempt) ==
    IF attempt.status = "running"
    THEN [status |-> "abandoned", usage |-> UsageIn(ledger[t][n]), debit |-> Reservation]
    ELSE attempt

\* Faulty variant: the task's status is repaired, its attempt is forgotten.
ReconciledTasksOnly(s) ==
    [status |-> "running",
     tasks  |-> [t \in Tasks |->
        IF t \in Abandoned(s) THEN [s.tasks[t] EXCEPT !.status = "failed"] ELSE s.tasks[t]]]

Reconciled(s) ==
    [status |-> "running",
     tasks  |-> [t \in Tasks |->
        IF t \in Abandoned(s)
        THEN [s.tasks[t] EXCEPT
                 !.status = "failed",
                 !.attempts = [n \in DOMAIN @ |-> Closed(t, n, @[n])]]
        ELSE s.tasks[t]]]

\* Faulty variant: the tasks of abandoned attempts are tried again at once.
ResumeRetrying ==
    /\ pc = "resume"
    /\ Save(Reconciled(saved))
    /\ attempted' = {}
    /\ pc' = "loop"
    /\ UNCHANGED <<leftover, published, ledger, next, passed, world>>

Resume ==
    /\ pc = "resume"
    /\ Save(Reconciled(saved))
    /\ attempted' = Abandoned(saved)
    /\ pc' = "loop"
    /\ UNCHANGED <<leftover, published, ledger, next, passed, world>>
-----------------------------------------------------------------------------
(***************************************************************************)
(* The loop over the fixtures.                                             *)
(***************************************************************************)
AtTask == pc = "loop" /\ next <= Len(Fixtures)
IsCompleted(t) == state.tasks[t].status = "completed"

\* Faulty variant: only that there is some candidate is verified.
CandidatePresent(t) == published[t] # Missing

\* _verify_completed_task finds the candidate it recorded.
HashUnchanged(t) == published[t] = state.tasks[t].candidate_sha256

PassCompleted ==
    /\ AtTask /\ IsCompleted(Task) /\ HashUnchanged(Task)
    /\ next' = next + 1
    /\ UNCHANGED <<disk, pc, state, attempted, passed, world>>

\* ... or raises: another candidate, or the sanity checker says no or times out.
RaiseAtCompleted ==
    /\ AtTask /\ IsCompleted(Task)
    /\ Leave
    /\ UNCHANGED <<disk, world>>

PassAttempted ==
    /\ AtTask /\ ~IsCompleted(Task) /\ Task \in attempted
    /\ next' = next + 1
    /\ UNCHANGED <<disk, pc, state, attempted, passed, world>>

\* Faulty variant: the budget is compared without the new reservation.
ExceededBefore == {u \in Units : Debited(state, u) >= Budget[u]}

\* _reserve_allowed
Exceeded == {u \in Units : Debited(state, u) + Reservation[u] > Budget[u]}

StopOnBudget ==
    /\ AtTask /\ ~IsCompleted(Task) /\ Task \notin attempted
    /\ Exceeded # {}
    /\ state' = [state EXCEPT !.status = IF "token" \in Exceeded
                                         THEN "stopped_token_budget"
                                         ELSE "stopped_cost_budget"]
    /\ pc' = "finish"
    /\ UNCHANGED <<disk, next, attempted, passed, world>>

WithNewAttempt(t) ==
    [state EXCEPT
        !.tasks[t].status = "running",
        !.tasks[t].attempts =
            Append(@, [status |-> "running", usage |-> Nothing, debit |-> Reservation])]

\* Faulty variant: the reservation is saved with the result only.
ReserveInMemory ==
    /\ AtTask /\ ~IsCompleted(Task) /\ Task \notin attempted
    /\ Exceeded = {}
    /\ state' = WithNewAttempt(Task)
    /\ attempted' = attempted \cup {Task}
    /\ ledger' = [ledger EXCEPT ![Task] = Append(@, NoLedger)]
    /\ children' = children \cup {<<Task, Latest(Task) + 1>>}
    /\ pc' = "baseline"
    /\ UNCHANGED <<saved, leftover, published, next, passed, detached, starts, changed>>

\* The reservation is on disk before the child process starts.
Reserve ==
    /\ AtTask /\ ~IsCompleted(Task) /\ Task \notin attempted
    /\ Exceeded = {}
    /\ Save(WithNewAttempt(Task))
    /\ attempted' = attempted \cup {Task}
    /\ ledger' = [ledger EXCEPT ![Task] = Append(@, NoLedger)]
    /\ children' = children \cup {<<Task, Latest(Task) + 1>>}
    /\ pc' = "baseline"
    /\ UNCHANGED <<leftover, published, next, passed, detached, starts, changed>>

\* The attempt with what its ledger reports; with no report the debit stays.
Settled(t, status) ==
    LET report == ledger[t][Latest(t)]
    IN  [status |-> status, usage |-> UsageIn(report),
         debit  |-> IF report = NoLedger THEN Reservation ELSE report]

AfterAttempt(t, attemptStatus, taskStatus) ==
    [state EXCEPT
        !.tasks[t].status = taskStatus,
        !.tasks[t].attempts[Latest(t)] = Settled(t, attemptStatus)]

\* The child ended, and it failed or its candidate did not verify; or reading
\* its output failed (an OSError of the log file or the terminal), and the
\* attempt is settled the same way while the child goes on in its own session.
AttemptFails ==
    /\ pc = "baseline"
    /\ \/ children' = children \ {<<Task, Latest(Task)>>} /\ UNCHANGED detached
       \/ /\ Cardinality(detached) < MaxDetached
          /\ detached' = detached \cup {<<Task, Latest(Task)>>} /\ UNCHANGED children
    /\ Save(AfterAttempt(Task, "failed", "failed"))
    /\ next' = next + 1 /\ pc' = "loop"
    /\ UNCHANGED <<leftover, published, ledger, attempted, passed, starts, changed>>

\* The child ended and its candidate verified; nothing of that is saved yet.
AttemptPasses ==
    /\ pc = "baseline"
    /\ children' = children \ {<<Task, Latest(Task)>>}
    /\ state' = AfterAttempt(Task, "completed", "running")
    /\ \E candidate \in Hashes : passed' = candidate
    /\ pc' = "publish"
    /\ UNCHANGED <<disk, next, attempted, detached, starts, changed>>

\* Faulty variant: replaces whatever was published before.
PublishOver ==
    /\ pc = "publish"
    /\ published' = [published EXCEPT ![Task] = passed]
    /\ pc' = "record"
    /\ UNCHANGED <<saved, leftover, ledger, state, next, attempted, passed, world>>

\* _publish_task: copied beside, then renamed into place.
Publish ==
    /\ pc = "publish" /\ published[Task] = Missing
    /\ published' = [published EXCEPT ![Task] = passed]
    /\ pc' = "record"
    /\ UNCHANGED <<saved, leftover, ledger, state, next, attempted, passed, world>>

\* "refusing to overwrite published cohort task" is not caught.
RaiseAtPublish ==
    /\ pc = "publish" /\ published[Task] # Missing
    /\ Leave
    /\ UNCHANGED <<disk, world>>

\* The published candidate's hash is recorded; if it is gone the task failed.
Record ==
    /\ pc = "record"
    /\ Save(IF published[Task] = Missing
            THEN AfterAttempt(Task, "failed", "failed")
            ELSE [AfterAttempt(Task, "completed", "completed") EXCEPT
                     !.tasks[Task].candidate_sha256 = published[Task]])
    /\ passed' = Missing
    /\ next' = next + 1 /\ pc' = "loop"
    /\ UNCHANGED <<leftover, published, ledger, attempted, world>>

\* After the loop or its break.
Finish ==
    /\ pc = "finish" \/ (pc = "loop" /\ next > Len(Fixtures))
    /\ saved' = [state EXCEPT
                    !.status = IF \A t \in Tasks : IsCompleted(t) THEN "completed"
                               ELSE IF @ = "running" THEN "partial" ELSE @]
    /\ Leave
    /\ UNCHANGED <<leftover, published, ledger, world>>
-----------------------------------------------------------------------------
(***************************************************************************)
(* Around the scheduler.                                                   *)
(***************************************************************************)

\* The process is killed, the host goes down; children may live on.
Crash ==
    /\ pc # "down"
    /\ Leave
    /\ UNCHANGED <<disk, world>>

\* A child's provider call returned and its ledger was rewritten.  The child
\* asks only while the cap is not reached, and stops once it is exceeded.
ProviderCall(t, n, charge) ==
    LET used  == UsageIn(ledger[t][n])
        total == [u \in Units |-> used[u] + charge[u]]
    IN  /\ <<t, n>> \in children
        /\ used["token"] < Reservation["token"]
        /\ total \in Reportable
        /\ ledger' = [ledger EXCEPT ![t][n] = total]
        /\ UNCHANGED <<saved, leftover, published, process, world>>

\* A child nobody waits for ends by itself.
OrphanEnds(t, n) ==
    /\ <<t, n>> \in children
    /\ ~(pc = "baseline" /\ t = Task /\ n = Latest(t))
    /\ children' = children \ {<<t, n>>}
    /\ UNCHANGED <<disk, process, detached, starts, changed>>

\* Somebody changes or deletes a published candidate.
Tamper(t) ==
    /\ published[t] # Missing /\ t \notin changed
    /\ \E content \in (Hashes \cup {Missing}) \ {published[t]} :
           published' = [published EXCEPT ![t] = content]
    /\ changed' = changed \cup {t}
    /\ UNCHANGED <<saved, leftover, ledger, process, children, detached, starts>>

SchedulerStep ==
    \/ Start \/ Initialise \/ Resume
    \/ PassCompleted \/ RaiseAtCompleted \/ PassAttempted \/ StopOnBudget \/ Reserve
    \/ AttemptFails \/ AttemptPasses \/ Publish \/ RaiseAtPublish \/ Record \/ Finish

Next ==
    \/ SchedulerStep
    \/ Crash
    \/ \E child \in children :
           \/ \E charge \in Charges : ProviderCall(child[1], child[2], charge)
           \/ OrphanEnds(child[1], child[2])
    \/ \E t \in Tasks : Tamper(t)

Spec == Init /\ [][Next]_vars
-----------------------------------------------------------------------------
(***************************************************************************)
(* Properties.                                                             *)
(***************************************************************************)
Attempt ==
    [status : {"running", "completed", "failed", "abandoned"}, usage : Amount, debit : Amount]

TaskRecord ==
    [status : {"pending", "running", "completed", "failed"}, attempts : Seq(Attempt),
     candidate_sha256 : Hashes \cup {Missing}]

CohortState ==
    [status : {"ready", "running", "partial", "completed",
               "stopped_token_budget", "stopped_cost_budget"},
     tasks : [Tasks -> TaskRecord]]

\* The variables stay in their types; cohort.json and the working state never
\* hold an attempt still running from an earlier start once a start is under way.
TypeOK ==
    /\ saved \in CohortState \cup {NoState}
    /\ state \in CohortState \cup {NoState}
    /\ state = NoState <=> pc \in {"down", "initialise", "resume"}
    /\ published \in [Tasks -> Hashes \cup {Missing}]
    /\ passed \in Hashes \cup {Missing}
    /\ state # NoState =>
           Abandoned(state) \subseteq (IF pc = "baseline" THEN {Task} ELSE {})

\* What all ledgers on the disk report together, each counted up to the cap of
\* its attempt: the answer that crosses a cap is the child's last.
UpToCap(amount, u) == IF amount[u] <= Reservation[u] THEN amount[u] ELSE Reservation[u]

ReportedUpToCaps(u) ==
    SumAll([t \in Tasks |-> [n \in DOMAIN ledger[t] |-> UpToCap(UsageIn(ledger[t][n]), u)]],
           Fixtures)

\* What the scheduler can answer for: an attempt it settled while the child
\* lived on counts with what cohort.json records of it, any other with what its
\* ledger reports by now.
Counted(t, n) ==
    IF <<t, n>> \in detached THEN saved.tasks[t].attempts[n].usage ELSE UsageIn(ledger[t][n])

CountedUpToCaps(u) ==
    SumAll([t \in Tasks |-> [n \in DOMAIN ledger[t] |-> UpToCap(Counted(t, n), u)]], Fixtures)

\* All attempts of all starts together, the abandoned ones, the ones whose
\* child outlived the scheduler and the ones whose end was never saved
\* included, report no more than the budget but for two things: what single
\* attempts report past their caps, and what a child reports after its attempt
\* was settled without it ("without ever admitting work beyond its budgets",
\* scheduler.py, _run_cohort_locked).
SpendingWithinBudget == \A u \in Units : CountedUpToCaps(u) <= Budget[u]

\* The same without the second exception, which is how the README and the
\* comments of scheduler.py read.  This does not hold (README, disagreements).
AdmittedWithinBudget == \A u \in Units : ReportedUpToCaps(u) <= Budget[u]

\* Every child that can still spend has its whole reservation on disk, after
\* whatever crashes and restarts ("Durable reservation before provider access"),
\* unless its attempt was settled while it lived.
ReservedWhileSpending ==
    \A child \in children \ detached :
        /\ saved # NoState
        /\ child[2] \in DOMAIN saved.tasks[child[1]].attempts
        /\ saved.tasks[child[1]].attempts[child[2]].debit = Reservation

\* A completed task is done for good: no later start runs it again, forgets it
\* or takes back its hash; and a published candidate is never written over by
\* the scheduler, only by somebody else.
CompletedIsFinal ==
    [][\A t \in Tasks :
           /\ saved # NoState /\ saved.tasks[t].status = "completed" =>
                  saved'.tasks[t] = saved.tasks[t] /\ Len(ledger'[t]) = Len(ledger[t])
           /\ published[t] # Missing =>
                  published'[t] = published[t] \/ t \in changed' \ changed]_vars

\* A start that ends with the status "completed" leaves the recorded candidate
\* of every task in place, unless it was tampered with during that very start:
\* changes made before it began are found.
CompletionIsBacked ==
    [][saved # NoState /\ saved'.status = "completed" /\ saved.status # "completed" =>
           \A t \in Tasks \ changed :
               /\ published[t] # Missing
               /\ published[t] = saved'.tasks[t].candidate_sha256]_vars

\* No task is attempted twice in one start, and an attempt a crash abandoned
\* costs the task the start that finds it as well
\* (test_crash_abandoned_attempt_is_not_relaunched_and_keeps_reservation).
OneAttemptPerStart ==
    saved # NoState =>
        \A t \in Tasks :
            LET attempts == saved.tasks[t].attempts
            IN  Len(attempts)
                  + Cardinality({n \in DOMAIN attempts : attempts[n].status = "abandoned"})
                  <= starts

\* What cohort.json shows of a state to those who only read it.
Usages(s, u) ==
    [t \in Tasks |-> [n \in DOMAIN s.tasks[t].attempts |-> s.tasks[t].attempts[n].usage[u]]]

Shown(s) ==
    IF s = NoState THEN [status |-> "none"]
    ELSE [status    |-> IF s.status \in {"stopped_token_budget", "stopped_cost_budget"}
                        THEN "stopped" ELSE s.status,
          completed |-> Cardinality({t \in Tasks : s.tasks[t].status = "completed"}),
          used      |-> [u \in Units |-> SumAll(Usages(s, u), Fixtures)],
          debited   |-> [u \in Units |-> Debited(s, u)],
          open      |-> Abandoned(s) # {}]

Cohort == INSTANCE CohortAccount WITH
    TaskCount <- Len(Fixtures),
    Reports   <- {NoLedger} \cup Reportable

\* Each save of cohort.json, whatever was killed or tampered with before it, is
\* a step of CohortAccount: the totals a reader finds never lose a reservation
\* or a completed task, and at most one attempt is on record as running.
ImplementsAccount ==
    /\ Shown(saved) = Cohort!NoAccount
    /\ [][\E before \in {Shown(saved)}, after \in {Shown(saved')} :
             Cohort!AccountStep(before, after)]_saved

\* What "a resume cannot silently spend past the scheduler's admission bound"
\* (README.md) and "keeping the original reservation makes the cross-run upper
\* bound real" (scheduler.py, _reconcile_abandoned_attempts) claim: no attempt
\* on record is debited less than it is recorded to have used.  This does not
\* hold (README, disagreements).
DebitsCoverUsage ==
    saved # NoState =>
        \A t \in Tasks : \A n \in DOMAIN saved.tasks[t].attempts : \A u \in Units :
            saved.tasks[t].attempts[n].usage[u] <= saved.tasks[t].attempts[n].debit[u]

\* What "re-run the identical command to resume" (README.md) needs: a start
\* never finds the place of an uncompleted task's candidate taken, nobody but
\* the scheduler having written there.
UnfinishedTasksCanBePublished ==
    pc = "resume" =>
        \A t \in Tasks :
            saved.tasks[t].status # "completed" => published[t] = Missing
=============================================================================

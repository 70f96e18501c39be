----------------------- MODULE CohortSchedulerProofs -----------------------
(***************************************************************************)
(* Proofs about CohortScheduler, for any fixtures, caps, budgets, charges  *)
(* and number of starts.  The invariant relates what is on disk            *)
(* (cohort.json and the ledgers), what the process has in memory and the   *)
(* children that are alive; every property of the scheduler follows.       *)
(***************************************************************************)
EXTENDS CohortScheduler, SumTheorems, FiniteSetTheorems

Attempts(t) == saved.tasks[t].attempts

Phases == {"down", "initialise", "resume", "loop", "baseline", "publish", "record", "finish"}

\* The attempt at hand was started and its end is not saved.
Trying == pc \in {"baseline", "publish", "record"}

Types ==
    /\ saved \in CohortState \cup {NoState}
    /\ state \in CohortState \cup {NoState}
    /\ published \in [Tasks -> Hashes \cup {Missing}]
    /\ ledger \in [Tasks -> Seq({NoLedger} \cup Amount)]
    /\ pc \in Phases
    /\ next \in 1 .. Len(Fixtures) + 1
    /\ passed \in Hashes \cup {Missing}
    /\ children \subseteq Tasks \X Nat
    /\ detached \subseteq Tasks \X Nat
    /\ starts \in Nat

\* What the process has in memory, against what is on disk.
Memory ==
    /\ state = NoState <=> pc \in {"down", "initialise", "resume"}
    /\ pc = "initialise" => saved = NoState
    /\ pc \notin {"down", "initialise"} => saved # NoState
    /\ pc \in {"down", "initialise", "resume"} => next = 1 /\ attempted = {}
    /\ pc \in {"loop", "baseline"} => state = saved
    /\ pc \in {"publish", "record", "finish"} => next <= Len(Fixtures)
    /\ state # NoState => saved.status = "running"
    /\ pc = "finish" =>
           state.tasks = saved.tasks /\ ~IsCompleted(Task) /\ state.status # "completed"

\* The attempt at hand is the last of its task, on record as running.
AtHand ==
    /\ Trying =>
           /\ next <= Len(Fixtures) /\ Task \in attempted
           /\ saved.tasks[Task].status = "running"
           /\ Len(Attempts(Task)) > 0
           /\ Attempts(Task)[Len(Attempts(Task))].status = "running"
    /\ pc \in {"publish", "record"} =>
           /\ <<Task, Len(Attempts(Task))>> \notin children
           /\ state.status = saved.status
           /\ \A t \in Tasks \ {Task} : state.tasks[t] = saved.tasks[t]
           /\ Len(state.tasks[Task].attempts) = Len(Attempts(Task))
           /\ \A n \in 1 .. Len(Attempts(Task)) - 1 :
                  state.tasks[Task].attempts[n] = Attempts(Task)[n]
           /\ state.tasks[Task].attempts[Len(Attempts(Task))].status = "completed"

\* Every attempt on record has a ledger; a running one is its task's last and
\* has its whole reservation; none counts for more, up to its cap, than its debit.
OnRecord ==
    saved # NoState =>
        \A t \in Tasks :
            /\ Len(ledger[t]) = Len(Attempts(t))
            /\ saved.tasks[t].status = "completed" =>
                   saved.tasks[t].candidate_sha256 # Missing
            /\ \A n \in 1 .. Len(Attempts(t)) :
                   /\ Attempts(t)[n].status = "running" =>
                          /\ n = Len(Attempts(t))
                          /\ Attempts(t)[n].debit = Reservation
                          /\ saved.tasks[t].status = "running"
                   /\ \A u \in Units :
                          UpToCap(Counted(t, n), u) <= UpToCap(Attempts(t)[n].debit, u)

\* While a start works on its state only the attempt at hand is running.
RunningIsAtHand ==
    state # NoState =>
        \A t \in Tasks : \A n \in 1 .. Len(Attempts(t)) :
            Attempts(t)[n].status = "running" => Trying /\ t = Task

\* A child that is alive has its whole reservation on record, unless its
\* attempt was settled without it.
Reserved ==
    \A child \in children \ detached :
        /\ saved # NoState
        /\ child[2] \in 1 .. Len(Attempts(child[1]))
        /\ Attempts(child[1])[child[2]].debit = Reservation

\* An attempt settled while its child lived is on record, and not as running.
Detachments ==
    \A d \in detached :
        /\ saved # NoState
        /\ d[2] \in 1 .. Len(Attempts(d[1]))
        /\ Attempts(d[1])[d[2]].status # "running"

\* Before the first save nothing was attempted.
NothingYet == saved = NoState => \A t \in Tasks : ledger[t] = <<>>

CappedDebits(s, u) ==
    [t \in Tasks |->
        [n \in DOMAIN s.tasks[t].attempts |-> UpToCap(s.tasks[t].attempts[n].debit, u)]]

\* The debits on record, each counted up to its cap, are within the budget.
DebitsWithinBudget ==
    saved # NoState => \A u \in Units : SumAll(CappedDebits(saved, u), Fixtures) <= Budget[u]

AbandonedOf(t) == {n \in DOMAIN Attempts(t) : Attempts(t)[n].status = "abandoned"}

\* The starts a task has used up; the start under way still has its attempt of
\* every task not in `attempted'.
StartsPaid ==
    /\ pc # "down" => starts > 0
    /\ saved # NoState =>
           \A t \in Tasks :
               Len(Attempts(t)) + Cardinality(AbandonedOf(t))
                   + (IF pc = "down" \/ t \in attempted THEN 0 ELSE 1) <= starts

\* Every completed task the loop has passed has its candidate in place, unless
\* it was tampered with during this start.
PassedAreBacked ==
    state # NoState =>
        \A i \in 1 .. next - 1 :
            saved.tasks[Fixtures[i]].status = "completed" /\ Fixtures[i] \notin changed =>
                /\ published[Fixtures[i]] # Missing
                /\ published[Fixtures[i]] = saved.tasks[Fixtures[i]].candidate_sha256

Inv ==
    /\ Types /\ Memory /\ AtHand /\ OnRecord /\ RunningIsAtHand
    /\ Reserved /\ Detachments /\ NothingYet /\ DebitsWithinBudget
    /\ StartsPaid /\ PassedAreBacked
-----------------------------------------------------------------------------
(***************************************************************************)
(* What the definitions of the model are made of.                          *)
(***************************************************************************)

\* The fixtures are a sequence of different tasks.
LEMMA FixtureFacts ==
    /\ Len(Fixtures) \in Nat /\ Len(Fixtures) > 0
    /\ \A i \in 1 .. Len(Fixtures) : Fixtures[i] \in Tasks
    /\ \A t \in Tasks : \E i \in 1 .. Len(Fixtures) : Fixtures[i] = t
    /\ \A i, j \in 1 .. Len(Fixtures) : Fixtures[i] = Fixtures[j] => i = j
  BY ConfigAssumption DEF Tasks, IsInjective

\* The absence of a state or of a report is none of the states and reports.
LEMMA NoneOfThem ==
    /\ NoState \notin CohortState /\ NoLedger \notin Amount
    /\ Nothing \in Amount /\ Reservation \in Amount
    /\ \A r \in {NoLedger} \cup Amount : UsageIn(r) \in Amount
  <1>1. NoState \notin CohortState
    <2>1. NoState.status = "none"
      BY DEF NoState
    <2>2. \A s \in CohortState : s.status # "none"
      BY DEF CohortState
    <2>3. QED
      BY <2>1, <2>2
  <1>2. NoLedger \notin Amount
    <2>1. DOMAIN NoLedger = {}
      BY DEF NoLedger
    <2>2. \A a \in Amount : DOMAIN a = Units
      BY DEF Amount
    <2>3. QED
      BY <2>1, <2>2 DEF Units
  <1>3. Nothing \in Amount
    BY DEF Nothing, Amount
  <1>4. QED
    BY <1>1, <1>2, <1>3, ConfigAssumption DEF UsageIn

\* An amount counted up to a cap: a number, never more than the amount or the cap.
LEMMA CappedFacts ==
    ASSUME NEW a \in Amount, NEW u \in Units
    PROVE  /\ UpToCap(a, u) \in Nat
           /\ UpToCap(a, u) <= a[u] /\ UpToCap(a, u) <= Reservation[u]
           /\ UpToCap(Reservation, u) = Reservation[u]
           /\ UpToCap(Nothing, u) = 0
           /\ a[u] \in Nat
  <1>1. a[u] \in Nat /\ Reservation[u] \in Nat
    BY ConfigAssumption DEF Amount
  <1>2. Nothing[u] = 0
    BY DEF Nothing
  <1>3. QED
    BY <1>1, <1>2 DEF UpToCap

\* What a state on record or in memory is made of.
LEMMA StateFacts ==
    ASSUME NEW s \in CohortState, NEW t \in Tasks
    PROVE  /\ s.tasks[t] \in TaskRecord
           /\ s.tasks[t].attempts \in Seq(Attempt)
           /\ Len(s.tasks[t].attempts) \in Nat
           /\ DOMAIN s.tasks[t].attempts = 1 .. Len(s.tasks[t].attempts)
           /\ \A n \in 1 .. Len(s.tasks[t].attempts) :
                  /\ s.tasks[t].attempts[n] \in Attempt
                  /\ s.tasks[t].attempts[n].debit \in Amount
                  /\ s.tasks[t].attempts[n].usage \in Amount
  <1>1. s.tasks[t] \in TaskRecord
    BY DEF CohortState
  <1>2. s.tasks[t].attempts \in Seq(Attempt)
    BY <1>1 DEF TaskRecord
  <1>3. \A a \in Attempt : a.debit \in Amount /\ a.usage \in Amount
    BY DEF Attempt
  <1>4. QED
    BY <1>1, <1>2, <1>3

Statuses == {"pending", "running", "completed", "failed"}

\* A task with another status and other attempts.
LEMMA TaskChanged ==
    ASSUME NEW k \in TaskRecord, NEW status \in Statuses, NEW h \in Seq(Attempt)
    PROVE  LET z == [k EXCEPT !.status = status, !.attempts = h]
           IN  /\ z \in TaskRecord /\ z.status = status /\ z.attempts = h
               /\ z.candidate_sha256 = k.candidate_sha256
  BY DEF TaskRecord, Statuses

\* Attempts with another last one.
LEMMA AttemptsChanged ==
    ASSUME NEW h \in Seq(Attempt), NEW a \in Attempt, Len(h) > 0
    PROVE  LET z == [h EXCEPT ![Len(h)] = a]
           IN  /\ z \in Seq(Attempt) /\ Len(z) = Len(h) /\ z[Len(h)] = a
               /\ \A n \in 1 .. Len(h) - 1 : z[n] = h[n]
  OBVIOUS

\* A state with another record of one task.
LEMMA StateChanged ==
    ASSUME NEW s \in CohortState, NEW t \in Tasks, NEW r \in TaskRecord
    PROVE  LET z == [s EXCEPT !.tasks[t] = r]
           IN  /\ z \in CohortState /\ z.status = s.status /\ z.tasks[t] = r
               /\ \A q \in Tasks \ {t} : z.tasks[q] = s.tasks[q]
  BY DEF CohortState

\* Reserving changes one task: its status, and one more attempt.
LEMMA NewAttemptShape ==
    ASSUME state \in CohortState, NEW t \in Tasks
    PROVE  /\ WithNewAttempt(t) \in CohortState
           /\ WithNewAttempt(t).status = state.status
           /\ \A r \in Tasks \ {t} : WithNewAttempt(t).tasks[r] = state.tasks[r]
           /\ WithNewAttempt(t).tasks[t].status = "running"
           /\ WithNewAttempt(t).tasks[t].attempts =
                  Append(state.tasks[t].attempts,
                         [status |-> "running", usage |-> Nothing, debit |-> Reservation])
  <1> DEFINE a == [status |-> "running", usage |-> Nothing, debit |-> Reservation]
             y == Append(state.tasks[t].attempts, a)
             r == [state.tasks[t] EXCEPT !.status = "running", !.attempts = y]
  <1>1. state.tasks[t] \in TaskRecord
    BY StateFacts
  <1>2. y \in Seq(Attempt)
    <2>1. a \in Attempt
      BY NoneOfThem DEF Attempt
    <2>2. state.tasks[t].attempts \in Seq(Attempt)
      BY StateFacts
    <2> HIDE DEF a
    <2>3. QED
      BY <2>1, <2>2
  <1>3. WithNewAttempt(t) = [state EXCEPT !.tasks[t] = r]
    BY <1>1 DEF WithNewAttempt, CohortState, TaskRecord
  <1> HIDE DEF y
  <1>4. r \in TaskRecord /\ r.status = "running" /\ r.attempts = y
    BY <1>1, <1>2, TaskChanged DEF Statuses
  <1> HIDE DEF r
  <1>5. QED
    BY <1>3, <1>4, StateChanged DEF y

\* The settled attempt: its status is the one given, its debit is what the
\* ledger reports, or the reservation when there is no report.
LEMMA SettledFacts ==
    ASSUME state \in CohortState, NEW t \in Tasks, NEW x \in {"completed", "failed"},
           ledger[t][Latest(t)] \in {NoLedger} \cup Amount
    PROVE  /\ Settled(t, x) \in Attempt
           /\ Settled(t, x).status = x
           /\ Settled(t, x).usage = UsageIn(ledger[t][Latest(t)])
           /\ Settled(t, x).debit = IF ledger[t][Latest(t)] = NoLedger THEN Reservation
                                    ELSE ledger[t][Latest(t)]
           /\ \A u \in Units :
                  UpToCap(UsageIn(ledger[t][Latest(t)]), u) <= UpToCap(Settled(t, x).debit, u)
  <1> DEFINE report == ledger[t][Latest(t)]
             debit == IF report = NoLedger THEN Reservation ELSE report
  <1>1. UsageIn(report) \in Amount /\ debit \in Amount
    BY NoneOfThem
  <1>2. Settled(t, x) = [status |-> x, usage |-> UsageIn(report), debit |-> debit]
    BY DEF Settled
  <1>3. ASSUME NEW u \in Units PROVE UpToCap(UsageIn(report), u) <= UpToCap(debit, u)
    <2>1. CASE report = NoLedger
      <3>1. UsageIn(report) = Nothing /\ debit = Reservation
        BY <2>1 DEF UsageIn
      <3>2. QED
        BY <3>1, NoneOfThem, CappedFacts
    <2>2. CASE report # NoLedger
      <3>1. UsageIn(report) = debit
        BY <2>2 DEF UsageIn
      <3>2. QED
        BY <1>1, <3>1, CappedFacts
    <2>3. QED
      BY <2>1, <2>2
  <1> HIDE DEF debit, report
  <1>4. /\ Settled(t, x) \in Attempt /\ Settled(t, x).status = x
        /\ Settled(t, x).usage = UsageIn(report) /\ Settled(t, x).debit = debit
    BY <1>1, <1>2 DEF Attempt
  <1>5. QED
    BY <1>3, <1>4 DEF report, debit

\* Settling changes one task: its status and its last attempt.
LEMMA AfterAttemptShape ==
    ASSUME state \in CohortState, NEW t \in Tasks, NEW x \in {"completed", "failed"},
           NEW y \in Statuses, Latest(t) > 0, Settled(t, x) \in Attempt
    PROVE  /\ AfterAttempt(t, x, y) \in CohortState
           /\ AfterAttempt(t, x, y).status = state.status
           /\ \A r \in Tasks \ {t} : AfterAttempt(t, x, y).tasks[r] = state.tasks[r]
           /\ AfterAttempt(t, x, y).tasks[t].status = y
           /\ Len(AfterAttempt(t, x, y).tasks[t].attempts) = Latest(t)
           /\ AfterAttempt(t, x, y).tasks[t].attempts[Latest(t)] = Settled(t, x)
           /\ \A n \in 1 .. Latest(t) - 1 :
                  AfterAttempt(t, x, y).tasks[t].attempts[n] = state.tasks[t].attempts[n]
  <1> DEFINE z == [state.tasks[t].attempts EXCEPT ![Latest(t)] = Settled(t, x)]
             r == [state.tasks[t] EXCEPT !.status = y, !.attempts = z]
  <1>1. state.tasks[t] \in TaskRecord
    BY StateFacts
  <1>2. /\ z \in Seq(Attempt) /\ Len(z) = Latest(t) /\ z[Latest(t)] = Settled(t, x)
        /\ \A n \in 1 .. Latest(t) - 1 : z[n] = state.tasks[t].attempts[n]
    <2>1. /\ state.tasks[t].attempts \in Seq(Attempt)
          /\ Latest(t) = Len(state.tasks[t].attempts) /\ Latest(t) \in Nat
      BY StateFacts DEF Latest
    <2>2. QED
      BY <2>1, AttemptsChanged
  <1>3. AfterAttempt(t, x, y) = [state EXCEPT !.tasks[t] = r]
    BY <1>1 DEF AfterAttempt, CohortState, TaskRecord
  <1> HIDE DEF z
  <1>4. r \in TaskRecord /\ r.status = y /\ r.attempts = z
    <2>1. z \in Seq(Attempt)
      BY <1>2
    <2>2. QED
      BY <1>1, <2>1 DEF TaskRecord, Statuses
  <1> HIDE DEF r
  <1>5. QED
    BY <1>2, <1>3, <1>4, StateChanged

\* Closing the abandoned attempts changes only their tasks.
LEMMA ReconciledShape ==
    ASSUME NEW s \in CohortState, NEW t \in Tasks,
           \A n \in 1 .. Len(s.tasks[t].attempts) : ledger[t][n] \in {NoLedger} \cup Amount
    PROVE  /\ Reconciled(s).status = "running"
           /\ Reconciled(s).tasks[t] \in TaskRecord
           /\ t \notin Abandoned(s) => Reconciled(s).tasks[t] = s.tasks[t]
           /\ t \in Abandoned(s) => Reconciled(s).tasks[t].status = "failed"
           /\ Len(Reconciled(s).tasks[t].attempts) = Len(s.tasks[t].attempts)
           /\ \A n \in 1 .. Len(s.tasks[t].attempts) :
                  Reconciled(s).tasks[t].attempts[n] = Closed(t, n, s.tasks[t].attempts[n])
  <1> DEFINE h == s.tasks[t].attempts
             z == [n \in DOMAIN h |-> Closed(t, n, h[n])]
             r == [s.tasks[t] EXCEPT !.status = "failed", !.attempts = z]
  <1>1. s.tasks[t] \in TaskRecord /\ h \in Seq(Attempt) /\ DOMAIN h = 1 .. Len(h)
        /\ Len(h) \in Nat /\ \A n \in 1 .. Len(h) : h[n] \in Attempt
    BY StateFacts
  <1>2. ASSUME NEW n \in 1 .. Len(h) PROVE Closed(t, n, h[n]) \in Attempt
    <2>1. UsageIn(ledger[t][n]) \in Amount /\ Reservation \in Amount
      BY NoneOfThem
    <2>2. [status |-> "abandoned", usage |-> UsageIn(ledger[t][n]), debit |-> Reservation]
             \in Attempt
      BY <2>1 DEF Attempt
    <2>3. QED
      BY <1>1, <2>2 DEF Closed
  <1>3. z \in Seq(Attempt) /\ Len(z) = Len(h) /\ \A n \in 1 .. Len(h) : z[n] = Closed(t, n, h[n])
    <2> HIDE DEF h
    <2>1. z \in [1 .. Len(h) -> Attempt]
      BY <1>1, <1>2
    <2>2. QED
      BY <1>1, <2>1
  <1>4. /\ Reconciled(s).status = "running"
        /\ Reconciled(s).tasks[t] = IF t \in Abandoned(s) THEN r ELSE s.tasks[t]
    BY <1>1 DEF Reconciled, TaskRecord
  <1>5. t \notin Abandoned(s) => \A n \in 1 .. Len(h) : Closed(t, n, h[n]) = h[n]
    BY <1>1 DEF Abandoned, Closed
  <1> HIDE DEF z
  <1>6. r \in TaskRecord /\ r.status = "failed" /\ r.attempts = z
    BY <1>1, <1>3, TaskChanged DEF Statuses
  <1> HIDE DEF r
  <1>7. CASE t \in Abandoned(s)
    BY <1>3, <1>4, <1>6, <1>7
  <1>8. CASE t \notin Abandoned(s)
    BY <1>1, <1>4, <1>5, <1>8
  <1>9. QED
    BY <1>7, <1>8
-----------------------------------------------------------------------------
(***************************************************************************)
(* What the steps do to the record: to cohort.json, ledgers and children.  *)
(***************************************************************************)

\* The record stays as it is; a child may end.
Quiet ==
    /\ saved' = saved /\ ledger' = ledger
    /\ children' \subseteq children /\ detached' = detached

\* Abandoned attempts are closed, their tasks are failed, nothing else changes.
Reconciles ==
    /\ saved \in CohortState
    /\ saved' \in CohortState /\ saved'.status = "running"
    /\ \A t \in Tasks :
           /\ t \notin Abandoned(saved) => saved'.tasks[t] = saved.tasks[t]
           /\ t \in Abandoned(saved) => saved'.tasks[t].status = "failed"
           /\ Len(saved'.tasks[t].attempts) = Len(Attempts(t))
           /\ \A n \in 1 .. Len(Attempts(t)) :
                  saved'.tasks[t].attempts[n] = Closed(t, n, Attempts(t)[n])
    /\ ledger' = ledger /\ children' = children /\ detached' = detached

\* One more attempt of t, with its reservation, its ledger and its child.
Reserves(t) ==
    /\ saved \in CohortState
    /\ saved' \in CohortState /\ saved'.status = saved.status
    /\ \A r \in Tasks \ {t} : saved'.tasks[r] = saved.tasks[r]
    /\ saved.tasks[t].status # "completed" /\ saved'.tasks[t].status = "running"
    /\ \A r \in Tasks : \A n \in 1 .. Len(Attempts(r)) : Attempts(r)[n].status # "running"
    /\ saved'.tasks[t].attempts =
           Append(Attempts(t), [status |-> "running", usage |-> Nothing, debit |-> Reservation])
    /\ \A u \in Units : Debited(saved, u) + Reservation[u] <= Budget[u]
    /\ ledger' = [ledger EXCEPT ![t] = Append(@, NoLedger)]
    /\ children' = children \cup {<<t, Len(Attempts(t)) + 1>>}
    /\ detached' = detached

\* The last attempt of t, found running, ends and is debited what it reports;
\* its child has ended, or goes on detached.
Settles(t) ==
    /\ saved \in CohortState
    /\ saved' \in CohortState /\ saved'.status = saved.status
    /\ \A r \in Tasks \ {t} : saved'.tasks[r] = saved.tasks[r]
    /\ saved.tasks[t].status = "running" /\ Len(Attempts(t)) > 0
    /\ Attempts(t)[Len(Attempts(t))].status = "running"
    /\ \/ saved'.tasks[t].status = "failed"
       \/ /\ saved'.tasks[t].status = "completed"
          /\ saved'.tasks[t].candidate_sha256 = published[t] /\ published[t] # Missing
    /\ Len(saved'.tasks[t].attempts) = Len(Attempts(t))
    /\ \A n \in 1 .. Len(Attempts(t)) - 1 : saved'.tasks[t].attempts[n] = Attempts(t)[n]
    /\ saved'.tasks[t].attempts[Len(Attempts(t))].status \in {"completed", "failed"}
    /\ LET report == ledger[t][Len(Attempts(t))]
           ended  == saved'.tasks[t].attempts[Len(Attempts(t))]
       IN  /\ report \in {NoLedger} \cup Amount
           /\ ended.usage = UsageIn(report)
           /\ ended.debit = IF report = NoLedger THEN Reservation ELSE report
    /\ \A u \in Units :
           UpToCap(UsageIn(ledger[t][Len(Attempts(t))]), u)
             <= UpToCap(saved'.tasks[t].attempts[Len(Attempts(t))].debit, u)
    /\ ledger' = ledger
    /\ children' \subseteq children
    /\ detached \subseteq detached' /\ detached' \subseteq detached \cup {<<t, Len(Attempts(t))>>}
    /\ <<t, Len(Attempts(t))>> \notin children' \ detached'

\* The tasks stay as they are; the start's last save gives the cohort's status.
Ends ==
    /\ saved \in CohortState
    /\ saved' \in CohortState /\ saved'.tasks = saved.tasks
    /\ ledger' = ledger /\ children' = children /\ detached' = detached

\* A report of a child replaces the one before.
Spends(t, n) ==
    /\ saved' = saved /\ children' = children /\ detached' = detached
    /\ <<t, n>> \in children
    /\ \E total \in Amount : ledger' = [ledger EXCEPT ![t][n] = total]

\* Who has a state has cohort.json.
LEMMA SavedFacts ==
    ASSUME Types, Memory
    PROVE  /\ saved # NoState => saved \in CohortState
           /\ state # NoState => state \in CohortState /\ saved \in CohortState
           /\ \A t \in Tasks : ledger[t] \in Seq({NoLedger} \cup Amount)
  BY DEF Types, Memory

\* The last attempt's ledger holds a report or none.
LEMMA LedgerFacts ==
    ASSUME Types, Memory, OnRecord, saved # NoState, NEW t \in Tasks
    PROVE  /\ Len(ledger[t]) = Len(Attempts(t)) /\ DOMAIN ledger[t] = 1 .. Len(Attempts(t))
           /\ Len(Attempts(t)) \in Nat
           /\ \A n \in 1 .. Len(Attempts(t)) : ledger[t][n] \in {NoLedger} \cup Amount
  <1>1. ledger[t] \in Seq({NoLedger} \cup Amount) /\ Len(ledger[t]) = Len(Attempts(t))
    BY SavedFacts DEF OnRecord
  <1>2. QED
    BY <1>1

\* The task at hand is one of the tasks.
LEMMA TaskFacts ==
    ASSUME Types, next <= Len(Fixtures)
    PROVE  Task \in Tasks /\ next \in 1 .. Len(Fixtures) /\ next \in Nat
  BY FixtureFacts DEF Types, Task

\* A resumed start closes what it finds running and saves that.
LEMMA ResumeReconciles ==
    ASSUME Inv, Resume
    PROVE  Reconciles /\ state' = saved'
  <1>1. saved \in CohortState /\ saved # NoState
    BY SavedFacts DEF Resume, Inv, Memory
  <1>2. \A t \in Tasks : \A n \in 1 .. Len(Attempts(t)) :
            ledger[t][n] \in {NoLedger} \cup Amount
    BY <1>1, LedgerFacts DEF Inv
  <1>3. saved' = Reconciled(saved) /\ state' = saved'
    BY DEF Resume, Save
  <1>4. \A t \in Tasks :
           /\ saved'.status = "running"
           /\ saved'.tasks[t] \in TaskRecord
           /\ t \notin Abandoned(saved) => saved'.tasks[t] = saved.tasks[t]
           /\ t \in Abandoned(saved) => saved'.tasks[t].status = "failed"
           /\ Len(saved'.tasks[t].attempts) = Len(Attempts(t))
           /\ \A n \in 1 .. Len(Attempts(t)) :
                  saved'.tasks[t].attempts[n] = Closed(t, n, Attempts(t)[n])
    BY <1>1, <1>2, <1>3, ReconciledShape DEF Attempts
  <1>5. saved' \in CohortState /\ saved'.status = "running"
    <2>1. saved' = [status |-> "running", tasks |-> saved'.tasks]
      BY <1>3 DEF Reconciled
    <2>2. saved'.tasks = [t \in Tasks |-> saved'.tasks[t]]
      BY <1>3 DEF Reconciled
    <2>3. saved'.tasks \in [Tasks -> TaskRecord]
      BY <1>4, <2>2
    <2>4. QED
      BY <2>1, <2>3 DEF CohortState
  <1>6. QED
    BY <1>1, <1>3, <1>4, <1>5 DEF Reconciles, Resume, world

\* The debits of a task's attempts are a sequence of numbers.
LEMMA DebitRows ==
    ASSUME NEW s \in CohortState, NEW t \in Tasks, NEW u \in Units
    PROVE  /\ Debits(s, u)[t] \in Seq(Nat)
           /\ Len(Debits(s, u)[t]) = Len(s.tasks[t].attempts)
           /\ \A n \in 1 .. Len(s.tasks[t].attempts) :
                  Debits(s, u)[t][n] = s.tasks[t].attempts[n].debit[u]
  <1> DEFINE h == s.tasks[t].attempts
             d == [n \in DOMAIN h |-> h[n].debit[u]]
  <1>1. Len(h) \in Nat /\ DOMAIN h = 1 .. Len(h) /\ \A n \in 1 .. Len(h) : h[n].debit \in Amount
    BY StateFacts
  <1>2. d \in [1 .. Len(h) -> Nat] /\ \A n \in 1 .. Len(h) : d[n] = h[n].debit[u]
    BY <1>1, CappedFacts
  <1>3. Debits(s, u)[t] = d
    BY DEF Debits
  <1> HIDE DEF d
  <1>4. QED
    BY <1>1, <1>2, <1>3, NumbersInARow

\* The same, each debit counted up to its cap.
LEMMA CappedRows ==
    ASSUME NEW s \in CohortState, NEW t \in Tasks, NEW u \in Units
    PROVE  /\ CappedDebits(s, u)[t] \in Seq(Nat)
           /\ Len(CappedDebits(s, u)[t]) = Len(s.tasks[t].attempts)
           /\ \A n \in 1 .. Len(s.tasks[t].attempts) :
                  CappedDebits(s, u)[t][n] = UpToCap(s.tasks[t].attempts[n].debit, u)
  <1> DEFINE h == s.tasks[t].attempts
             d == [n \in DOMAIN h |-> UpToCap(h[n].debit, u)]
  <1>1. Len(h) \in Nat /\ DOMAIN h = 1 .. Len(h) /\ \A n \in 1 .. Len(h) : h[n].debit \in Amount
    BY StateFacts
  <1>2. d \in [1 .. Len(h) -> Nat] /\ \A n \in 1 .. Len(h) : d[n] = UpToCap(h[n].debit, u)
    BY <1>1, CappedFacts
  <1>3. CappedDebits(s, u)[t] = d
    BY DEF CappedDebits
  <1> HIDE DEF d
  <1>4. QED
    BY <1>1, <1>2, <1>3, NumbersInARow

\* An attempt is on disk, with its whole reservation, before its child exists.
LEMMA ReserveReserves ==
    ASSUME Inv, Reserve
    PROVE  Reserves(Task) /\ state' = saved'
  <1>1. state = saved /\ state # NoState /\ next <= Len(Fixtures)
    BY DEF Inv, Memory, Reserve, AtTask
  <1>2. saved \in CohortState /\ Task \in Tasks
    BY <1>1, SavedFacts, TaskFacts DEF Inv
  <1>3. saved' = WithNewAttempt(Task) /\ state' = saved'
    BY DEF Reserve, Save
  <1>4. \A u \in Units : Debited(saved, u) + Reservation[u] <= Budget[u]
    <2> SUFFICES ASSUME NEW u \in Units PROVE Debited(saved, u) + Reservation[u] <= Budget[u]
      OBVIOUS
    <2>1. ~ (Debited(saved, u) + Reservation[u] > Budget[u])
      BY <1>1 DEF Reserve, Exceeded
    <2>2. Debited(saved, u) \in Nat
      BY <1>2, DebitRows, FixtureFacts, SumAllType DEF Debited
    <2>3. Reservation[u] \in Nat /\ Budget[u] \in Nat
      BY ConfigAssumption DEF Amount
    <2>4. QED
      BY <2>1, <2>2, <2>3
  <1>5. /\ saved.tasks[Task].status # "completed"
        /\ \A r \in Tasks : \A n \in 1 .. Len(Attempts(r)) : Attempts(r)[n].status # "running"
    BY <1>1, <1>2 DEF Reserve, AtTask, IsCompleted, Inv, RunningIsAtHand, Trying
  <1>6. /\ ledger' = [ledger EXCEPT ![Task] = Append(@, NoLedger)]
        /\ children' = children \cup {<<Task, Len(Attempts(Task)) + 1>>}
        /\ detached' = detached
    BY <1>1 DEF Reserve, Latest, Attempts
  <1>7. /\ saved' \in CohortState
        /\ saved'.status = saved.status
        /\ \A r \in Tasks \ {Task} : saved'.tasks[r] = saved.tasks[r]
        /\ saved'.tasks[Task].status = "running"
        /\ saved'.tasks[Task].attempts =
               Append(Attempts(Task),
                      [status |-> "running", usage |-> Nothing, debit |-> Reservation])
    BY <1>1, <1>2, <1>3, NewAttemptShape DEF Attempts
  <1>8. QED
    BY <1>2, <1>3, <1>4, <1>5, <1>6, <1>7 DEF Reserves

\* A failing attempt is settled by what its ledger reports and saved.
LEMMA AttemptFailsSettles ==
    ASSUME Inv, AttemptFails
    PROVE  Settles(Task) /\ state' = saved'
  <1>1. /\ state = saved /\ state # NoState /\ next <= Len(Fixtures)
        /\ saved.tasks[Task].status = "running" /\ Len(Attempts(Task)) > 0
        /\ Attempts(Task)[Len(Attempts(Task))].status = "running"
    BY DEF Inv, Memory, AtHand, Trying, AttemptFails
  <1>2. saved \in CohortState /\ state \in CohortState /\ Task \in Tasks
    BY <1>1, SavedFacts, TaskFacts DEF Inv
  <1>3. /\ saved' = AfterAttempt(Task, "failed", "failed") /\ state' = saved'
        /\ ledger' = ledger
        /\ \/ children' = children \ {<<Task, Latest(Task)>>} /\ detached' = detached
           \/ detached' = detached \cup {<<Task, Latest(Task)>>} /\ children' = children
    BY DEF AttemptFails, Save
  <1>4. Latest(Task) = Len(Attempts(Task)) /\ Latest(Task) \in Nat /\ Latest(Task) > 0
    BY <1>1, <1>2, StateFacts DEF Latest, Attempts
  <1>5. ledger[Task][Latest(Task)] \in {NoLedger} \cup Amount
    BY <1>1, <1>2, <1>4, LedgerFacts DEF Inv
  <1>6. /\ Settled(Task, "failed") \in Attempt
        /\ Settled(Task, "failed").status = "failed"
        /\ Settled(Task, "failed").usage = UsageIn(ledger[Task][Latest(Task)])
        /\ Settled(Task, "failed").debit =
               IF ledger[Task][Latest(Task)] = NoLedger THEN Reservation
               ELSE ledger[Task][Latest(Task)]
        /\ \A u \in Units :
               UpToCap(UsageIn(ledger[Task][Latest(Task)]), u)
                 <= UpToCap(Settled(Task, "failed").debit, u)
    BY <1>2, <1>5, SettledFacts
  <1>7. /\ saved' \in CohortState
        /\ saved'.status = saved.status
        /\ \A r \in Tasks \ {Task} : saved'.tasks[r] = saved.tasks[r]
        /\ saved'.tasks[Task].status = "failed"
        /\ Len(saved'.tasks[Task].attempts) = Latest(Task)
        /\ saved'.tasks[Task].attempts[Latest(Task)] = Settled(Task, "failed")
        /\ \A n \in 1 .. Latest(Task) - 1 :
               saved'.tasks[Task].attempts[n] = Attempts(Task)[n]
    <2> DEFINE z == AfterAttempt(Task, "failed", "failed")
    <2>1. /\ z \in CohortState /\ z.status = state.status
          /\ \A r \in Tasks \ {Task} : z.tasks[r] = state.tasks[r]
          /\ z.tasks[Task].status = "failed"
          /\ Len(z.tasks[Task].attempts) = Latest(Task)
          /\ z.tasks[Task].attempts[Latest(Task)] = Settled(Task, "failed")
          /\ \A n \in 1 .. Latest(Task) - 1 :
                 z.tasks[Task].attempts[n] = state.tasks[Task].attempts[n]
      <3>1. "failed" \in {"completed", "failed"} /\ "failed" \in Statuses
        BY DEF Statuses
      <3>2. QED
        BY <1>2, <1>4, <1>6, <3>1, AfterAttemptShape
    <2> HIDE DEF z
    <2>2. QED
      BY <1>1, <1>3, <2>1 DEF z, Attempts
  <1>8. /\ children' \subseteq children /\ detached \subseteq detached'
        /\ detached' \subseteq detached \cup {<<Task, Len(Attempts(Task))>>}
        /\ <<Task, Len(Attempts(Task))>> \notin children' \ detached'
    BY <1>3, <1>4
  <1>9. QED
    BY <1>1, <1>2, <1>3, <1>4, <1>5, <1>6, <1>7, <1>8 DEF Settles

\* A passed attempt is settled in memory only; its child is gone.
LEMMA AttemptPassesInMemory ==
    ASSUME Inv, AttemptPasses
    PROVE  /\ Task \in Tasks
           /\ state' \in CohortState
           /\ state'.status = saved.status
           /\ \A t \in Tasks \ {Task} : state'.tasks[t] = saved.tasks[t]
           /\ Len(state'.tasks[Task].attempts) = Len(Attempts(Task))
           /\ \A n \in 1 .. Len(Attempts(Task)) - 1 :
                  state'.tasks[Task].attempts[n] = Attempts(Task)[n]
           /\ state'.tasks[Task].attempts[Len(Attempts(Task))].status = "completed"
           /\ children' = children \ {<<Task, Len(Attempts(Task))>>} /\ detached' = detached
  <1>1. /\ state = saved /\ state # NoState /\ next <= Len(Fixtures)
        /\ Len(Attempts(Task)) > 0
    BY DEF Inv, Memory, AtHand, Trying, AttemptPasses
  <1>2. saved \in CohortState /\ state \in CohortState /\ Task \in Tasks
    BY <1>1, SavedFacts, TaskFacts DEF Inv
  <1>3. /\ state' = AfterAttempt(Task, "completed", "running")
        /\ children' = children \ {<<Task, Latest(Task)>>} /\ detached' = detached
    BY DEF AttemptPasses
  <1>4. Latest(Task) = Len(Attempts(Task)) /\ Latest(Task) \in Nat /\ Latest(Task) > 0
    BY <1>1, <1>2, StateFacts DEF Latest, Attempts
  <1>5. ledger[Task][Latest(Task)] \in {NoLedger} \cup Amount
    BY <1>1, <1>2, <1>4, LedgerFacts DEF Inv
  <1>6. Settled(Task, "completed") \in Attempt /\ Settled(Task, "completed").status = "completed"
    BY <1>2, <1>5, SettledFacts
  <1>7. /\ state' \in CohortState
        /\ state'.status = saved.status
        /\ \A r \in Tasks \ {Task} : state'.tasks[r] = saved.tasks[r]
        /\ Len(state'.tasks[Task].attempts) = Latest(Task)
        /\ state'.tasks[Task].attempts[Latest(Task)] = Settled(Task, "completed")
        /\ \A n \in 1 .. Latest(Task) - 1 :
               state'.tasks[Task].attempts[n] = Attempts(Task)[n]
    <2> DEFINE z == AfterAttempt(Task, "completed", "running")
    <2>1. /\ z \in CohortState /\ z.status = state.status
          /\ \A r \in Tasks \ {Task} : z.tasks[r] = state.tasks[r]
          /\ z.tasks[Task].status = "running"
          /\ Len(z.tasks[Task].attempts) = Latest(Task)
          /\ z.tasks[Task].attempts[Latest(Task)] = Settled(Task, "completed")
          /\ \A n \in 1 .. Latest(Task) - 1 :
                 z.tasks[Task].attempts[n] = state.tasks[Task].attempts[n]
      <3>1. "completed" \in {"completed", "failed"} /\ "running" \in Statuses
        BY DEF Statuses
      <3>2. QED
        BY <1>2, <1>4, <1>6, <3>1, AfterAttemptShape
    <2> HIDE DEF z
    <2>2. QED
      BY <1>1, <1>3, <2>1 DEF z, Attempts
  <1>8. QED
    BY <1>2, <1>3, <1>4, <1>6, <1>7

\* A passing attempt is saved once its candidate is published, as failed if the
\* candidate has gone by then.
LEMMA RecordSettles ==
    ASSUME Inv, Record
    PROVE  Settles(Task) /\ state' = saved'
  <1> DEFINE n0 == Len(Attempts(Task))
             gone == published[Task] = Missing
             x == IF gone THEN "failed" ELSE "completed"
             z == AfterAttempt(Task, x, x)
  <1>1. /\ state # NoState /\ next <= Len(Fixtures)
        /\ saved.tasks[Task].status = "running" /\ n0 > 0
        /\ Attempts(Task)[n0].status = "running"
        /\ <<Task, n0>> \notin children
        /\ state.status = saved.status
        /\ \A t \in Tasks \ {Task} : state.tasks[t] = saved.tasks[t]
        /\ Len(state.tasks[Task].attempts) = n0
        /\ \A n \in 1 .. n0 - 1 : state.tasks[Task].attempts[n] = Attempts(Task)[n]
    BY DEF Inv, Memory, AtHand, Trying, Record
  <1>2. saved \in CohortState /\ saved # NoState /\ state \in CohortState /\ Task \in Tasks
    BY <1>1, SavedFacts, TaskFacts, NoneOfThem DEF Inv
  <1>3. /\ state' = saved' /\ ledger' = ledger
        /\ children' = children /\ detached' = detached
        /\ gone => saved' = AfterAttempt(Task, "failed", "failed")
        /\ ~gone => saved' = [AfterAttempt(Task, "completed", "completed") EXCEPT
                                 !.tasks[Task].candidate_sha256 = published[Task]]
    BY DEF Record, Save, world
  <1>4. published[Task] \in Hashes \cup {Missing}
    BY <1>2 DEF Inv, Types
  <1>5. Latest(Task) = n0 /\ n0 \in Nat
    BY <1>1, <1>2, StateFacts DEF Latest, Attempts
  <1>6. ledger[Task][n0] \in {NoLedger} \cup Amount
    BY <1>1, <1>2, <1>5, LedgerFacts DEF Inv
  <1>7. x \in {"completed", "failed"} /\ x \in Statuses
    BY DEF Statuses
  <1> HIDE DEF n0, x
  <1>8. /\ Settled(Task, x) \in Attempt
        /\ Settled(Task, x).status = x
        /\ Settled(Task, x).usage = UsageIn(ledger[Task][n0])
        /\ Settled(Task, x).debit =
               IF ledger[Task][n0] = NoLedger THEN Reservation ELSE ledger[Task][n0]
        /\ \A u \in Units :
               UpToCap(UsageIn(ledger[Task][n0]), u) <= UpToCap(Settled(Task, x).debit, u)
    BY <1>2, <1>5, <1>6, <1>7, SettledFacts
  <1>9. /\ z \in CohortState
        /\ z.status = state.status
        /\ \A r \in Tasks \ {Task} : z.tasks[r] = state.tasks[r]
        /\ z.tasks[Task].status = x
        /\ Len(z.tasks[Task].attempts) = n0
        /\ z.tasks[Task].attempts[n0] = Settled(Task, x)
        /\ \A n \in 1 .. n0 - 1 : z.tasks[Task].attempts[n] = state.tasks[Task].attempts[n]
    BY <1>1, <1>2, <1>5, <1>7, <1>8, AfterAttemptShape
  <1>10. /\ saved' \in CohortState
         /\ saved'.status = z.status
         /\ \A r \in Tasks \ {Task} : saved'.tasks[r] = z.tasks[r]
         /\ saved'.tasks[Task].status = x
         /\ saved'.tasks[Task].attempts = z.tasks[Task].attempts
         /\ ~gone => saved'.tasks[Task].candidate_sha256 = published[Task]
    <2>1. CASE gone
      <3>1. saved' = z
        BY <1>3, <2>1 DEF x
      <3> HIDE DEF z
      <3>2. QED
        BY <1>9, <2>1, <3>1
    <2>2. CASE ~gone
      <3>1. saved' = [z EXCEPT !.tasks[Task].candidate_sha256 = published[Task]]
        BY <1>3, <2>2 DEF x
      <3> HIDE DEF z
      <3> DEFINE r == [z.tasks[Task] EXCEPT !.candidate_sha256 = published[Task]]
      <3>2. z.tasks[Task] \in TaskRecord
        BY <1>2, <1>9 DEF CohortState
      <3>3. /\ r \in TaskRecord /\ r.status = z.tasks[Task].status
            /\ r.attempts = z.tasks[Task].attempts /\ r.candidate_sha256 = published[Task]
        BY <1>4, <3>2 DEF TaskRecord
      <3>4. saved' = [z EXCEPT !.tasks[Task] = r]
        BY <3>1
      <3> HIDE DEF r
      <3>5. QED
        BY <1>2, <1>9, <3>3, <3>4, StateChanged
    <2>3. QED
      BY <2>1, <2>2
  <1> HIDE DEF z
  <1>11. QED
    BY <1>1, <1>2, <1>3, <1>6, <1>7, <1>8, <1>9, <1>10 DEF Settles, n0, x

\* The last save of a start says completed only when all tasks are.
LEMMA FinishEnds ==
    ASSUME Inv, Finish
    PROVE  /\ Ends
           /\ saved'.status = "completed" =>
                  /\ pc = "loop" /\ next = Len(Fixtures) + 1
                  /\ \A t \in Tasks : saved.tasks[t].status = "completed"
  <1> DEFINE status == IF \A t \in Tasks : IsCompleted(t) THEN "completed"
                       ELSE IF state.status = "running" THEN "partial" ELSE state.status
  <1>1. /\ state # NoState /\ state.tasks = saved.tasks /\ Len(Fixtures) \in Nat
        /\ pc = "finish" => Task \in Tasks /\ ~IsCompleted(Task)
        /\ pc = "loop" => next = Len(Fixtures) + 1
        /\ pc \in {"loop", "finish"} /\ state.status # "completed"
    BY FixtureFacts, TaskFacts DEF Inv, Types, Memory, Finish
  <1>2. saved \in CohortState /\ state \in CohortState
    BY <1>1, SavedFacts DEF Inv
  <1>3. saved' = [state EXCEPT !.status = status]
    BY <1>2 DEF Finish, CohortState
  <1>4. status \in {"ready", "running", "partial", "completed",
                    "stopped_token_budget", "stopped_cost_budget"}
    BY <1>2 DEF CohortState
  <1>5. status = "completed" =>
            (\A t \in Tasks : IsCompleted(t)) \/ state.status = "completed"
    OBVIOUS
  <1> HIDE DEF status
  <1>6. /\ saved' \in CohortState /\ saved'.tasks = saved.tasks /\ saved'.status = status
    BY <1>1, <1>2, <1>3, <1>4 DEF CohortState
  <1>7. ledger' = ledger /\ children' = children /\ detached' = detached
    BY DEF Finish, world
  <1>8. QED
    BY <1>1, <1>2, <1>5, <1>6, <1>7 DEF Ends, IsCompleted

\* Every child that is alive has an attempt on record, and so has every one
\* that was left behind.
LEMMA ChildFacts ==
    ASSUME Types, Reserved, Detachments, NEW t, NEW n, <<t, n>> \in children \cup detached
    PROVE  t \in Tasks /\ n \in Nat /\ saved # NoState /\ n \in 1 .. Len(Attempts(t))
  <1>1. t \in Tasks /\ n \in Nat
    BY DEF Types
  <1>2. CASE <<t, n>> \in detached
    BY <1>1, <1>2 DEF Detachments
  <1>3. CASE <<t, n>> \in children \ detached
    BY <1>1, <1>3 DEF Reserved
  <1>4. QED
    BY <1>1, <1>2, <1>3

\* A charge of a provider call goes to the ledger of its child only.
LEMMA ProviderCallSpends ==
    ASSUME Inv, NEW t, NEW n, NEW charge \in Charges, ProviderCall(t, n, charge)
    PROVE  Spends(t, n)
  <1> DEFINE used == UsageIn(ledger[t][n])
             total == [u \in Units |-> used[u] + charge[u]]
  <1>1. <<t, n>> \in children /\ ledger' = [ledger EXCEPT ![t][n] = total]
        /\ saved' = saved /\ children' = children /\ detached' = detached
    BY DEF ProviderCall, world
  <1>2. t \in Tasks /\ saved # NoState /\ n \in 1 .. Len(Attempts(t))
    BY <1>1, ChildFacts DEF Inv
  <1>3. used \in Amount /\ charge \in Amount
    BY <1>2, LedgerFacts, NoneOfThem, ConfigAssumption DEF Inv
  <1> HIDE DEF used
  <1>4. total \in Amount
    BY <1>3 DEF Amount
  <1>5. QED
    BY <1>1, <1>4 DEF Spends

\* These leave the record as it is.
LEMMA QuietSteps ==
    ASSUME \/ Start \/ PassCompleted \/ RaiseAtCompleted \/ PassAttempted \/ StopOnBudget
           \/ AttemptPasses \/ Publish \/ RaiseAtPublish \/ Crash
           \/ \E t, n : OrphanEnds(t, n)
           \/ \E t : Tamper(t)
           \/ UNCHANGED vars
    PROVE  Quiet
  <1>1. CASE Start \/ PassCompleted \/ RaiseAtCompleted \/ PassAttempted \/ StopOnBudget
    BY <1>1 DEF Quiet, Start, PassCompleted, RaiseAtCompleted, PassAttempted, StopOnBudget,
                disk, world
  <1>2. CASE AttemptPasses \/ Publish \/ RaiseAtPublish \/ Crash
    BY <1>2 DEF Quiet, AttemptPasses, Publish, RaiseAtPublish, Crash, disk, world
  <1>3. CASE \E t, n : OrphanEnds(t, n)
    BY <1>3 DEF Quiet, OrphanEnds, disk
  <1>4. CASE \E t : Tamper(t)
    BY <1>4 DEF Quiet, Tamper
  <1>5. CASE UNCHANGED vars
    BY <1>5 DEF Quiet, vars, disk, world
  <1>6. QED
    BY <1>1, <1>2, <1>3, <1>4, <1>5

\* Every step is one of these kinds.
LEMMA Kinds ==
    ASSUME Inv, [Next]_vars
    PROVE  \/ Quiet
           \/ Initialise
           \/ Reconciles
           \/ Ends
           \/ next <= Len(Fixtures) /\ Task \in Tasks /\ (Reserves(Task) \/ Settles(Task))
           \/ \E t \in Tasks : \E n \in Nat : Spends(t, n)
  <1>1. CASE Initialise
    BY <1>1
  <1>2. CASE Resume
    BY <1>2, ResumeReconciles
  <1>3. CASE Reserve \/ AttemptFails \/ Record
    <2>1. next <= Len(Fixtures)
      BY <1>3 DEF Inv, AtHand, Trying, Reserve, AtTask, AttemptFails, Record
    <2>2. QED
      BY <1>3, <2>1, TaskFacts, ReserveReserves, AttemptFailsSettles, RecordSettles DEF Inv
  <1>4. CASE Finish
    BY <1>4, FinishEnds
  <1>5. CASE \E child \in children : \E charge \in Charges :
                 ProviderCall(child[1], child[2], charge)
    <2>1. PICK child \in children, charge \in Charges :
              ProviderCall(child[1], child[2], charge)
      BY <1>5
    <2>2. child[1] \in Tasks /\ child[2] \in Nat
      BY DEF Inv, Types
    <2>3. QED
      BY <2>1, <2>2, ProviderCallSpends
  <1>6. CASE \E child \in children : OrphanEnds(child[1], child[2])
    BY <1>6, QuietSteps
  <1>7. CASE \E t \in Tasks : Tamper(t)
    BY <1>7, QuietSteps
  <1>8. CASE \/ Start \/ PassCompleted \/ RaiseAtCompleted \/ PassAttempted \/ StopOnBudget
             \/ AttemptPasses \/ Publish \/ RaiseAtPublish \/ Crash \/ UNCHANGED vars
    BY <1>8, QuietSteps
  <1>9. QED
    BY <1>1, <1>2, <1>3, <1>4, <1>5, <1>6, <1>7, <1>8 DEF Next, SchedulerStep
-----------------------------------------------------------------------------
(***************************************************************************)
(* The invariant, part by part.                                            *)
(***************************************************************************)

\* A process that works on no state is down.
LEMMA LeaveFacts ==
    ASSUME Leave
    PROVE  pc' = "down" /\ state' = NoState /\ next' = 1 /\ attempted' = {} /\ passed' = Missing
  BY DEF Leave

\* No step takes the reservation of a child that is alive off the record.
LEMMA ReservedStep ==
    ASSUME Inv, [Next]_vars
    PROVE  Reserved'
  <1> SUFFICES ASSUME NEW c \in children' \ detached'
               PROVE  /\ saved' # NoState
                      /\ c[2] \in 1 .. Len(saved'.tasks[c[1]].attempts)
                      /\ saved'.tasks[c[1]].attempts[c[2]].debit = Reservation
    BY DEF Reserved, Attempts
  <1>1. \A d \in children \ detached :
            /\ d \in Tasks \X Nat
            /\ saved # NoState /\ saved \in CohortState
            /\ d[2] \in 1 .. Len(Attempts(d[1]))
            /\ Attempts(d[1])[d[2]].debit = Reservation
    BY SavedFacts DEF Inv, Types, Reserved
  <1>2. CASE Quiet \/ \E t \in Tasks : \E n \in Nat : Spends(t, n)
    BY <1>1, <1>2 DEF Quiet, Spends, Attempts
  <1>3. CASE Initialise
    BY <1>1, <1>3 DEF Initialise, world, Inv, Memory
  <1>4. CASE Reconciles
    <2>1. c \in children \ detached /\ saved' # NoState
      BY <1>4, NoneOfThem DEF Reconciles
    <2>2. /\ Len(saved'.tasks[c[1]].attempts) = Len(Attempts(c[1]))
          /\ saved'.tasks[c[1]].attempts[c[2]] = Closed(c[1], c[2], Attempts(c[1])[c[2]])
      BY <1>1, <1>4, <2>1 DEF Reconciles
    <2>3. QED
      BY <1>1, <2>1, <2>2 DEF Closed
  <1>5. CASE Ends
    BY <1>1, <1>5, NoneOfThem DEF Ends, Attempts
  <1>6. CASE Task \in Tasks /\ Reserves(Task)
    <2> DEFINE h == Attempts(Task)
               a == [status |-> "running", usage |-> Nothing, debit |-> Reservation]
               r == Append(h, a)
    <2>1. /\ saved' # NoState /\ saved'.tasks[Task].attempts = r
          /\ \A q \in Tasks \ {Task} : saved'.tasks[q] = saved.tasks[q]
          /\ c \in children \ detached \/ c = <<Task, Len(h) + 1>>
      BY <1>6, NoneOfThem DEF Reserves
    <2>2. h \in Seq(Attempt) /\ a \in Attempt
      BY <1>6, StateFacts, NoneOfThem DEF Reserves, Attempts, Attempt
    <2>3. a.debit = Reservation
      OBVIOUS
    <2> HIDE DEF a, h
    <2>4. Len(r) = Len(h) + 1 /\ Len(h) \in Nat
          /\ r[Len(h) + 1] = a /\ \A n \in 1 .. Len(h) : r[n] = h[n]
      BY <2>2
    <2> HIDE DEF r
    <2>5. CASE c = <<Task, Len(h) + 1>>
      BY <2>1, <2>3, <2>4, <2>5
    <2>6. CASE c \in children \ detached /\ c[1] = Task
      BY <1>1, <2>1, <2>4, <2>6 DEF h
    <2>7. CASE c \in children \ detached /\ c[1] # Task
      BY <1>1, <2>1, <2>7 DEF Attempts
    <2>8. QED
      BY <2>1, <2>5, <2>6, <2>7
  <1>7. CASE Task \in Tasks /\ Settles(Task)
    <2> DEFINE h == Attempts(Task)
               r == saved'.tasks[Task].attempts
    <2>1. /\ saved' # NoState /\ Len(r) = Len(h)
          /\ \A n \in 1 .. Len(h) - 1 : r[n] = h[n]
          /\ \A q \in Tasks \ {Task} : saved'.tasks[q] = saved.tasks[q]
          /\ c \in children \ detached /\ c # <<Task, Len(h)>>
          /\ Len(h) \in Nat
      BY <1>7, NoneOfThem, StateFacts DEF Settles, Attempts
    <2>2. CASE c[1] = Task
      <3>1. c[2] \in 1 .. Len(h) - 1
        <4>1. c = <<c[1], c[2]>> /\ c[2] \in 1 .. Len(h)
          BY <1>1, <2>1, <2>2
        <4>2. c[2] # Len(h)
          BY <2>1, <2>2, <4>1
        <4>3. QED
          BY <2>1, <4>1, <4>2
      <3>2. QED
        BY <1>1, <2>1, <2>2, <3>1
    <2>3. CASE c[1] # Task
      BY <1>1, <2>1, <2>3 DEF Attempts
    <2>4. QED
      BY <2>2, <2>3
  <1>8. QED
    BY <1>2, <1>3, <1>4, <1>5, <1>6, <1>7, Kinds

\* Only running attempts are closed, at their reservation.
LEMMA ClosedFacts ==
    ASSUME NEW t, NEW n, NEW a
    PROVE  /\ a.status = "running" =>
                  Closed(t, n, a).status = "abandoned" /\ Closed(t, n, a).debit = Reservation
           /\ a.status # "running" => Closed(t, n, a) = a
  BY DEF Closed

\* What was settled without its child stays on record as it was settled.
LEMMA DetachmentsStep ==
    ASSUME Inv, [Next]_vars
    PROVE  Detachments'
  <1> SUFFICES ASSUME NEW d \in detached'
               PROVE  /\ saved' # NoState
                      /\ d[2] \in 1 .. Len(saved'.tasks[d[1]].attempts)
                      /\ saved'.tasks[d[1]].attempts[d[2]].status # "running"
    BY DEF Detachments, Attempts
  <1>1. \A e \in detached :
            /\ e \in Tasks \X Nat
            /\ saved # NoState /\ saved \in CohortState
            /\ e[2] \in 1 .. Len(Attempts(e[1]))
            /\ Attempts(e[1])[e[2]].status # "running"
    BY SavedFacts DEF Inv, Types, Detachments
  <1>2. CASE Quiet \/ \E t \in Tasks : \E n \in Nat : Spends(t, n)
    BY <1>1, <1>2 DEF Quiet, Spends, Attempts
  <1>3. CASE Initialise
    BY <1>1, <1>3 DEF Initialise, world, Inv, Memory
  <1>4. CASE Reconciles
    <2>1. d \in detached /\ saved' # NoState
      BY <1>4, NoneOfThem DEF Reconciles
    <2>2. /\ Len(saved'.tasks[d[1]].attempts) = Len(Attempts(d[1]))
          /\ saved'.tasks[d[1]].attempts[d[2]] = Closed(d[1], d[2], Attempts(d[1])[d[2]])
      BY <1>1, <1>4, <2>1 DEF Reconciles
    <2>3. QED
      BY <1>1, <2>1, <2>2, ClosedFacts
  <1>5. CASE Ends
    BY <1>1, <1>5, NoneOfThem DEF Ends, Attempts
  <1>6. CASE Task \in Tasks /\ Reserves(Task)
    <2> DEFINE h == Attempts(Task)
               a == [status |-> "running", usage |-> Nothing, debit |-> Reservation]
               r == Append(h, a)
    <2>1. /\ saved' # NoState /\ saved'.tasks[Task].attempts = r /\ d \in detached
          /\ \A q \in Tasks \ {Task} : saved'.tasks[q] = saved.tasks[q]
      BY <1>6, NoneOfThem DEF Reserves
    <2>2. h \in Seq(Attempt)
      BY <1>6, StateFacts DEF Reserves, Attempts
    <2> HIDE DEF a, h
    <2>3. Len(r) = Len(h) + 1 /\ Len(h) \in Nat /\ \A n \in 1 .. Len(h) : r[n] = h[n]
      BY <2>2
    <2> HIDE DEF r
    <2>4. CASE d[1] = Task
      BY <1>1, <2>1, <2>3, <2>4 DEF h
    <2>5. CASE d[1] # Task
      BY <1>1, <2>1, <2>5 DEF Attempts
    <2>6. QED
      BY <2>4, <2>5
  <1>7. CASE Task \in Tasks /\ Settles(Task)
    <2> DEFINE h == Attempts(Task)
               r == saved'.tasks[Task].attempts
    <2>1. /\ saved' # NoState /\ Len(r) = Len(h) /\ Len(h) > 0
          /\ \A n \in 1 .. Len(h) - 1 : r[n] = h[n]
          /\ r[Len(h)].status # "running"
          /\ \A q \in Tasks \ {Task} : saved'.tasks[q] = saved.tasks[q]
          /\ d \in detached \/ d = <<Task, Len(h)>>
          /\ Len(h) \in Nat
      BY <1>7, NoneOfThem, StateFacts DEF Settles, Attempts
    <2>2. CASE d[1] = Task /\ d[2] = Len(h)
      BY <2>1, <2>2
    <2>3. CASE d \in detached /\ d[1] = Task /\ d[2] # Len(h)
      <3>1. d[2] \in 1 .. Len(h) - 1
        BY <1>1, <2>1, <2>3
      <3>2. QED
        BY <1>1, <2>1, <2>3, <3>1
    <2>4. CASE d \in detached /\ d[1] # Task
      BY <1>1, <2>1, <2>4 DEF Attempts
    <2>5. QED
      BY <2>1, <2>2, <2>3, <2>4
  <1>8. QED
    BY <1>2, <1>3, <1>4, <1>5, <1>6, <1>7, Kinds

\* What OnRecord says of one task, as it is after a step.
Recorded(t) ==
    /\ Len(ledger[t]) = Len(Attempts(t))
    /\ saved.tasks[t].status = "completed" => saved.tasks[t].candidate_sha256 # Missing
    /\ \A n \in 1 .. Len(Attempts(t)) :
           /\ Attempts(t)[n].status = "running" =>
                  /\ n = Len(Attempts(t))
                  /\ Attempts(t)[n].debit = Reservation
                  /\ saved.tasks[t].status = "running"
           /\ \A u \in Units :
                  UpToCap(Counted(t, n), u) <= UpToCap(Attempts(t)[n].debit, u)

\* A task whose record, ledger and children left behind stay as they are.
LEMMA SameRecord ==
    ASSUME NEW t, Recorded(t), saved'.tasks[t] = saved.tasks[t], ledger'[t] = ledger[t],
           \A n : <<t, n>> \in detached' <=> <<t, n>> \in detached
    PROVE  Recorded(t)'
  BY DEF Recorded, Attempts, Counted

\* Closing an abandoned attempt debits what it reported, up to its cap.
LEMMA ReconciledRecord ==
    ASSUME Inv, Reconciles, NEW t \in Tasks, Recorded(t)
    PROVE  Recorded(t)'
  <1>1. CASE t \notin Abandoned(saved)
    BY <1>1, SameRecord DEF Reconciles
  <1>2. CASE t \in Abandoned(saved)
    <2> DEFINE h == Attempts(t)
               r == Attempts(t)'
    <2>1. /\ saved'.tasks[t].status = "failed" /\ Len(r) = Len(h)
          /\ \A n \in 1 .. Len(h) : r[n] = Closed(t, n, h[n])
          /\ ledger' = ledger /\ saved # NoState /\ saved \in CohortState
          /\ detached' = detached
      BY <1>2, NoneOfThem DEF Reconciles, Attempts
    <2>a. \A n : Counted(t, n)' = IF <<t, n>> \in detached THEN r[n].usage
                                 ELSE UsageIn(ledger[t][n])
      BY <2>1 DEF Counted, Attempts
    <2>b. \A n : Counted(t, n) = IF <<t, n>> \in detached THEN h[n].usage
                                ELSE UsageIn(ledger[t][n])
      BY DEF Counted, Attempts
    <2>c. \A n : <<t, n>> \in detached => h[n].status # "running"
      BY DEF Inv, Detachments
    <2> HIDE DEF h, r
    <2>2. ASSUME NEW n \in 1 .. Len(h)
          PROVE  /\ r[n].status # "running"
                 /\ \A u \in Units :
                        UpToCap(Counted(t, n)', u) <= UpToCap(r[n].debit, u)
      <3>1. CASE h[n].status = "running"
        <4>1. r[n].status = "abandoned" /\ r[n].debit = Reservation
          BY <2>1, <3>1, ClosedFacts
        <4>2. UsageIn(ledger[t][n]) \in Amount
          BY <2>1, LedgerFacts, NoneOfThem DEF Inv, h
        <4>3. Counted(t, n)' = UsageIn(ledger[t][n])
          BY <2>a, <2>c, <3>1
        <4>4. QED
          BY <4>1, <4>2, <4>3, CappedFacts
      <3>2. CASE h[n].status # "running"
        <4>1. r[n] = h[n]
          BY <2>1, <3>2, ClosedFacts
        <4>2. Counted(t, n)' = Counted(t, n)
          BY <2>a, <2>b, <4>1
        <4>3. \A u \in Units : UpToCap(Counted(t, n), u) <= UpToCap(h[n].debit, u)
          BY DEF Recorded, h
        <4>4. QED
          BY <3>2, <4>1, <4>2, <4>3
      <3>3. QED
        BY <3>1, <3>2
    <2>3. Len(ledger[t]) = Len(h)
      BY DEF Recorded, h
    <2>4. QED
      BY <2>1, <2>2, <2>3 DEF Recorded, r
  <1>3. QED
    BY <1>1, <1>2

\* A new attempt is its task's last, with an empty ledger and a full reservation.
LEMMA ReservedRecord ==
    ASSUME Inv, NEW t \in Tasks, Reserves(t), Recorded(t)
    PROVE  Recorded(t)'
  <1> DEFINE h == Attempts(t)
             l == ledger[t]
             a == [status |-> "running", usage |-> Nothing, debit |-> Reservation]
             r == Append(h, a)
             k == Append(l, NoLedger)
  <1>1. saved \in CohortState /\ saved # NoState
    BY NoneOfThem DEF Reserves
  <1>2. /\ saved'.tasks[t].attempts = r /\ saved'.tasks[t].status = "running"
        /\ ledger'[t] = k
    BY DEF Reserves, Inv, Types
  <1>a. \A n : Counted(t, n)' = IF <<t, n>> \in detached THEN r[n].usage ELSE UsageIn(k[n])
    <2>1. detached' = detached
      BY DEF Reserves
    <2> HIDE DEF r, k
    <2>2. QED
      BY <1>2, <2>1 DEF Counted
  <1>b. \A n : Counted(t, n) = IF <<t, n>> \in detached THEN h[n].usage ELSE UsageIn(l[n])
    BY DEF Counted, Attempts
  <1>c. \A n : <<t, n>> \in detached => n \in 1 .. Len(h)
    BY DEF Inv, Detachments
  <1>3. h \in Seq(Attempt) /\ a \in Attempt /\ l \in Seq({NoLedger} \cup Amount)
        /\ Len(l) = Len(h)
    BY <1>1, StateFacts, SavedFacts, NoneOfThem DEF Attempt, Recorded, Attempts, Inv
  <1>4. a.status = "running" /\ a.debit = Reservation
    OBVIOUS
  <1>5. \A n \in 1 .. Len(h) :
           /\ h[n].status # "running"
           /\ \A u \in Units : UpToCap(Counted(t, n), u) <= UpToCap(h[n].debit, u)
    BY DEF Reserves, Recorded
  <1> HIDE DEF h, a, l
  <1>6. /\ Len(h) \in Nat /\ Len(r) = Len(h) + 1 /\ Len(k) = Len(h) + 1
        /\ r[Len(h) + 1] = a /\ k[Len(h) + 1] = NoLedger
        /\ \A n \in 1 .. Len(h) : r[n] = h[n] /\ k[n] = l[n]
    BY <1>3
  <1> HIDE DEF r, k
  <1>7. UsageIn(NoLedger) = Nothing
    BY DEF UsageIn
  <1>8. \A u \in Units : UpToCap(Nothing, u) <= UpToCap(Reservation, u)
    BY NoneOfThem, CappedFacts
  <1>9. ASSUME NEW n \in 1 .. Len(r)
        PROVE  /\ r[n].status = "running" => n = Len(r) /\ r[n].debit = Reservation
               /\ \A u \in Units : UpToCap(Counted(t, n)', u) <= UpToCap(r[n].debit, u)
    <2>1. CASE n = Len(h) + 1
      <3>1. <<t, n>> \notin detached
        <4>1. n \notin 1 .. Len(h)
          BY <1>6, <2>1
        <4>2. QED
          BY <1>c, <4>1
      <3>2. Counted(t, n)' = Nothing
        BY <1>a, <1>6, <1>7, <2>1, <3>1
      <3>3. QED
        BY <1>4, <1>6, <1>8, <2>1, <3>2
    <2>2. CASE n \in 1 .. Len(h)
      <3>1. Counted(t, n)' = Counted(t, n)
        BY <1>a, <1>b, <1>6, <2>2
      <3>2. QED
        BY <1>5, <1>6, <2>2, <3>1
    <2>3. QED
      BY <1>6, <2>1, <2>2
  <1>10. QED
    BY <1>2, <1>6, <1>9 DEF Recorded, Attempts

\* Settling an attempt debits no less, up to the cap, than its ledger reports.
LEMMA SettledRecord ==
    ASSUME Inv, NEW t \in Tasks, Settles(t), Recorded(t)
    PROVE  Recorded(t)'
  <1> DEFINE h == Attempts(t)
             r == saved'.tasks[t].attempts
  <1>1. saved \in CohortState /\ saved # NoState /\ Len(h) \in Nat
    BY NoneOfThem, StateFacts DEF Settles, Attempts
  <1>2. /\ Len(r) = Len(h) /\ ledger' = ledger
        /\ \A n \in 1 .. Len(h) - 1 : r[n] = h[n]
        /\ r[Len(h)].status # "running"
        /\ \A u \in Units :
               UpToCap(UsageIn(ledger[t][Len(h)]), u) <= UpToCap(r[Len(h)].debit, u)
        /\ saved'.tasks[t].status = "completed" => saved'.tasks[t].candidate_sha256 # Missing
        /\ r[Len(h)].usage = UsageIn(ledger[t][Len(h)])
        /\ detached \subseteq detached' /\ detached' \subseteq detached \cup {<<t, Len(h)>>}
    BY DEF Settles
  <1>a. \A n : Counted(t, n)' = IF <<t, n>> \in detached' THEN r[n].usage
                               ELSE UsageIn(ledger[t][n])
    BY <1>2 DEF Counted
  <1>b. \A n : Counted(t, n) = IF <<t, n>> \in detached THEN h[n].usage
                              ELSE UsageIn(ledger[t][n])
    BY DEF Counted, Attempts
  <1>3. Len(ledger[t]) = Len(h) /\
        \A n \in 1 .. Len(h) :
           /\ h[n].status = "running" => n = Len(h)
           /\ \A u \in Units : UpToCap(Counted(t, n), u) <= UpToCap(h[n].debit, u)
    BY DEF Recorded
  <1> HIDE DEF h, r
  <1>4. ASSUME NEW n \in 1 .. Len(r)
        PROVE  /\ r[n].status # "running"
               /\ \A u \in Units : UpToCap(Counted(t, n)', u) <= UpToCap(r[n].debit, u)
    <2>1. CASE n = Len(h)
      <3>1. Counted(t, n)' = UsageIn(ledger[t][n])
        BY <1>2, <1>a, <2>1
      <3>2. QED
        BY <1>2, <2>1, <3>1
    <2>2. CASE n # Len(h)
      <3>1. n \in 1 .. Len(h) - 1 /\ n \in 1 .. Len(h)
        BY <1>1, <1>2, <2>2
      <3>2. <<t, n>> \in detached' <=> <<t, n>> \in detached
        <4>1. <<t, n>> # <<t, Len(h)>>
          BY <2>2
        <4>2. QED
          BY <1>2, <4>1
      <3>3. r[n] = h[n]
        BY <1>2, <3>1
      <3>4. Counted(t, n)' = Counted(t, n)
        BY <1>a, <1>b, <3>2, <3>3
      <3>5. QED
        BY <1>3, <2>2, <3>1, <3>3, <3>4
    <2>3. QED
      BY <2>1, <2>2
  <1>5. QED
    BY <1>2, <1>3, <1>4 DEF Recorded, Attempts, r

\* A child's report stays, up to the cap, below the reservation it was given; what
\* a child left behind reports does not count.
LEMMA SpentRecord ==
    ASSUME Inv, NEW c \in Tasks, NEW m \in Nat, Spends(c, m), NEW t \in Tasks, Recorded(t),
           saved # NoState
    PROVE  Recorded(t)'
  <1>1. PICK total \in Amount : ledger' = [ledger EXCEPT ![c][m] = total]
    BY DEF Spends
  <1>2. CASE t # c
    BY <1>1, <1>2, SameRecord DEF Spends, Inv, Types
  <1>3. CASE t = c
    <2> DEFINE h == Attempts(t)
               l == ledger[t]
               k == ledger'[t]
    <2>1. /\ m \in 1 .. Len(h)
          /\ <<t, m>> \notin detached => h[m].debit = Reservation
          /\ saved' = saved
      BY <1>3, ChildFacts DEF Spends, Inv, Reserved
    <2>a. \A n : Counted(t, n)' = IF <<t, n>> \in detached THEN h[n].usage ELSE UsageIn(k[n])
      BY DEF Counted, Spends, Attempts
    <2>b. \A n : Counted(t, n) = IF <<t, n>> \in detached THEN h[n].usage ELSE UsageIn(l[n])
      BY DEF Counted, Attempts
    <2>2. /\ l \in Seq({NoLedger} \cup Amount) /\ Len(l) = Len(h) /\ Len(h) \in Nat
      BY SavedFacts, LedgerFacts DEF Inv
    <2>3. k = [l EXCEPT ![m] = total]
      BY <1>1, <1>3 DEF Inv, Types
    <2>4. \A n \in 1 .. Len(h) : \A u \in Units :
              UpToCap(Counted(t, n), u) <= UpToCap(h[n].debit, u)
      BY DEF Recorded
    <2> HIDE DEF h, l, k
    <2>5. Len(k) = Len(h) /\ k[m] = total /\ \A n \in 1 .. Len(h) : n # m => k[n] = l[n]
      BY <2>1, <2>2, <2>3
    <2>6. \A u \in Units : UpToCap(UsageIn(total), u) <= UpToCap(Reservation, u)
      <3>1. UsageIn(total) = total
        BY NoneOfThem DEF UsageIn
      <3>2. QED
        BY <3>1, CappedFacts
    <2>7. ASSUME NEW n \in 1 .. Len(h), NEW u \in Units
          PROVE  UpToCap(Counted(t, n)', u) <= UpToCap(h[n].debit, u)
      <3>1. CASE n = m /\ <<t, m>> \notin detached
        BY <2>1, <2>5, <2>6, <2>a, <3>1
      <3>2. CASE n # m \/ <<t, m>> \in detached
        BY <2>4, <2>5, <2>a, <2>b, <3>2
      <3>3. QED
        BY <3>1, <3>2
    <2>8. QED
      BY <2>1, <2>5, <2>7 DEF Recorded, Attempts, h, k
  <1>4. QED
    BY <1>2, <1>3

\* Every step keeps ledgers and attempts side by side, reports within debits.
LEMMA OnRecordStep ==
    ASSUME Inv, [Next]_vars
    PROVE  OnRecord'
  <1> SUFFICES ASSUME saved' # NoState, NEW t \in Tasks PROVE Recorded(t)'
    BY DEF OnRecord, Recorded, Attempts
  <1>1. saved # NoState => Recorded(t)
    BY DEF Inv, OnRecord, Recorded
  <1>2. CASE Quiet
    BY <1>1, <1>2, SameRecord DEF Quiet
  <1>3. CASE Initialise
    <2>1. /\ saved'.tasks[t].attempts = <<>> /\ saved'.tasks[t].status = "pending"
          /\ ledger'[t] = <<>>
      BY <1>3 DEF Initialise, InitialState, Inv, Memory, NothingYet
    <2>2. QED
      BY <2>1 DEF Recorded, Attempts
  <1>4. CASE Reconciles
    BY <1>1, <1>4, NoneOfThem, ReconciledRecord DEF Reconciles
  <1>5. CASE Ends
    BY <1>1, <1>5, NoneOfThem, SameRecord DEF Ends
  <1>6. CASE Task \in Tasks /\ Reserves(Task)
    <2>1. saved # NoState
      BY <1>6, NoneOfThem DEF Reserves
    <2>2. CASE t = Task
      BY <1>1, <1>6, <2>1, <2>2, ReservedRecord
    <2>3. CASE t # Task
      BY <1>1, <1>6, <2>1, <2>3, SameRecord DEF Reserves, Inv, Types
    <2>4. QED
      BY <2>2, <2>3
  <1>7. CASE Task \in Tasks /\ Settles(Task)
    <2>1. saved # NoState
      BY <1>7, NoneOfThem DEF Settles
    <2>2. CASE t = Task
      BY <1>1, <1>7, <2>1, <2>2, SettledRecord
    <2>3. CASE t # Task
      BY <1>1, <1>7, <2>1, <2>3, SameRecord DEF Settles
    <2>4. QED
      BY <2>2, <2>3
  <1>8. CASE \E c \in Tasks : \E n \in Nat : Spends(c, n)
    BY <1>1, <1>8, SpentRecord, ChildFacts DEF Spends, Inv
  <1>9. QED
    BY <1>2, <1>3, <1>4, <1>5, <1>6, <1>7, <1>8, Kinds

\* No ledger is written before the first cohort.json.
LEMMA NothingYetStep ==
    ASSUME Inv, [Next]_vars
    PROVE  NothingYet'
  <1>1. CASE Quiet
    BY <1>1 DEF Quiet, Inv, NothingYet
  <1>2. CASE Initialise \/ Reconciles \/ Ends
    BY <1>2, NoneOfThem DEF Initialise, InitialState, NoState, Reconciles, Ends, NothingYet
  <1>3. CASE Reserves(Task) \/ Settles(Task)
    BY <1>3, NoneOfThem DEF Reserves, Settles, NothingYet
  <1>4. CASE \E c \in Tasks : \E n \in Nat : Spends(c, n)
    BY <1>4, ChildFacts DEF Spends, Inv, NothingYet
  <1>5. QED
    BY <1>1, <1>2, <1>3, <1>4, Kinds

\* Smaller debits of the same attempts have the smaller sum.
LEMMA CappedMonotone ==
    ASSUME NEW s \in CohortState, NEW z \in CohortState, NEW u \in Units,
           \A t \in Tasks :
               /\ Len(z.tasks[t].attempts) = Len(s.tasks[t].attempts)
               /\ \A n \in 1 .. Len(s.tasks[t].attempts) :
                      UpToCap(z.tasks[t].attempts[n].debit, u)
                        <= UpToCap(s.tasks[t].attempts[n].debit, u)
    PROVE  SumAll(CappedDebits(z, u), Fixtures) <= SumAll(CappedDebits(s, u), Fixtures)
  <1> DEFINE f == CappedDebits(z, u)
             g == CappedDebits(s, u)
  <1>1. ASSUME NEW t \in Tasks
        PROVE  /\ f[t] \in Seq(Nat) /\ g[t] \in Seq(Nat) /\ Len(f[t]) = Len(g[t])
               /\ \A n \in 1 .. Len(f[t]) : f[t][n] <= g[t][n]
    BY CappedRows
  <1> HIDE DEF f, g
  <1>2. QED
    BY <1>1, FixtureFacts, SumAllMonotone DEF f, g

\* Counting up to the cap counts no more than the debits.
LEMMA CappedWithinDebited ==
    ASSUME NEW s \in CohortState, NEW u \in Units
    PROVE  /\ SumAll(CappedDebits(s, u), Fixtures) <= Debited(s, u)
           /\ SumAll(CappedDebits(s, u), Fixtures) \in Nat /\ Debited(s, u) \in Nat
  <1> DEFINE f == CappedDebits(s, u)
             g == Debits(s, u)
  <1>1. ASSUME NEW t \in Tasks
        PROVE  /\ f[t] \in Seq(Nat) /\ g[t] \in Seq(Nat) /\ Len(f[t]) = Len(g[t])
               /\ \A n \in 1 .. Len(f[t]) : f[t][n] <= g[t][n]
    <2> DEFINE h == s.tasks[t].attempts
    <2>1. /\ f[t] \in Seq(Nat) /\ Len(f[t]) = Len(h)
          /\ \A n \in 1 .. Len(h) : f[t][n] = UpToCap(h[n].debit, u)
      BY CappedRows
    <2>2. /\ g[t] \in Seq(Nat) /\ Len(g[t]) = Len(h)
          /\ \A n \in 1 .. Len(h) : g[t][n] = h[n].debit[u]
      BY DebitRows
    <2>3. \A n \in 1 .. Len(h) : UpToCap(h[n].debit, u) <= h[n].debit[u]
      BY StateFacts, CappedFacts
    <2> HIDE DEF f, g, h
    <2>4. QED
      BY <2>1, <2>2, <2>3
  <1> HIDE DEF f, g
  <1>2. QED
    BY <1>1, FixtureFacts, SumAllMonotone, SumAllType DEF f, g, Debited

\* The admission check leaves room for the reservation it admits.
LEMMA ReservationAdmitted ==
    ASSUME Inv, NEW t \in Tasks, Reserves(t), NEW u \in Units
    PROVE  SumAll(CappedDebits(saved', u), Fixtures) <= Budget[u]
  <1> DEFINE f == CappedDebits(saved, u)
             g == CappedDebits(saved', u)
             h == Attempts(t)
             a == [status |-> "running", usage |-> Nothing, debit |-> Reservation]
             r == Append(h, a)
  <1>1. /\ saved \in CohortState /\ saved' \in CohortState
        /\ saved'.tasks[t].attempts = r
        /\ \A q \in Tasks \ {t} : saved'.tasks[q] = saved.tasks[q]
        /\ Debited(saved, u) + Reservation[u] <= Budget[u]
    BY DEF Reserves
  <1>2. h \in Seq(Attempt) /\ a \in Attempt /\ a.debit = Reservation
    BY <1>1, StateFacts, NoneOfThem DEF Attempts, Attempt
  <1>3. \A q \in Tasks : f[q] \in Seq(Nat) /\ g[q] \in Seq(Nat)
    BY <1>1, CappedRows
  <1>4. \A q \in Tasks \ {t} : f[q] = g[q]
    BY <1>1 DEF CappedDebits
  <1>5. Reservation[u] \in Nat /\ UpToCap(Reservation, u) = Reservation[u]
    BY NoneOfThem, CappedFacts
  <1>6. g[t] = Append(f[t], Reservation[u])
    <2>1. /\ Len(f[t]) = Len(h) /\ \A n \in 1 .. Len(h) : f[t][n] = UpToCap(h[n].debit, u)
          /\ Len(g[t]) = Len(r) /\ \A n \in 1 .. Len(r) : g[t][n] = UpToCap(r[n].debit, u)
      <3> DEFINE k == saved'.tasks[t].attempts
      <3>1. Len(f[t]) = Len(h) /\ \A n \in 1 .. Len(h) : f[t][n] = UpToCap(h[n].debit, u)
        BY <1>1, CappedRows DEF Attempts
      <3>2. Len(g[t]) = Len(k) /\ \A n \in 1 .. Len(k) : g[t][n] = UpToCap(k[n].debit, u)
        BY <1>1, CappedRows
      <3>3. k = r
        BY <1>1
      <3> HIDE DEF f, g, h, r, k
      <3>4. QED
        BY <3>1, <3>2, <3>3
    <2> HIDE DEF f, g, h, a
    <2>2. /\ Len(h) \in Nat /\ Len(r) = Len(h) + 1 /\ r[Len(h) + 1] = a
          /\ \A n \in 1 .. Len(h) : r[n] = h[n]
      BY <1>2
    <2> HIDE DEF r
    <2> DEFINE fr == f[t]
               gr == g[t]
    <2>3. fr \in Seq(Nat) /\ gr \in Seq(Nat)
      BY <1>3
    <2>4. /\ Len(fr) = Len(h) /\ Len(gr) = Len(h) + 1 /\ gr[Len(h) + 1] = Reservation[u]
          /\ \A n \in 1 .. Len(h) : gr[n] = fr[n]
      BY <1>2, <1>5, <2>1, <2>2
    <2> HIDE DEF fr, gr
    <2>5. gr = Append(fr, Reservation[u])
      BY <1>5, <2>2, <2>3, <2>4
    <2>6. QED
      BY <2>5 DEF fr, gr
  <1>7. SumSeq(g[t]) = SumSeq(f[t]) - 0 + Reservation[u]
    <2> HIDE DEF f, g
    <2>1. SumSeq(f[t]) \in Nat /\ SumSeq(Append(f[t], Reservation[u])) = SumSeq(f[t]) + Reservation[u]
      BY <1>3, <1>5, SumSeqType, SumSeqAppend
    <2>2. QED
      BY <1>5, <1>6, <2>1
  <1>8. PICK j \in 1 .. Len(Fixtures) : Fixtures[j] = t
    BY FixtureFacts
  <1>9. SumAll(g, Fixtures) = SumAll(f, Fixtures) - 0 + Reservation[u]
    <2> HIDE DEF f, g
    <2>1. \A i \in 1 .. Len(Fixtures) :
              /\ f[Fixtures[i]] \in Seq(Nat) /\ g[Fixtures[i]] \in Seq(Nat)
              /\ i # j => f[Fixtures[i]] = g[Fixtures[i]]
      BY <1>3, <1>4, <1>8, FixtureFacts
    <2>2. QED
      BY <1>5, <1>7, <1>8, <2>1, FixtureFacts, SumAllChanged
  <1>10. SumAll(f, Fixtures) \in Nat /\ SumAll(f, Fixtures) <= Debited(saved, u)
         /\ Debited(saved, u) \in Nat
    BY <1>1, CappedWithinDebited
  <1>11. Budget[u] \in Nat
    BY ConfigAssumption DEF Amount
  <1> HIDE DEF f
  <1>12. QED
    BY <1>1, <1>5, <1>9, <1>10, <1>11

\* The debits of two saved states: the second is not larger.
LEMMA StaysWithinBudget ==
    ASSUME Types, DebitsWithinBudget, saved \in CohortState, saved' \in CohortState,
           NEW u \in Units,
           \A t \in Tasks :
               /\ Len(saved'.tasks[t].attempts) = Len(saved.tasks[t].attempts)
               /\ \A n \in 1 .. Len(saved.tasks[t].attempts) :
                      UpToCap(saved'.tasks[t].attempts[n].debit, u)
                        <= UpToCap(saved.tasks[t].attempts[n].debit, u)
    PROVE  SumAll(CappedDebits(saved', u), Fixtures) <= Budget[u]
  <1>1. SumAll(CappedDebits(saved, u), Fixtures) <= Budget[u]
    BY NoneOfThem DEF DebitsWithinBudget
  <1>2. SumAll(CappedDebits(saved', u), Fixtures) <= SumAll(CappedDebits(saved, u), Fixtures)
    BY CappedMonotone
  <1>3. SumAll(CappedDebits(saved, u), Fixtures) \in Nat
        /\ SumAll(CappedDebits(saved', u), Fixtures) \in Nat /\ Budget[u] \in Nat
    BY CappedWithinDebited, ConfigAssumption DEF Amount
  <1>4. QED
    BY <1>1, <1>2, <1>3

\* Only a reservation adds to the debits, and it was admitted (_reserve_allowed).
LEMMA BudgetStep ==
    ASSUME Inv, [Next]_vars
    PROVE  DebitsWithinBudget'
  <1> SUFFICES ASSUME saved' # NoState, NEW u \in Units
               PROVE  SumAll(CappedDebits(saved', u), Fixtures) <= Budget[u]
    BY DEF DebitsWithinBudget
  <1> USE DEF Inv
  <1>1. CASE Quiet \/ \E t \in Tasks : \E n \in Nat : Spends(t, n)
    BY <1>1 DEF Quiet, Spends, DebitsWithinBudget
  <1>2. CASE Initialise
    <2>1. \A t \in Tasks : CappedDebits(saved', u)[t] = <<>>
      BY <1>2 DEF Initialise, InitialState, CappedDebits
    <2>2. SumAll(CappedDebits(saved', u), Fixtures) = 0
      BY <2>1, FixtureFacts, SumAllEmpty
    <2>3. QED
      BY <2>2, ConfigAssumption DEF Amount
  <1>3. CASE Reconciles
    <2>1. ASSUME NEW t \in Tasks, NEW n \in 1 .. Len(Attempts(t))
          PROVE  UpToCap(saved'.tasks[t].attempts[n].debit, u) <= UpToCap(Attempts(t)[n].debit, u)
      <3>1. saved'.tasks[t].attempts[n] = Closed(t, n, Attempts(t)[n])
        BY <1>3 DEF Reconciles
      <3>2. Attempts(t)[n].status = "running" => Attempts(t)[n].debit = Reservation
        BY <1>3, NoneOfThem DEF Reconciles, OnRecord
      <3>3. saved'.tasks[t].attempts[n].debit = Attempts(t)[n].debit
        BY <3>1, <3>2, ClosedFacts
      <3>4. Attempts(t)[n].debit \in Amount
        BY <1>3, StateFacts DEF Reconciles, Attempts
      <3>5. QED
        BY <3>3, <3>4, CappedFacts
    <2>2. QED
      BY <1>3, <2>1, StaysWithinBudget DEF Reconciles, Attempts
  <1>4. CASE Ends
    <2>1. CappedDebits(saved', u) = CappedDebits(saved, u)
      BY <1>4 DEF Ends, CappedDebits
    <2>2. QED
      BY <1>4, <2>1, NoneOfThem DEF Ends, DebitsWithinBudget
  <1>5. CASE Task \in Tasks /\ Reserves(Task)
    BY <1>5, ReservationAdmitted
  <1>6. CASE Task \in Tasks /\ Settles(Task)
    <2>1. /\ saved \in CohortState /\ saved # NoState /\ saved' \in CohortState
          /\ Len(Attempts(Task)) > 0
          /\ Attempts(Task)[Len(Attempts(Task))].status = "running"
      BY <1>6, NoneOfThem DEF Settles
    <2>2. ASSUME NEW t \in Tasks, NEW n \in 1 .. Len(Attempts(t))
          PROVE  UpToCap(saved'.tasks[t].attempts[n].debit, u) <= UpToCap(Attempts(t)[n].debit, u)
      <3>1. /\ Len(Attempts(t)) \in Nat
            /\ Attempts(t)[n].debit \in Amount
            /\ Len(saved'.tasks[t].attempts) = Len(Attempts(t))
        BY <1>6, <2>1, StateFacts DEF Settles, Attempts
      <3>2. CASE t = Task /\ n = Len(Attempts(t))
        <4>1. Attempts(t)[n].debit = Reservation
          BY <2>1, <3>2 DEF OnRecord
        <4>2. saved'.tasks[t].attempts[n].debit \in Amount
          BY <2>1, <3>1, StateFacts
        <4>3. QED
          BY <4>1, <4>2, CappedFacts
      <3>3. CASE ~(t = Task /\ n = Len(Attempts(t)))
        <4>1. saved'.tasks[t].attempts[n] = Attempts(t)[n]
          <5>1. CASE t # Task
            BY <1>6, <5>1 DEF Settles, Attempts
          <5>2. CASE t = Task
            <6>1. n \in 1 .. Len(Attempts(t)) - 1
              BY <3>1, <3>3, <5>2
            <6>2. QED
              BY <1>6, <5>2, <6>1 DEF Settles
          <5>3. QED
            BY <5>1, <5>2
        <4>2. QED
          BY <3>1, <4>1, CappedFacts
      <3>4. QED
        BY <3>2, <3>3
    <2>3. \A t \in Tasks : Len(saved'.tasks[t].attempts) = Len(saved.tasks[t].attempts)
      BY <1>6 DEF Settles, Attempts
    <2>4. QED
      BY <2>1, <2>2, <2>3, StaysWithinBudget DEF Attempts
  <1>7. QED
    BY <1>1, <1>2, <1>3, <1>4, <1>5, <1>6, Kinds

\* Steps of the world, and no step at all.
Bystander ==
    \/ \E c \in children : \E charge \in Charges : ProviderCall(c[1], c[2], charge)
    \/ \E c \in children : OrphanEnds(c[1], c[2])
    \/ \E t \in Tasks : Tamper(t)
    \/ UNCHANGED vars

\* They change nothing the process has or has saved.
LEMMA BystanderFacts ==
    ASSUME Bystander
    PROVE  UNCHANGED <<pc, state, saved, next, attempted, passed, starts>>
           /\ children' \subseteq children
  <1>1. CASE \E c \in children : \E charge \in Charges : ProviderCall(c[1], c[2], charge)
    BY <1>1 DEF ProviderCall, process, world
  <1>2. CASE \E c \in children : OrphanEnds(c[1], c[2])
    BY <1>2 DEF OrphanEnds, disk, process
  <1>3. CASE \E t \in Tasks : Tamper(t)
    BY <1>3 DEF Tamper, process
  <1>4. CASE UNCHANGED vars
    BY <1>4 DEF vars, disk, process, world
  <1>5. QED
    BY <1>1, <1>2, <1>3, <1>4 DEF Bystander

\* Every step keeps memory and disk as the point of the start says.
LEMMA MemoryStep ==
    ASSUME Inv, [Next]_vars
    PROVE  Memory'
  <1> USE FixtureFacts, NoneOfThem DEF Inv, Types, Phases, Memory
  <1>1. CASE Start
    BY <1>1 DEF Start
  <1>2. CASE Initialise
    <2>1. InitialState # NoState
      BY DEF InitialState, NoState
    <2>2. QED
      BY <1>2, <2>1 DEF Initialise
  <1>3. CASE Resume
    BY <1>3, ResumeReconciles DEF Resume, Reconciles
  <1>4. CASE PassCompleted \/ PassAttempted
    BY <1>4 DEF PassCompleted, PassAttempted, AtTask, disk
  <1>5. CASE RaiseAtCompleted \/ RaiseAtPublish \/ Crash
    BY <1>5, LeaveFacts DEF RaiseAtCompleted, RaiseAtPublish, Crash, AtTask, disk
  <1>6. CASE StopOnBudget
    <2> DEFINE z == IF "token" \in Exceeded THEN "stopped_token_budget" ELSE "stopped_cost_budget"
    <2>1. /\ state' = [state EXCEPT !.status = z] /\ pc' = "finish"
          /\ next' = next /\ attempted' = attempted /\ saved' = saved
          /\ pc = "loop" /\ next <= Len(Fixtures) /\ ~IsCompleted(Task) /\ state = saved
      BY <1>6 DEF StopOnBudget, AtTask, disk
    <2>2. z \in {"stopped_token_budget", "stopped_cost_budget"}
      OBVIOUS
    <2> HIDE DEF z
    <2>3. state \in CohortState /\ saved.status = "running" /\ saved # NoState
      BY <2>1
    <2>4. state' \in CohortState /\ state'.tasks = saved.tasks /\ state'.status = z
      BY <2>1, <2>2, <2>3 DEF CohortState
    <2>5. ~IsCompleted(Task)' /\ state' # NoState /\ z # "completed"
      BY <2>1, <2>2, <2>4 DEF IsCompleted, Task
    <2>6. QED
      BY <2>1, <2>3, <2>4, <2>5
  <1>7. CASE Reserve
    BY <1>7, ReserveReserves DEF Reserve, Reserves, AtTask
  <1>8. CASE AttemptFails
    BY <1>8, AttemptFailsSettles DEF AttemptFails, Settles, AtHand, Trying
  <1>9. CASE AttemptPasses
    BY <1>9, AttemptPassesInMemory DEF AttemptPasses, disk, AtHand, Trying
  <1>10. CASE Publish
    BY <1>10 DEF Publish
  <1>11. CASE Record
    BY <1>11, RecordSettles DEF Record, Settles
  <1>12. CASE Finish
    BY <1>12, FinishEnds, LeaveFacts DEF Finish, Ends
  <1>13. CASE Bystander
    <2>1. UNCHANGED <<pc, state, saved, next, attempted>>
      BY <1>13, BystanderFacts
    <2>2. QED
      BY <2>1 DEF IsCompleted, Task
  <1>14. QED
    BY <1>1, <1>2, <1>3, <1>4, <1>5, <1>6, <1>7, <1>8, <1>9, <1>10, <1>11, <1>12, <1>13
       DEF Next, SchedulerStep, Bystander

\* Every step keeps the attempt at hand the last one of its task.
LEMMA AtHandStep ==
    ASSUME Inv, [Next]_vars
    PROVE  AtHand'
  <1> USE DEF AtHand, Trying
  <1>1. CASE \/ Start \/ Initialise \/ Resume \/ PassCompleted \/ RaiseAtCompleted
             \/ PassAttempted \/ StopOnBudget \/ AttemptFails \/ RaiseAtPublish
             \/ Record \/ Finish \/ Crash
    <2>1. pc' \notin {"baseline", "publish", "record"}
      BY <1>1, LeaveFacts
         DEF Start, Initialise, Resume, PassCompleted, RaiseAtCompleted, PassAttempted,
             StopOnBudget, AttemptFails, RaiseAtPublish, Record, Finish, Crash, AtTask
    <2>2. QED
      BY <2>1
  <1>2. CASE Reserve
    <2> DEFINE h == Attempts(Task)
               a == [status |-> "running", usage |-> Nothing, debit |-> Reservation]
    <2>1. /\ pc' = "baseline" /\ next' = next /\ next <= Len(Fixtures)
          /\ Task \in attempted' /\ saved \in CohortState /\ Task \in Tasks
          /\ saved'.tasks[Task].status = "running"
          /\ saved'.tasks[Task].attempts = Append(h, a)
      BY <1>2, ReserveReserves, TaskFacts DEF Reserve, Reserves, AtTask, Inv
    <2>2. h \in Seq(Attempt) /\ a \in Attempt /\ a.status = "running"
      BY <2>1, StateFacts, NoneOfThem DEF Attempts, Attempt
    <2> HIDE DEF h, a
    <2>3. Len(Append(h, a)) > 0 /\ Append(h, a)[Len(Append(h, a))] = a
      BY <2>2
    <2>4. Task' = Task /\ Attempts(Task)' = Append(h, a)
      BY <2>1 DEF Task, Attempts
    <2>5. QED
      BY <2>1, <2>2, <2>3, <2>4
  <1>3. CASE AttemptPasses
    <2>1. pc' = "publish" /\ saved' = saved /\ next' = next /\ attempted' = attempted
          /\ pc = "baseline"
      BY <1>3 DEF AttemptPasses, disk
    <2>2. Task' = Task /\ Attempts(Task)' = Attempts(Task)
      BY <2>1 DEF Task, Attempts
    <2>3. QED
      BY <1>3, <2>1, <2>2, AttemptPassesInMemory DEF Inv
  <1>4. CASE Publish
    <2>1. UNCHANGED <<saved, state, next, attempted, children>> /\ pc = "publish"
          /\ pc' = "record"
      BY <1>4 DEF Publish, world
    <2>2. Task' = Task /\ Attempts(Task)' = Attempts(Task)
      BY <2>1 DEF Task, Attempts
    <2>3. QED
      BY <2>1, <2>2 DEF Inv
  <1>5. CASE Bystander
    <2>1. UNCHANGED <<pc, state, saved, next, attempted>> /\ children' \subseteq children
      BY <1>5, BystanderFacts
    <2>2. Task' = Task /\ Attempts(Task)' = Attempts(Task)
      BY <2>1 DEF Task, Attempts
    <2>3. QED
      BY <2>1, <2>2 DEF Inv
  <1>6. QED
    BY <1>1, <1>2, <1>3, <1>4, <1>5 DEF Next, SchedulerStep, Bystander

\* Nothing a start works on is running but its attempt at hand.
LEMMA RunningStep ==
    ASSUME Inv, [Next]_vars
    PROVE  RunningIsAtHand'
  <1> SUFFICES ASSUME state' # NoState, NEW t \in Tasks, NEW n \in 1 .. Len(saved'.tasks[t].attempts),
                      saved'.tasks[t].attempts[n].status = "running"
               PROVE  Trying' /\ t = Task'
    BY DEF RunningIsAtHand, Attempts
  <1>1. CASE Start \/ Initialise \/ RaiseAtCompleted \/ RaiseAtPublish \/ Finish \/ Crash
    <2>1. pc' \in {"down", "initialise", "resume"}
      BY <1>1, LeaveFacts
         DEF Start, Initialise, RaiseAtCompleted, RaiseAtPublish, Finish, Crash
    <2>2. QED
      BY <2>1, MemoryStep DEF Memory
  <1>2. CASE Resume
    <2>1. Reconciles
      BY <1>2, ResumeReconciles
    <2>2. /\ n \in 1 .. Len(Attempts(t))
          /\ saved'.tasks[t].attempts[n] = Closed(t, n, Attempts(t)[n])
      BY <2>1 DEF Reconciles
    <2>3. QED
      BY <2>2, ClosedFacts
  <1>3. CASE \/ PassCompleted \/ PassAttempted \/ StopOnBudget
    <2>1. saved' = saved /\ pc = "loop"
      BY <1>3 DEF PassCompleted, PassAttempted, StopOnBudget, AtTask, disk
    <2>2. state # NoState
      BY <2>1 DEF Inv, Memory
    <2>3. QED
      BY <2>1, <2>2 DEF Inv, RunningIsAtHand, Trying, Attempts
  <1>4. CASE Reserve
    <2>1. Reserves(Task) /\ pc = "loop" /\ pc' = "baseline" /\ next' = next
      BY <1>4, ReserveReserves DEF Reserve, AtTask
    <2>2. state # NoState
      BY <2>1 DEF Inv, Memory
    <2>3. t = Task
      BY <2>1, <2>2 DEF Reserves, Inv, RunningIsAtHand, Trying, Attempts
    <2>4. QED
      BY <2>1, <2>3 DEF Trying, Task
  <1>5. CASE AttemptFails \/ Record
    <2>1. Settles(Task) /\ state # NoState
      BY <1>5, AttemptFailsSettles, RecordSettles DEF AttemptFails, Record, Inv, Memory
    <2>2. saved # NoState
      BY <2>1, NoneOfThem DEF Settles
    <2>3. CASE t # Task
      BY <2>1, <2>3 DEF Settles, Inv, RunningIsAtHand, Attempts
    <2>4. CASE t = Task
      <3>1. Len(Attempts(t)) \in Nat /\ n \in 1 .. Len(Attempts(t))
        BY <2>1, <2>4, StateFacts DEF Settles, Attempts
      <3>2. n # Len(Attempts(t))
        BY <2>1, <2>4 DEF Settles
      <3>3. n \in 1 .. Len(Attempts(t)) - 1
        BY <3>1, <3>2
      <3>4. Attempts(t)[n].status = "running"
        BY <2>1, <2>4, <3>3 DEF Settles
      <3>5. QED
        BY <2>2, <3>1, <3>2, <3>4 DEF Inv, OnRecord
    <2>5. QED
      BY <2>3, <2>4
  <1>6. CASE AttemptPasses \/ Publish
    <2>1. saved' = saved /\ next' = next /\ pc' \in {"publish", "record"}
          /\ pc \in {"baseline", "publish"}
      BY <1>6 DEF AttemptPasses, Publish, disk
    <2>2. state # NoState
      BY <2>1 DEF Inv, Memory
    <2>3. QED
      BY <2>1, <2>2 DEF Inv, RunningIsAtHand, Attempts, Trying, Task
  <1>7. CASE Bystander
    BY <1>7, BystanderFacts DEF Inv, RunningIsAtHand, Attempts, Trying, Task
  <1>8. QED
    BY <1>1, <1>2, <1>3, <1>4, <1>5, <1>6, <1>7 DEF Next, SchedulerStep, Bystander

\* The abandoned attempts of a task are finitely many.
LEMMA AbandonedFinite ==
    ASSUME saved \in CohortState, NEW t \in Tasks
    PROVE  /\ IsFiniteSet(AbandonedOf(t)) /\ Cardinality(AbandonedOf(t)) \in Nat
           /\ Len(Attempts(t)) \in Nat
  <1>1. Len(Attempts(t)) \in Nat /\ DOMAIN Attempts(t) = 1 .. Len(Attempts(t))
    BY StateFacts DEF Attempts
  <1>2. IsFiniteSet(1 .. Len(Attempts(t)))
    BY <1>1, FS_Interval
  <1>3. AbandonedOf(t) \subseteq 1 .. Len(Attempts(t))
    BY <1>1 DEF AbandonedOf
  <1>4. QED
    BY <1>1, <1>2, <1>3, FS_Subset, FS_CardinalityType

\* The abandoned attempts depend on the attempts' statuses only.
LEMMA AbandonedSame ==
    ASSUME saved \in CohortState, saved' \in CohortState, NEW t \in Tasks,
           \A n \in Nat :
               n \in 1 .. Len(Attempts(t)') /\ Attempts(t)'[n].status = "abandoned"
                 <=> n \in 1 .. Len(Attempts(t)) /\ Attempts(t)[n].status = "abandoned"
    PROVE  AbandonedOf(t)' = AbandonedOf(t)
  <1>1. /\ DOMAIN Attempts(t) = 1 .. Len(Attempts(t)) /\ Len(Attempts(t)) \in Nat
        /\ DOMAIN Attempts(t)' = 1 .. Len(Attempts(t)') /\ Len(Attempts(t)') \in Nat
    BY StateFacts DEF Attempts
  <1>2. ASSUME NEW n PROVE n \in AbandonedOf(t)' <=> n \in AbandonedOf(t)
    BY <1>1 DEF AbandonedOf
  <1>3. QED
    BY <1>2 DEF AbandonedOf

StartsStepFor(t) ==
    Len(Attempts(t)) + Cardinality(AbandonedOf(t))
        + (IF pc = "down" \/ t \in attempted THEN 0 ELSE 1) <= starts

\* An attempt, or one found abandoned, costs its task a start.
LEMMA StartsStep ==
    ASSUME Inv, [Next]_vars
    PROVE  StartsPaid'
  <1>1. pc' # "down" => starts' > 0
    <2>1. starts \in Nat /\ (pc # "down" => starts > 0)
      BY DEF Inv, Types, StartsPaid
    <2>2. CASE Start
      BY <2>1, <2>2 DEF Start
    <2>3. CASE Initialise \/ Resume \/ PassCompleted \/ PassAttempted \/ StopOnBudget
      BY <2>1, <2>3 DEF Initialise, Resume, PassCompleted, PassAttempted, StopOnBudget, AtTask, world
    <2>4. CASE Reserve \/ AttemptFails \/ AttemptPasses \/ Publish \/ Record
      BY <2>1, <2>4 DEF Reserve, AttemptFails, AttemptPasses, Publish, Record, AtTask, world
    <2>5. CASE RaiseAtCompleted \/ RaiseAtPublish \/ Finish \/ Crash
      BY <2>5, LeaveFacts DEF RaiseAtCompleted, RaiseAtPublish, Finish, Crash
    <2>6. CASE Bystander
      BY <2>1, <2>6, BystanderFacts
    <2>7. QED
      BY <2>2, <2>3, <2>4, <2>5, <2>6 DEF Next, SchedulerStep, Bystander
  <1> SUFFICES ASSUME saved' # NoState, NEW t \in Tasks PROVE StartsStepFor(t)'
    BY <1>1 DEF StartsPaid, StartsStepFor
  <1>2. /\ starts \in Nat
        /\ pc # "down" => starts > 0
        /\ saved # NoState => saved \in CohortState /\ StartsStepFor(t)
    BY SavedFacts DEF Inv, Types, StartsPaid, StartsStepFor
  <1> DEFINE used == Len(Attempts(t)) + Cardinality(AbandonedOf(t))
  <1>3. saved # NoState => used \in Nat
    BY <1>2, AbandonedFinite
  <1>4. saved' = saved => used' = used
    BY DEF Attempts, AbandonedOf
  <1>5. CASE Start
    <2>1. saved' = saved /\ starts' = starts + 1 /\ pc = "down" /\ pc' # "down"
      BY <1>5 DEF Start
    <2> HIDE DEF used
    <2>2. used <= starts /\ used \in Nat /\ used' = used
      BY <1>2, <1>3, <1>4, <2>1 DEF StartsStepFor, used
    <2>3. used' + 1 <= starts'
      BY <1>2, <2>1, <2>2
    <2>4. QED
      BY <1>2, <2>1, <2>2, <2>3 DEF StartsStepFor, used
  <1>6. CASE Initialise
    <2>1. saved'.tasks[t].attempts = <<>> /\ starts' = starts /\ pc # "down"
      BY <1>6 DEF Initialise, InitialState, world
    <2>2. Attempts(t)' = <<>> /\ AbandonedOf(t)' = {}
      BY <2>1 DEF Attempts, AbandonedOf
    <2>3. Len(Attempts(t)') = 0 /\ Cardinality(AbandonedOf(t)') = 0
      BY <2>2, FS_EmptySet
    <2>4. QED
      BY <1>2, <2>1, <2>3 DEF StartsStepFor
  <1>7. CASE Resume
    <2>1. /\ Reconciles /\ saved # NoState /\ saved \in CohortState
          /\ starts' = starts /\ pc' = "loop" /\ pc = "resume"
          /\ attempted = {} /\ attempted' = Abandoned(saved)
      BY <1>7, ResumeReconciles, NoneOfThem DEF Resume, Reconciles, world, Inv, Memory
    <2>2. Len(Attempts(t)') = Len(Attempts(t)) /\ saved' \in CohortState
      BY <2>1 DEF Reconciles, Attempts
    <2>3. used + 1 <= starts
      BY <1>2, <2>1 DEF StartsStepFor
    <2>4. CASE t \notin Abandoned(saved)
      <3>1. used' = used
        BY <2>1, <2>4 DEF Reconciles, Attempts, AbandonedOf
      <3>2. QED
        BY <1>2, <1>3, <2>1, <2>3, <2>4, <3>1 DEF StartsStepFor
    <2>5. CASE t \in Abandoned(saved)
      <3> DEFINE last == Len(Attempts(t))
      <3>1. /\ \A n \in 1 .. last :
                  /\ Attempts(t)'[n] = Closed(t, n, Attempts(t)[n])
                  /\ Attempts(t)[n].status = "running" => n = last
            /\ DOMAIN Attempts(t) = 1 .. last /\ DOMAIN Attempts(t)' = 1 .. last
        BY <2>1, <2>2, StateFacts DEF Reconciles, Inv, OnRecord, Attempts
      <3>2. AbandonedOf(t)' \subseteq AbandonedOf(t) \cup {last}
        <4> SUFFICES ASSUME NEW n \in AbandonedOf(t)', n # last
                     PROVE  n \in AbandonedOf(t)
          OBVIOUS
        <4>1. n \in 1 .. last /\ Attempts(t)'[n].status = "abandoned"
          BY <3>1 DEF AbandonedOf
        <4>2. Attempts(t)'[n] = Attempts(t)[n]
          <5>1. Attempts(t)[n].status # "running"
            BY <3>1, <4>1
          <5>2. Attempts(t)'[n] = Closed(t, n, Attempts(t)[n])
            BY <3>1, <4>1
          <5>3. QED
            BY <5>1, <5>2, ClosedFacts
        <4>3. QED
          BY <3>1, <4>1, <4>2 DEF AbandonedOf
      <3>3. /\ IsFiniteSet(AbandonedOf(t) \cup {last})
            /\ Cardinality(AbandonedOf(t) \cup {last}) <= Cardinality(AbandonedOf(t)) + 1
        <4>1. IsFiniteSet(AbandonedOf(t)) /\ Cardinality(AbandonedOf(t)) \in Nat
          BY <2>1, AbandonedFinite
        <4> DEFINE A == AbandonedOf(t)
        <4> HIDE DEF last, A
        <4>2. /\ IsFiniteSet(A \cup {last})
              /\ Cardinality(A \cup {last}) = IF last \in A THEN Cardinality(A) ELSE Cardinality(A) + 1
          BY <4>1, FS_AddElement DEF A
        <4>3. QED
          BY <4>1, <4>2 DEF A
      <3>4. /\ Cardinality(AbandonedOf(t)') <= Cardinality(AbandonedOf(t) \cup {last})
            /\ IsFiniteSet(AbandonedOf(t)')
        BY <3>2, <3>3, FS_Subset
      <3>5. /\ Cardinality(AbandonedOf(t)') \in Nat /\ Cardinality(AbandonedOf(t)) \in Nat
            /\ Cardinality(AbandonedOf(t) \cup {last}) \in Nat /\ last \in Nat
        BY <2>1, <3>3, <3>4, AbandonedFinite, FS_CardinalityType
      <3>6. last + Cardinality(AbandonedOf(t)') <= starts
        BY <1>2, <2>3, <3>3, <3>4, <3>5
      <3>7. QED
        BY <2>1, <2>2, <2>5, <3>5, <3>6 DEF StartsStepFor
    <2>6. QED
      BY <2>4, <2>5
  <1>8. CASE \/ PassCompleted \/ PassAttempted \/ StopOnBudget \/ AttemptPasses \/ Publish \/ Bystander
    <2>1. /\ saved' = saved /\ starts' = starts /\ attempted' = attempted
          /\ (pc' = "down") = (pc = "down")
      BY <1>8, BystanderFacts
         DEF PassCompleted, PassAttempted, StopOnBudget, AttemptPasses, Publish, AtTask, disk, world
    <2>2. QED
      BY <1>2, <1>4, <2>1 DEF StartsStepFor
  <1>9. CASE RaiseAtCompleted \/ RaiseAtPublish \/ Crash
    <2>1. saved' = saved /\ starts' = starts /\ pc' = "down"
      BY <1>9, LeaveFacts DEF RaiseAtCompleted, RaiseAtPublish, Crash, disk, world
    <2>2. QED
      BY <1>2, <1>3, <1>4, <2>1 DEF StartsStepFor
  <1>10. CASE Finish
    <2>1. saved \in CohortState /\ saved # NoState /\ saved'.tasks = saved.tasks
          /\ starts' = starts /\ pc' = "down"
      BY <1>10, FinishEnds, NoneOfThem, LeaveFacts DEF Ends, Finish, world
    <2>2. used' = used
      BY <2>1 DEF Attempts, AbandonedOf
    <2>3. QED
      BY <1>2, <1>3, <2>1, <2>2 DEF StartsStepFor
  <1>11. CASE Reserve
    <2>1. /\ Reserves(Task) /\ saved # NoState /\ saved \in CohortState /\ saved' \in CohortState
          /\ starts' = starts /\ pc' = "baseline" /\ pc = "loop"
          /\ Task \notin attempted /\ attempted' = attempted \cup {Task}
      BY <1>11, ReserveReserves, NoneOfThem DEF Reserve, Reserves, AtTask
    <2>2. CASE t # Task
      <3>1. used' = used
        BY <2>1, <2>2 DEF Reserves, Attempts, AbandonedOf
      <3>2. QED
        BY <1>2, <1>3, <2>1, <2>2, <3>1 DEF StartsStepFor
    <2>3. CASE t = Task
      <3> DEFINE h == Attempts(t)
                 a == [status |-> "running", usage |-> Nothing, debit |-> Reservation]
                 r == Attempts(t)'
      <3>1. h \in Seq(Attempt) /\ a \in Attempt /\ a.status = "running"
        BY <2>1, StateFacts, NoneOfThem DEF Attempts, Attempt
      <3>2. r = Append(h, a)
        BY <2>1, <2>3 DEF Reserves, Attempts
      <3> HIDE DEF h, a, r
      <3>3. /\ Len(r) = Len(h) + 1 /\ r[Len(h) + 1] = a
            /\ \A n \in 1 .. Len(h) : r[n] = h[n]
            /\ Len(h) \in Nat
        BY <3>1, <3>2
      <3>4. \A n \in Nat : n \in 1 .. Len(r) /\ r[n].status = "abandoned"
                              <=> n \in 1 .. Len(h) /\ h[n].status = "abandoned"
        BY <3>1, <3>3
      <3>5. AbandonedOf(t)' = AbandonedOf(t)
        BY <2>1, <3>4, AbandonedSame DEF h, r
      <3>6. Len(Attempts(t)) \in Nat /\ Cardinality(AbandonedOf(t)) \in Nat
        BY <2>1, AbandonedFinite
      <3>7. Len(Attempts(t)) + Cardinality(AbandonedOf(t)) + 1 <= starts
        BY <1>2, <2>1, <2>3 DEF StartsStepFor
      <3>8. Len(Attempts(t)') + Cardinality(AbandonedOf(t)') <= starts
        BY <1>2, <3>3, <3>5, <3>6, <3>7 DEF h, r
      <3>9. Len(Attempts(t)') + Cardinality(AbandonedOf(t)') \in Nat
        BY <3>3, <3>5, <3>6 DEF h, r
      <3>10. QED
        BY <2>1, <2>3, <3>8, <3>9 DEF StartsStepFor
    <2>4. QED
      BY <2>2, <2>3
  <1>12. CASE AttemptFails \/ Record
    <2>1. /\ Settles(Task) /\ saved # NoState /\ saved \in CohortState /\ saved' \in CohortState
          /\ starts' = starts /\ pc' # "down" /\ pc # "down" /\ attempted' = attempted
          /\ Task \in Tasks
      BY <1>12, AttemptFailsSettles, RecordSettles, NoneOfThem, TaskFacts
         DEF Settles, AttemptFails, Record, world, Inv, AtHand, Trying
    <2>2. Len(Attempts(t)') = Len(Attempts(t)) /\ AbandonedOf(t)' = AbandonedOf(t)
      <3>1. CASE t # Task
        BY <2>1, <3>1 DEF Settles, Attempts, AbandonedOf
      <3>2. CASE t = Task
        <4> DEFINE h == Attempts(t)
                   r == Attempts(t)'
        <4>1. /\ Len(r) = Len(h) /\ Len(h) \in Nat /\ Len(h) > 0
              /\ \A n \in 1 .. Len(h) - 1 : r[n] = h[n]
              /\ r[Len(h)].status # "abandoned" /\ h[Len(h)].status # "abandoned"
          BY <2>1, <3>2, StateFacts DEF Settles, Attempts
        <4> HIDE DEF h, r
        <4>2. \A n \in Nat : n \in 1 .. Len(r) /\ r[n].status = "abandoned"
                                <=> n \in 1 .. Len(h) /\ h[n].status = "abandoned"
          <5> SUFFICES ASSUME NEW n \in 1 .. Len(h)
                       PROVE  r[n].status = "abandoned" <=> h[n].status = "abandoned"
            BY <4>1
          <5>1. CASE n = Len(h)
            BY <4>1, <5>1
          <5>2. CASE n # Len(h)
            <6>1. n \in 1 .. Len(h) - 1
              BY <4>1, <5>2
            <6>2. QED
              BY <4>1, <6>1
          <5>3. QED
            BY <5>1, <5>2
        <4>3. QED
          BY <2>1, <4>1, <4>2, AbandonedSame DEF h, r
      <3>3. QED
        BY <3>1, <3>2
    <2>3. QED
      BY <1>2, <2>1, <2>2 DEF StartsStepFor
  <1>13. QED
    BY <1>5, <1>6, <1>7, <1>8, <1>9, <1>10, <1>11, <1>12 DEF Next, SchedulerStep, Bystander

\* Past a completed task its candidate stays in place, but for tampering.
LEMMA BackedStep ==
    ASSUME Inv, [Next]_vars
    PROVE  PassedAreBacked'
  <1> SUFFICES ASSUME state' # NoState, NEW i \in 1 .. next' - 1,
                      saved'.tasks[Fixtures[i]].status = "completed",
                      Fixtures[i] \notin changed'
               PROVE  /\ published'[Fixtures[i]] # Missing
                      /\ published'[Fixtures[i]] = saved'.tasks[Fixtures[i]].candidate_sha256
    BY DEF PassedAreBacked
  <1> DEFINE t == Fixtures[i]
             Backed == /\ published[t] # Missing
                       /\ published[t] = saved.tasks[t].candidate_sha256
  <1>1. /\ next \in 1 .. Len(Fixtures) + 1 /\ next \in Nat /\ Len(Fixtures) \in Nat
        /\ state # NoState /\ i \in 1 .. next - 1 /\ saved.tasks[t].status = "completed"
              /\ t \notin changed => Backed
        /\ state # NoState /\ i \in 1 .. next - 1 /\ next <= Len(Fixtures) => t # Task
    BY FixtureFacts DEF Inv, Types, PassedAreBacked, Task
  <1>2. CASE \/ Start \/ Initialise \/ RaiseAtCompleted \/ RaiseAtPublish \/ Finish \/ Crash
    <2>1. pc' \in {"down", "initialise", "resume"}
      BY <1>2, LeaveFacts
         DEF Start, Initialise, RaiseAtCompleted, RaiseAtPublish, Finish, Crash
    <2>2. QED
      BY <2>1, MemoryStep DEF Memory
  <1>3. CASE Resume
    <2>1. next' = 1
      BY <1>3 DEF Resume, Inv, Memory
    <2>2. QED
      BY <2>1
  <1>4. CASE PassCompleted
    <2>1. /\ UNCHANGED <<saved, published, changed>> /\ next' = next + 1
          /\ state = saved /\ state # NoState /\ next <= Len(Fixtures)
          /\ published[Task] = saved.tasks[Task].candidate_sha256
          /\ saved.tasks[Task].status = "completed"
      BY <1>4 DEF PassCompleted, AtTask, IsCompleted, HashUnchanged, disk, world, Inv, Memory
    <2>2. CASE i = next
      <3>1. t = Task /\ Task \in Tasks /\ saved # NoState
        BY <2>1, <2>2, TaskFacts DEF Task, Inv
      <3>2. saved.tasks[Task].candidate_sha256 # Missing
        BY <2>1, <3>1 DEF Inv, OnRecord
      <3>3. QED
        BY <2>1, <3>1, <3>2
    <2>3. CASE i # next
      BY <1>1, <2>1, <2>3
    <2>4. QED
      BY <2>2, <2>3
  <1>5. CASE PassAttempted
    <2>1. /\ UNCHANGED <<saved, published, changed>> /\ next' = next + 1
          /\ state = saved /\ state # NoState
          /\ saved.tasks[Task].status # "completed"
      BY <1>5 DEF PassAttempted, AtTask, IsCompleted, disk, world, Inv, Memory
    <2>2. i # next
      BY <2>1 DEF Task
    <2>3. QED
      BY <1>1, <2>1, <2>2
  <1>6. CASE StopOnBudget \/ AttemptPasses
    <2>1. /\ UNCHANGED <<saved, published, changed, next>> /\ state # NoState
      BY <1>6 DEF StopOnBudget, AttemptPasses, AtTask, disk, world, Inv, Memory
    <2>2. QED
      BY <1>1, <2>1
  <1>7. CASE Reserve
    <2>1. /\ Reserves(Task) /\ UNCHANGED <<published, changed, next>> /\ state # NoState
          /\ next <= Len(Fixtures)
      BY <1>7, ReserveReserves DEF Reserve, AtTask, Inv, Memory
    <2>2. i \in 1 .. next - 1 /\ t # Task /\ t \in Tasks
      BY <1>1, <2>1, FixtureFacts
    <2>3. saved'.tasks[t] = saved.tasks[t]
      BY <2>1, <2>2 DEF Reserves
    <2>4. QED
      BY <1>1, <2>1, <2>2, <2>3
  <1>8. CASE AttemptFails \/ Record
    <2>1. /\ Settles(Task) /\ UNCHANGED <<published, changed>> /\ next' = next + 1
          /\ state # NoState /\ next <= Len(Fixtures)
      BY <1>8, AttemptFailsSettles, RecordSettles
         DEF AttemptFails, Record, world, Inv, Memory, AtHand, Trying
    <2>2. CASE i = next
      <3>1. t = Task
        BY <2>2 DEF Task
      <3>2. QED
        BY <2>1, <3>1 DEF Settles
    <2>3. CASE i # next
      <3>1. i \in 1 .. next - 1 /\ t # Task /\ t \in Tasks
        BY <1>1, <2>1, <2>3, FixtureFacts
      <3>2. saved'.tasks[t] = saved.tasks[t]
        BY <2>1, <3>1 DEF Settles
      <3>3. QED
        BY <1>1, <2>1, <3>1, <3>2
    <2>4. QED
      BY <2>2, <2>3
  <1>9. CASE Publish
    <2>1. /\ published' = [published EXCEPT ![Task] = passed]
          /\ UNCHANGED <<saved, changed, next>> /\ state # NoState /\ next <= Len(Fixtures)
      BY <1>9 DEF Publish, world, Inv, Memory
    <2>2. i \in 1 .. next - 1 /\ t # Task /\ t \in Tasks
      BY <1>1, <2>1, FixtureFacts
    <2>3. published'[t] = published[t]
      BY <2>1, <2>2 DEF Inv, Types
    <2>4. QED
      BY <1>1, <2>1, <2>2, <2>3
  <1>10. CASE \E r \in Tasks : Tamper(r)
    <2>1. PICK r \in Tasks : Tamper(r)
      BY <1>10
    <2>2. /\ changed' = changed \cup {r} /\ UNCHANGED <<saved, next, state>>
          /\ \E content : published' = [published EXCEPT ![r] = content]
      BY <2>1 DEF Tamper, process
    <2>3. t # r /\ i \in 1 .. next - 1 /\ t \in Tasks
      BY <1>1, <2>2, FixtureFacts
    <2>4. published'[t] = published[t]
      BY <2>2, <2>3 DEF Inv, Types
    <2>5. QED
      BY <1>1, <2>2, <2>3, <2>4
  <1>11. CASE Bystander /\ ~ \E r \in Tasks : Tamper(r)
    <2>1. UNCHANGED <<saved, published, changed, next, state>>
      BY <1>11, BystanderFacts DEF Bystander, ProviderCall, OrphanEnds, vars, disk, world
    <2>2. QED
      BY <1>1, <2>1
  <1>12. QED
    BY <1>2, <1>3, <1>4, <1>5, <1>6, <1>7, <1>8, <1>9, <1>10, <1>11
       DEF Next, SchedulerStep, Bystander

\* What is saved and what is in memory after a step are states of a cohort.
LEMMA StatesStep ==
    ASSUME Inv, [Next]_vars
    PROVE  /\ saved' \in CohortState \cup {NoState}
           /\ state' \in CohortState \cup {NoState}
  <1> USE DEF Inv, Types
  <1>1. CASE \/ Start \/ PassCompleted \/ RaiseAtCompleted \/ PassAttempted
             \/ Publish \/ RaiseAtPublish \/ Crash \/ Bystander
    <2>1. saved' = saved /\ (state' = state \/ state' = NoState)
      BY <1>1, LeaveFacts, BystanderFacts
         DEF Start, PassCompleted, RaiseAtCompleted, PassAttempted, Publish, RaiseAtPublish,
             Crash, disk
    <2>2. QED
      BY <2>1
  <1>2. CASE Initialise
    <2>1. /\ saved' = InitialState /\ state' = state
      BY <1>2 DEF Initialise
    <2>2. InitialState \in CohortState
      <3>1. [status |-> "pending", attempts |-> <<>>, candidate_sha256 |-> Missing] \in TaskRecord
        BY DEF TaskRecord
      <3>2. QED
        BY <3>1 DEF InitialState, CohortState
    <2>3. QED
      BY <2>1, <2>2
  <1>3. CASE Resume
    BY <1>3, ResumeReconciles DEF Reconciles
  <1>4. CASE StopOnBudget
    <2> DEFINE z == IF "token" \in Exceeded THEN "stopped_token_budget" ELSE "stopped_cost_budget"
    <2>1. state' = [state EXCEPT !.status = z] /\ saved' = saved /\ pc = "loop"
      BY <1>4 DEF StopOnBudget, AtTask, disk
    <2>2. z \in {"stopped_token_budget", "stopped_cost_budget"}
      OBVIOUS
    <2> HIDE DEF z
    <2>3. state \in CohortState
      BY <2>1 DEF Memory
    <2>4. state' \in CohortState
      BY <2>1, <2>2, <2>3 DEF CohortState
    <2>5. QED
      BY <2>1, <2>4
  <1>5. CASE Reserve
    BY <1>5, ReserveReserves DEF Reserves
  <1>6. CASE AttemptFails \/ Record
    BY <1>6, AttemptFailsSettles, RecordSettles DEF Settles
  <1>7. CASE AttemptPasses
    BY <1>7, AttemptPassesInMemory DEF AttemptPasses, disk
  <1>8. CASE Finish
    BY <1>8, FinishEnds, LeaveFacts DEF Ends, Finish
  <1>9. QED
    BY <1>1, <1>2, <1>3, <1>4, <1>5, <1>6, <1>7, <1>8 DEF Next, SchedulerStep, Bystander

\* A sequence with another member at one place.
LEMMA SequenceChanged ==
    ASSUME NEW S, NEW l \in Seq(S), NEW n, NEW x \in S
    PROVE  [l EXCEPT ![n] = x] \in Seq(S)
  <1> DEFINE k == [l EXCEPT ![n] = x]
             m == Len(l)
  <1>1. l \in [1 .. m -> S] /\ m \in Nat
    OBVIOUS
  <1> HIDE DEF m
  <1>2. k \in [1 .. m -> S]
    BY <1>1
  <1> HIDE DEF k
  <1>3. k \in Seq(S)
    BY <1>1, <1>2
  <1>4. QED
    BY <1>3 DEF k

\* Ledgers stay sequences of reports, children attempts of tasks.
LEMMA LedgerTypeStep ==
    ASSUME Inv, [Next]_vars
    PROVE  /\ ledger' \in [Tasks -> Seq({NoLedger} \cup Amount)]
           /\ children' \subseteq Tasks \X Nat /\ detached' \subseteq Tasks \X Nat
  <1> DEFINE L == Seq({NoLedger} \cup Amount)
  <1>1. /\ ledger \in [Tasks -> L]
        /\ children \subseteq Tasks \X Nat /\ detached \subseteq Tasks \X Nat
    BY DEF Inv, Types
  <1>2. CASE Quiet \/ Reconciles \/ Ends \/ Initialise
    <2>1. ledger' = ledger /\ children' \subseteq children /\ detached' = detached
      BY <1>2 DEF Quiet, Reconciles, Ends, Initialise, world
    <2>2. QED
      BY <1>1, <2>1
  <1>a. CASE Task \in Tasks /\ Settles(Task)
    <2>1. /\ ledger' = ledger /\ children' \subseteq children
          /\ detached' \subseteq detached \cup {<<Task, Len(Attempts(Task))>>}
          /\ Len(Attempts(Task)) \in Nat
      BY <1>a, StateFacts DEF Settles, Attempts
    <2>2. <<Task, Len(Attempts(Task))>> \in Tasks \X Nat
      BY <1>a, <2>1
    <2>3. QED
      BY <1>1, <2>1, <2>2
  <1>3. CASE Task \in Tasks /\ Reserves(Task)
    <2>1. /\ ledger' = [ledger EXCEPT ![Task] = Append(@, NoLedger)]
          /\ children' = children \cup {<<Task, Len(Attempts(Task)) + 1>>}
          /\ detached' = detached
          /\ Len(Attempts(Task)) \in Nat
      BY <1>3, StateFacts DEF Reserves, Attempts
    <2>2. Append(ledger[Task], NoLedger) \in L
      BY <1>1, <1>3
    <2> HIDE DEF L
    <2>3. QED
      BY <1>1, <1>3, <2>1, <2>2 DEF L
  <1>4. CASE \E t \in Tasks : \E n \in Nat : Spends(t, n)
    <2>1. PICK t \in Tasks, n \in Nat : Spends(t, n)
      BY <1>4
    <2>2. PICK total \in Amount : ledger' = [ledger EXCEPT ![t][n] = total]
      BY <2>1 DEF Spends
    <2>3. /\ saved # NoState /\ n \in 1 .. Len(Attempts(t))
          /\ children' = children /\ detached' = detached
      BY <2>1, ChildFacts DEF Spends, Inv
    <2>4. DOMAIN ledger[t] = 1 .. Len(Attempts(t)) /\ ledger[t] \in L
      BY <1>1, <2>3, LedgerFacts DEF Inv
    <2> DEFINE l == ledger[t]
    <2>5. [l EXCEPT ![n] = total] \in L
      BY <2>4, SequenceChanged
    <2>6. ledger' = [ledger EXCEPT ![t] = [l EXCEPT ![n] = total]]
      BY <2>2
    <2> HIDE DEF L, l
    <2>7. QED
      BY <1>1, <2>3, <2>5, <2>6 DEF L
  <1>5. QED
    BY <1>2, <1>a, <1>3, <1>4, Kinds

\* Every step keeps the types.
LEMMA TypesStep ==
    ASSUME Inv, [Next]_vars
    PROVE  Types'
  <1> USE FixtureFacts DEF Inv, Types, Phases
  <1> DEFINE Rest == /\ published \in [Tasks -> Hashes \cup {Missing}]
                     /\ pc \in Phases
                     /\ next \in 1 .. Len(Fixtures) + 1
                     /\ passed \in Hashes \cup {Missing}
                     /\ starts \in Nat
  <1>1. CASE Start \/ Initialise \/ Resume
    <2>1. Rest'
      BY <1>1 DEF Start, Initialise, Resume, world
    <2>2. QED
      BY <2>1, StatesStep, LedgerTypeStep
  <1>2. CASE RaiseAtCompleted \/ RaiseAtPublish \/ Finish \/ Crash
    <2>1. Rest'
      BY <1>2, LeaveFacts DEF RaiseAtCompleted, RaiseAtPublish, Finish, Crash, disk, world
    <2>2. QED
      BY <2>1, StatesStep, LedgerTypeStep
  <1>3. CASE PassCompleted \/ PassAttempted \/ StopOnBudget \/ Reserve
    <2>1. Rest'
      BY <1>3 DEF PassCompleted, PassAttempted, StopOnBudget, Reserve, AtTask, disk, world
    <2>2. QED
      BY <2>1, StatesStep, LedgerTypeStep
  <1>4. CASE AttemptFails \/ AttemptPasses \/ Publish \/ Record
    <2>1. next <= Len(Fixtures)
      BY <1>4 DEF AttemptFails, AttemptPasses, Publish, Record, AtHand, Trying
    <2>2. CASE AttemptFails \/ Record
      <3>1. Rest'
        BY <2>1, <2>2 DEF AttemptFails, Record, world
      <3>2. QED
        BY <3>1, StatesStep, LedgerTypeStep
    <2>3. CASE AttemptPasses
      <3>1. Rest'
        BY <2>3 DEF AttemptPasses, disk
      <3>2. QED
        BY <3>1, StatesStep, LedgerTypeStep
    <2>4. CASE Publish
      <3>1. published' \in [Tasks -> Hashes \cup {Missing}]
        BY <2>4 DEF Publish
      <3>2. Rest'
        BY <2>4, <3>1 DEF Publish, world
      <3>3. QED
        BY <3>2, StatesStep, LedgerTypeStep
    <2>5. QED
      BY <1>4, <2>2, <2>3, <2>4
  <1>5. CASE Bystander
    <2>1. published' \in [Tasks -> Hashes \cup {Missing}]
      BY <1>5 DEF Bystander, ProviderCall, OrphanEnds, Tamper, vars, disk
    <2>2. QED
      BY <1>5, <2>1, BystanderFacts, StatesStep, LedgerTypeStep
  <1>6. QED
    BY <1>1, <1>2, <1>3, <1>4, <1>5 DEF Next, SchedulerStep, Bystander

\* With nothing on disk and no process the invariant holds.
LEMMA InitInv == Init => Inv
  <1> SUFFICES ASSUME Init PROVE Inv
    OBVIOUS
  <1> USE FixtureFacts, NoneOfThem DEF Init
  <1>1. ledger \in [Tasks -> Seq({NoLedger} \cup Amount)]
    OBVIOUS
  <1>2. Types
    BY <1>1 DEF Types, Phases
  <1>3. Memory /\ AtHand
    BY DEF Memory, AtHand, Trying
  <1>4. OnRecord /\ RunningIsAtHand /\ Reserved /\ Detachments /\ NothingYet
    BY DEF OnRecord, RunningIsAtHand, Reserved, Detachments, NothingYet
  <1>5. DebitsWithinBudget /\ StartsPaid /\ PassedAreBacked
    BY DEF DebitsWithinBudget, StartsPaid, PassedAreBacked
  <1>6. QED
    BY <1>2, <1>3, <1>4, <1>5 DEF Inv

\* The invariant holds in every reachable state.
THEOREM InvariantHolds == Spec => []Inv
  <1>1. Inv /\ [Next]_vars => Inv'
    BY TypesStep, MemoryStep, AtHandStep, OnRecordStep, RunningStep, ReservedStep,
       DetachmentsStep, NothingYetStep, BudgetStep, StartsStep, BackedStep DEF Inv
  <1>2. QED
    BY <1>1, InitInv, PTL DEF Spec
-----------------------------------------------------------------------------
(***************************************************************************)
(* The properties.                                                         *)
(***************************************************************************)

\* The variables keep their types, and no attempt of an earlier start is left
\* running in the state a start works on.
THEOREM CohortTypeCorrect == Spec => []TypeOK
  <1>1. Inv => TypeOK
    <2> SUFFICES ASSUME Inv PROVE TypeOK
      OBVIOUS
    <2>1. ASSUME state # NoState, NEW t \in Abandoned(state)
          PROVE  pc = "baseline" /\ t = Task
      <3>1. state \in CohortState /\ saved \in CohortState /\ saved # NoState /\ t \in Tasks
        BY <2>1, SavedFacts, NoneOfThem DEF Inv, Abandoned
      <3>2. PICK n \in 1 .. Len(state.tasks[t].attempts) :
                state.tasks[t].attempts[n].status = "running"
        BY <3>1, StateFacts DEF Abandoned
      <3>3. CASE state.tasks[t] = saved.tasks[t]
        <4>1. Trying /\ t = Task
          BY <2>1, <3>1, <3>2, <3>3 DEF Inv, RunningIsAtHand, Attempts
        <4>2. CASE pc \in {"publish", "record"}
          <5>1. Attempts(t)[Len(Attempts(t))].status = "completed"
            BY <3>3, <4>1, <4>2 DEF Inv, AtHand, Attempts
          <5>2. Attempts(t)[Len(Attempts(t))].status = "running"
            BY <4>1 DEF Inv, AtHand
          <5>3. QED
            BY <5>1, <5>2
        <4>3. QED
          BY <4>1, <4>2 DEF Trying
      <3>4. CASE state.tasks[t] # saved.tasks[t]
        <4>1. pc \in {"publish", "record"} /\ t = Task
          BY <2>1, <3>1, <3>4 DEF Inv, Types, Phases, Memory, AtHand
        <4>2. /\ Len(state.tasks[t].attempts) = Len(Attempts(t)) /\ Len(Attempts(t)) \in Nat
              /\ state.tasks[t].attempts[Len(Attempts(t))].status = "completed"
              /\ \A m \in 1 .. Len(Attempts(t)) - 1 :
                     state.tasks[t].attempts[m] = Attempts(t)[m]
          BY <3>1, <4>1, StateFacts DEF Inv, AtHand, Attempts
        <4>3. n # Len(Attempts(t))
          BY <3>2, <4>2
        <4>4. n \in 1 .. Len(Attempts(t)) - 1 /\ n \in 1 .. Len(Attempts(t))
          BY <3>2, <4>2, <4>3
        <4>5. Attempts(t)[n].status = "running"
          BY <3>2, <4>2, <4>4
        <4>6. n = Len(Attempts(t))
          BY <3>1, <4>4, <4>5 DEF Inv, OnRecord
        <4>7. QED
          BY <4>3, <4>6
      <3>5. QED
        BY <3>3, <3>4
    <2>2. state # NoState => Abandoned(state) \subseteq (IF pc = "baseline" THEN {Task} ELSE {})
      BY <2>1
    <2>3. QED
      BY <2>2 DEF Inv, Types, Memory, TypeOK
  <1>2. QED
    BY <1>1, InvariantHolds, PTL

\* Whatever is killed and started again, all attempts together report no more
\* than the budget, each counted up to its cap, and one that was settled while
\* its child lived with what was recorded of it.
THEOREM CohortSpendingWithinBudget == Spec => []SpendingWithinBudget
  <1>1. Inv => SpendingWithinBudget
    <2> SUFFICES ASSUME Inv, NEW u \in Units PROVE CountedUpToCaps(u) <= Budget[u]
      BY DEF SpendingWithinBudget
    <2> DEFINE f == [t \in Tasks |-> [n \in DOMAIN ledger[t] |-> UpToCap(Counted(t, n), u)]]
    <2>1. CountedUpToCaps(u) = SumAll(f, Fixtures)
      BY DEF CountedUpToCaps
    <2>2. Budget[u] \in Nat
      BY ConfigAssumption DEF Amount
    <2>3. CASE saved = NoState
      <3>1. \A t \in Tasks : f[t] = <<>>
        BY <2>3 DEF Inv, NothingYet
      <3> HIDE DEF f
      <3>2. SumAll(f, Fixtures) = 0
        BY <3>1, FixtureFacts, SumAllEmpty
      <3>3. QED
        BY <2>1, <2>2, <3>2
    <2>4. CASE saved # NoState
      <3> DEFINE g == CappedDebits(saved, u)
      <3>1. saved \in CohortState
        BY <2>4, SavedFacts DEF Inv
      <3>2. ASSUME NEW t \in Tasks
            PROVE  /\ f[t] \in Seq(Nat) /\ g[t] \in Seq(Nat) /\ Len(f[t]) = Len(g[t])
                   /\ \A n \in 1 .. Len(f[t]) : f[t][n] <= g[t][n]
        <4> DEFINE r == [n \in DOMAIN ledger[t] |-> UpToCap(Counted(t, n), u)]
                   k == Len(Attempts(t))
        <4>1. /\ DOMAIN ledger[t] = 1 .. k /\ k \in Nat
              /\ \A n \in 1 .. k : Counted(t, n) \in Amount
          BY <2>4, <3>1, LedgerFacts, NoneOfThem, StateFacts DEF Inv, Counted, Attempts
        <4>2. r \in [1 .. k -> Nat] /\ \A n \in 1 .. k : r[n] = UpToCap(Counted(t, n), u)
          BY <4>1, CappedFacts
        <4>3. f[t] = r
          OBVIOUS
        <4>4. /\ g[t] \in Seq(Nat) /\ Len(g[t]) = k
              /\ \A n \in 1 .. k : g[t][n] = UpToCap(Attempts(t)[n].debit, u)
          BY <3>1, CappedRows DEF Attempts
        <4>5. \A n \in 1 .. k :
                  UpToCap(Counted(t, n), u) <= UpToCap(Attempts(t)[n].debit, u)
          BY <2>4 DEF Inv, OnRecord
        <4> HIDE DEF r, k, f, g
        <4>6. r \in Seq(Nat) /\ Len(r) = k
          BY <4>1, <4>2, NumbersInARow
        <4>7. QED
          BY <4>2, <4>3, <4>4, <4>5, <4>6
      <3> HIDE DEF f, g
      <3>3. SumAll(f, Fixtures) <= SumAll(g, Fixtures)
        BY <3>2, FixtureFacts, SumAllMonotone
      <3>4. SumAll(f, Fixtures) \in Nat /\ SumAll(g, Fixtures) \in Nat
        BY <3>2, FixtureFacts, SumAllType
      <3>5. SumAll(g, Fixtures) <= Budget[u]
        BY <2>4 DEF Inv, DebitsWithinBudget, g
      <3>6. QED
        BY <2>1, <2>2, <3>3, <3>4, <3>5
    <2>5. QED
      BY <2>3, <2>4
  <1>2. QED
    BY <1>1, InvariantHolds, PTL

\* A child that can still spend has its whole reservation on disk, unless its
\* attempt was settled without it.
THEOREM CohortReservedWhileSpending == Spec => []ReservedWhileSpending
  <1>1. Inv => ReservedWhileSpending
    <2> SUFFICES ASSUME Inv, NEW child \in children \ detached
                 PROVE  /\ saved # NoState
                        /\ child[2] \in DOMAIN saved.tasks[child[1]].attempts
                        /\ saved.tasks[child[1]].attempts[child[2]].debit = Reservation
      BY DEF ReservedWhileSpending
    <2>1. /\ saved # NoState /\ child[2] \in 1 .. Len(Attempts(child[1]))
          /\ Attempts(child[1])[child[2]].debit = Reservation /\ child[1] \in Tasks
      BY DEF Inv, Types, Reserved
    <2>2. saved \in CohortState
      BY <2>1, SavedFacts DEF Inv
    <2>3. QED
      BY <2>1, <2>2, StateFacts DEF Attempts
  <1>2. QED
    BY <1>1, InvariantHolds, PTL

\* No task is attempted twice in a start, and an abandoned attempt costs the
\* task the start that finds it.
THEOREM CohortOneAttemptPerStart == Spec => []OneAttemptPerStart
  <1>1. Inv => OneAttemptPerStart
    <2> SUFFICES ASSUME Inv, saved # NoState, NEW t \in Tasks
                 PROVE  Len(Attempts(t)) + Cardinality(AbandonedOf(t)) <= starts
      BY DEF OneAttemptPerStart, Attempts, AbandonedOf
    <2>1. saved \in CohortState /\ starts \in Nat
      BY SavedFacts DEF Inv, Types
    <2>2. Len(Attempts(t)) \in Nat /\ Cardinality(AbandonedOf(t)) \in Nat
      BY <2>1, AbandonedFinite
    <2>3. Len(Attempts(t)) + Cardinality(AbandonedOf(t))
              + (IF pc = "down" \/ t \in attempted THEN 0 ELSE 1) <= starts
      BY DEF Inv, StartsPaid
    <2>4. QED
      BY <2>1, <2>2, <2>3
  <1>2. QED
    BY <1>1, InvariantHolds, PTL

\* Completed tasks and published candidates are never taken back by the
\* scheduler.
THEOREM CohortCompletedIsFinal == Spec => CompletedIsFinal
  <1> DEFINE Kept(t) ==
                 saved # NoState /\ saved.tasks[t].status = "completed" =>
                     saved'.tasks[t] = saved.tasks[t] /\ Len(ledger'[t]) = Len(ledger[t])
             Stays(t) ==
                 published[t] # Missing =>
                     published'[t] = published[t] \/ t \in changed' \ changed
  <1>1. ASSUME Inv, [Next]_vars, NEW t \in Tasks PROVE Kept(t)
    <2> SUFFICES ASSUME saved # NoState, saved.tasks[t].status = "completed"
                 PROVE  saved'.tasks[t] = saved.tasks[t] /\ Len(ledger'[t]) = Len(ledger[t])
      OBVIOUS
    <2>1. CASE Quiet
      BY <2>1 DEF Quiet
    <2>2. CASE Initialise
      BY <1>1, <2>2 DEF Initialise, Inv, Memory
    <2>3. CASE Reconciles
      <3>1. t \notin Abandoned(saved)
        BY <1>1, <2>3, StateFacts DEF Reconciles, Abandoned, Inv, OnRecord, Attempts
      <3>2. QED
        BY <2>3, <3>1 DEF Reconciles
    <2>4. CASE Ends
      BY <2>4 DEF Ends
    <2>5. CASE Reserves(Task)
      <3>1. t # Task
        BY <2>5 DEF Reserves
      <3>2. QED
        BY <1>1, <2>5, <3>1 DEF Reserves, Inv, Types
    <2>6. CASE Settles(Task)
      BY <2>6 DEF Settles
    <2>7. CASE \E c \in Tasks : \E n \in Nat : Spends(c, n)
      <3>1. OnRecord' /\ saved' = saved
        BY <1>1, <2>7, OnRecordStep DEF Spends
      <3>2. Len(ledger[t]) = Len(Attempts(t)) /\ Len(ledger'[t]) = Len(Attempts(t))
        BY <1>1, <3>1 DEF Inv, OnRecord, Attempts
      <3>3. QED
        BY <3>1, <3>2
    <2>8. QED
      BY <1>1, <2>1, <2>2, <2>3, <2>4, <2>5, <2>6, <2>7, Kinds
  <1>2. ASSUME Inv, [Next]_vars, NEW t \in Tasks PROVE Stays(t)
    <2>1. CASE Publish
      BY <1>2, <2>1 DEF Publish, Inv, Types
    <2>2. CASE \E r \in Tasks : Tamper(r)
      BY <1>2, <2>2 DEF Tamper, Inv, Types
    <2>3. CASE Start \/ Initialise \/ Resume \/ PassCompleted \/ RaiseAtCompleted \/ PassAttempted
      BY <2>3 DEF Start, Initialise, Resume, PassCompleted, RaiseAtCompleted, PassAttempted, disk
    <2>4. CASE StopOnBudget \/ Reserve \/ AttemptFails \/ AttemptPasses
      BY <2>4 DEF StopOnBudget, Reserve, AttemptFails, AttemptPasses, disk
    <2>5. CASE RaiseAtPublish \/ Record \/ Finish \/ Crash
      BY <2>5 DEF RaiseAtPublish, Record, Finish, Crash, disk
    <2>6. CASE Bystander /\ ~ \E r \in Tasks : Tamper(r)
      BY <2>6 DEF Bystander, ProviderCall, OrphanEnds, vars, disk
    <2>7. QED
      BY <1>2, <2>1, <2>2, <2>3, <2>4, <2>5, <2>6 DEF Next, SchedulerStep, Bystander
  <1>3. Inv /\ [Next]_vars =>
            [\A t \in Tasks :
                /\ saved # NoState /\ saved.tasks[t].status = "completed" =>
                       saved'.tasks[t] = saved.tasks[t] /\ Len(ledger'[t]) = Len(ledger[t])
                /\ published[t] # Missing =>
                       published'[t] = published[t] \/ t \in changed' \ changed]_vars
    BY <1>1, <1>2
  <1>4. QED
    BY <1>3, InvariantHolds, PTL DEF Spec, CompletedIsFinal

\* A start that ends completed leaves every recorded candidate in place, but
\* for what was tampered with while it ran.
THEOREM CohortCompletionIsBacked == Spec => CompletionIsBacked
  <1> DEFINE Completes == saved # NoState /\ saved'.status = "completed"
                              /\ saved.status # "completed"
             Backed(t) == /\ published[t] # Missing
                          /\ published[t] = saved'.tasks[t].candidate_sha256
  <1>1. ASSUME Inv, [Next]_vars, Completes, NEW t \in Tasks \ changed PROVE Backed(t)
    <2>1. saved' # saved
      BY <1>1
    <2>2. CASE Finish
      <3>1. /\ pc = "loop" /\ next = Len(Fixtures) + 1 /\ saved'.tasks = saved.tasks
            /\ saved.tasks[t].status = "completed" /\ state # NoState
        BY <1>1, <2>2, FinishEnds DEF Ends, Inv, Memory
      <3>2. PICK i \in 1 .. Len(Fixtures) : Fixtures[i] = t
        BY <1>1, FixtureFacts
      <3>3. i \in 1 .. next - 1
        BY <3>1, FixtureFacts
      <3>4. QED
        BY <1>1, <3>1, <3>2, <3>3 DEF Inv, PassedAreBacked
    <2>3. CASE Resume
      BY <1>1, <2>3, ResumeReconciles DEF Reconciles
    <2>4. CASE Reserve \/ AttemptFails \/ Record
      BY <1>1, <2>4, ReserveReserves, AttemptFailsSettles, RecordSettles DEF Reserves, Settles
    <2>5. CASE Initialise
      BY <1>1, <2>5 DEF Initialise, Inv, Memory
    <2>6. CASE \/ Start \/ PassCompleted \/ RaiseAtCompleted \/ PassAttempted \/ StopOnBudget
               \/ AttemptPasses \/ Publish \/ RaiseAtPublish \/ Crash \/ Bystander
      <3>1. saved' = saved
        BY <2>6, BystanderFacts, QuietSteps DEF Quiet
      <3>2. QED
        BY <2>1, <3>1
    <2>7. QED
      BY <1>1, <2>2, <2>3, <2>4, <2>5, <2>6 DEF Next, SchedulerStep, Bystander
  <1>2. Inv /\ [Next]_vars => [Completes => \A t \in Tasks \ changed : Backed(t)]_vars
    BY <1>1
  <1>3. QED
    BY <1>2, InvariantHolds, PTL DEF Spec, CompletionIsBacked
-----------------------------------------------------------------------------
(***************************************************************************)
(* The scheduler implements CohortAccount.                                 *)
(***************************************************************************)

\* What the totals in cohort.json need besides Inv: a running attempt has used
\* nothing yet and is the only one, ledgers report what they may, and a start
\* stops at a budget that refuses another reservation.
Accounting ==
    /\ \A t \in Tasks : \A n \in DOMAIN ledger[t] : ledger[t][n] \in {NoLedger} \cup Reportable
    /\ saved # NoState =>
           \A t, r \in Tasks :
               \A n \in 1 .. Len(Attempts(t)), m \in 1 .. Len(Attempts(r)) :
                   Attempts(t)[n].status = "running" =>
                       /\ Attempts(t)[n].usage = Nothing
                       /\ Attempts(r)[m].status = "running" => t = r
    /\ pc = "finish" =>
           /\ state.status \in {"stopped_token_budget", "stopped_cost_budget"}
           /\ \E u \in Units : Debited(saved, u) + Reservation[u] > Budget[u]

\* Ledgers are changed by Reserve and by ProviderCall only.
LEMMA ReportsStep ==
    ASSUME Inv, Accounting, [Next]_vars
    PROVE  \A t \in Tasks : \A n \in DOMAIN ledger'[t] : ledger'[t][n] \in {NoLedger} \cup Reportable
  <1> DEFINE R == {NoLedger} \cup Reportable
  <1>1. \A t \in Tasks : \A n \in DOMAIN ledger[t] : ledger[t][n] \in R
    BY DEF Accounting
  <1>2. ledger \in [Tasks -> Seq({NoLedger} \cup Amount)]
    BY DEF Inv, Types
  <1>3. CASE Reserve
    <2>1. /\ ledger' = [ledger EXCEPT ![Task] = Append(@, NoLedger)] /\ Task \in Tasks
      BY <1>3, TaskFacts DEF Reserve, AtTask, Inv
    <2> SUFFICES ASSUME NEW t \in Tasks, NEW n \in DOMAIN ledger'[t] PROVE ledger'[t][n] \in R
      OBVIOUS
    <2>2. CASE t # Task
      BY <1>1, <1>2, <2>1, <2>2
    <2>3. CASE t = Task
      <3> DEFINE l == ledger[t]
                 k == Append(l, NoLedger)
      <3>1. ledger'[t] = k /\ l \in Seq({NoLedger} \cup Amount)
        BY <1>2, <2>1, <2>3
      <3>2. \A m \in DOMAIN l : l[m] \in R
        BY <1>1
      <3>3. NoLedger \in R
        OBVIOUS
      <3> HIDE DEF l, R
      <3>4. DOMAIN k = 1 .. Len(l) + 1 /\ k[Len(l) + 1] = NoLedger
            /\ Len(l) \in Nat /\ \A m \in 1 .. Len(l) : k[m] = l[m] /\ m \in DOMAIN l
        BY <3>1
      <3> HIDE DEF k
      <3>5. QED
        BY <3>1, <3>2, <3>3, <3>4
    <2>4. QED
      BY <2>2, <2>3
  <1>4. CASE \E c \in children : \E charge \in Charges : ProviderCall(c[1], c[2], charge)
    <2>1. PICK t \in Tasks, m \in Nat, total \in Reportable : ledger' = [ledger EXCEPT ![t][m] = total]
      BY <1>4 DEF ProviderCall, Inv, Types
    <2> SUFFICES ASSUME NEW q \in Tasks, NEW n \in DOMAIN ledger'[q] PROVE ledger'[q][n] \in R
      OBVIOUS
    <2>2. CASE q # t
      BY <1>1, <1>2, <2>1, <2>2
    <2>3. CASE q = t
      <3>1. ledger'[q] = [ledger[q] EXCEPT ![m] = total]
        BY <1>2, <2>1, <2>3
      <3>2. n \in DOMAIN ledger[q]
        BY <3>1
      <3>3. QED
        BY <1>1, <3>1, <3>2
    <2>4. QED
      BY <2>2, <2>3
  <1>5. CASE ~ Reserve /\ ~ \E c \in children : \E charge \in Charges :
                                ProviderCall(c[1], c[2], charge)
    <2>1. ledger' = ledger
      <3>1. CASE \/ Start \/ Initialise \/ Resume \/ PassCompleted \/ RaiseAtCompleted
                 \/ PassAttempted \/ StopOnBudget \/ AttemptFails
        BY <3>1 DEF Start, Initialise, Resume, PassCompleted, RaiseAtCompleted, PassAttempted,
                    StopOnBudget, AttemptFails, AtTask, disk
      <3>2. CASE AttemptPasses \/ Publish \/ RaiseAtPublish \/ Record \/ Finish \/ Crash
        BY <3>2 DEF AttemptPasses, Publish, RaiseAtPublish, Record, Finish, Crash, disk
      <3>3. CASE Bystander
        BY <1>5, <3>3 DEF Bystander, OrphanEnds, Tamper, vars, disk
      <3>4. QED
        BY <1>5, <3>1, <3>2, <3>3 DEF Next, SchedulerStep, Bystander
    <2>2. QED
      BY <1>1, <2>1
  <1>6. QED
    BY <1>3, <1>4, <1>5

\* A running attempt has used nothing and is the only one.
AloneAndUnused(t, n) ==
    /\ Attempts(t)[n].usage = Nothing
    /\ \A r \in Tasks : \A m \in 1 .. Len(Attempts(r)) :
           Attempts(r)[m].status = "running" => t = r

\* Of all attempts on record at most one task's are running, and they used nothing
\* that the totals of cohort.json would have to count.
LEMMA AloneStep ==
    ASSUME Inv, Accounting, [Next]_vars, saved' # NoState,
           NEW t \in Tasks, NEW n \in 1 .. Len(Attempts(t)'), Attempts(t)'[n].status = "running"
    PROVE  AloneAndUnused(t, n)'
  <1>1. saved # NoState =>
            \A q \in Tasks : \A m \in 1 .. Len(Attempts(q)) :
                Attempts(q)[m].status = "running" => AloneAndUnused(q, m)
    BY DEF Accounting, AloneAndUnused
  <1>2. CASE Quiet \/ Ends \/ \E c \in Tasks : \E m \in Nat : Spends(c, m)
    <2>1. saved # NoState /\ saved'.tasks = saved.tasks
      BY <1>2, NoneOfThem DEF Quiet, Ends, Spends
    <2>2. \A q \in Tasks : Attempts(q)' = Attempts(q)
      BY <2>1 DEF Attempts
    <2>3. AloneAndUnused(t, n)
      BY <1>1, <2>1, <2>2
    <2>4. QED
      BY <2>2, <2>3 DEF AloneAndUnused
  <1>3. CASE Initialise
    BY <1>3 DEF Initialise, InitialState, Attempts
  <1>4. CASE Reconciles
    BY <1>4, ClosedFacts DEF Reconciles, Attempts
  <1>5. CASE Task \in Tasks /\ Reserves(Task)
    <2> DEFINE a == [status |-> "running", usage |-> Nothing, debit |-> Reservation]
    <2>1. saved # NoState /\ saved \in CohortState
      BY <1>5, NoneOfThem DEF Reserves
    <2>2. ASSUME NEW q \in Tasks, NEW m \in 1 .. Len(Attempts(q)'),
                 Attempts(q)'[m].status = "running"
          PROVE  q = Task /\ Attempts(q)'[m] = a
      <3>1. q = Task
        BY <1>5, <2>2 DEF Reserves, Attempts
      <3> DEFINE h == Attempts(q)
                 k == Attempts(q)'
      <3>2. k = Append(h, a) /\ h \in Seq(Attempt)
            /\ \A i \in 1 .. Len(h) : h[i].status # "running"
        BY <1>5, <2>1, <3>1, StateFacts DEF Reserves, Attempts
      <3> HIDE DEF h, a
      <3>3. /\ Len(k) = Len(h) + 1 /\ Len(h) \in Nat /\ k[Len(h) + 1] = a
            /\ \A i \in 1 .. Len(h) : k[i] = h[i]
        BY <3>2
      <3> HIDE DEF k
      <3>4. m \in 1 .. Len(k) /\ k[m].status = "running"
        BY <2>2 DEF k
      <3>5. m = Len(h) + 1
        BY <3>2, <3>3, <3>4
      <3>6. QED
        BY <3>1, <3>3, <3>5 DEF k
    <2>3. Attempts(t)'[n].usage = Nothing /\ t = Task
      BY <2>2
    <2>4. QED
      BY <2>2, <2>3 DEF AloneAndUnused
  <1>6. CASE Task \in Tasks /\ Settles(Task)
    <2>1. saved # NoState /\ saved \in CohortState
      BY <1>6, NoneOfThem DEF Settles
    <2>2. ASSUME NEW q \in Tasks, NEW m \in 1 .. Len(Attempts(q)'),
                 Attempts(q)'[m].status = "running"
          PROVE  m \in 1 .. Len(Attempts(q)) /\ Attempts(q)'[m] = Attempts(q)[m]
      <3>1. CASE q # Task
        BY <1>6, <2>2, <3>1 DEF Settles, Attempts
      <3>2. CASE q = Task
        <4>1. Len(Attempts(q)) \in Nat /\ Len(Attempts(q)') = Len(Attempts(q))
              /\ Attempts(q)'[Len(Attempts(q))].status # "running"
          BY <1>6, <2>1, <3>2, StateFacts DEF Settles, Attempts
        <4>2. m # Len(Attempts(q))
          BY <2>2, <4>1
        <4>3. m \in 1 .. Len(Attempts(q)) - 1
          BY <4>1, <4>2
        <4>4. QED
          BY <1>6, <3>2, <4>1, <4>3 DEF Settles, Attempts
      <3>3. QED
        BY <3>1, <3>2
    <2>3. Attempts(t)[n].status = "running" /\ n \in 1 .. Len(Attempts(t))
      BY <2>2
    <2>4. AloneAndUnused(t, n)
      BY <1>1, <2>1, <2>3
    <2>5. QED
      BY <2>2, <2>4 DEF AloneAndUnused
  <1>7. QED
    BY <1>2, <1>3, <1>4, <1>5, <1>6, Kinds

\* A start that breaks off its loop does so at a budget.
LEMMA StoppedStep ==
    ASSUME Inv, Accounting, [Next]_vars, pc' = "finish"
    PROVE  /\ state'.status \in {"stopped_token_budget", "stopped_cost_budget"}
           /\ \E u \in Units : Debited(saved', u) + Reservation[u] > Budget[u]
  <1>1. CASE StopOnBudget
    <2>1. state = saved /\ saved' = saved /\ state \in CohortState /\ Exceeded # {}
      BY <1>1, SavedFacts DEF StopOnBudget, AtTask, disk, Inv, Memory
    <2>2. \E u \in Units : Debited(saved', u) + Reservation[u] > Budget[u]
      BY <2>1 DEF Exceeded
    <2>3. state'.status \in {"stopped_token_budget", "stopped_cost_budget"}
      BY <1>1, <2>1 DEF StopOnBudget, CohortState
    <2>4. QED
      BY <2>2, <2>3
  <1>2. CASE Bystander
    BY <1>2, BystanderFacts DEF Accounting
  <1>3. CASE ~StopOnBudget /\ ~Bystander
    <2>1. pc' # "finish"
      BY <1>3, LeaveFacts
         DEF Next, SchedulerStep, Bystander, Start, Initialise, Resume, PassCompleted,
             RaiseAtCompleted, PassAttempted, Reserve, AttemptFails, AttemptPasses, Publish,
             RaiseAtPublish, Record, Finish, Crash, AtTask
    <2>2. QED
      BY <2>1
  <1>4. QED
    BY <1>1, <1>2, <1>3

\* What the totals of cohort.json rest on holds through every kill and restart
\* (_recalculate_usage).
THEOREM AccountingHolds == Spec => []Accounting
  <1>1. Init => Accounting
    BY DEF Init, Accounting
  <1>2. Inv /\ Accounting /\ [Next]_vars => Accounting'
    <2> SUFFICES ASSUME Inv, Accounting, [Next]_vars PROVE Accounting'
      OBVIOUS
    <2>1. saved' # NoState =>
              \A t, r \in Tasks :
                  \A n \in 1 .. Len(Attempts(t)'), m \in 1 .. Len(Attempts(r)') :
                      Attempts(t)'[n].status = "running" =>
                          /\ Attempts(t)'[n].usage = Nothing
                          /\ Attempts(r)'[m].status = "running" => t = r
      BY AloneStep DEF AloneAndUnused
    <2>2. QED
      BY <2>1, ReportsStep, StoppedStep DEF Accounting
  <1>3. QED
    BY <1>1, <1>2, InvariantHolds, PTL DEF Spec

\* Rows of numbers, one for each task, that differ for t only ...
RowsApartFrom(f, g, t) ==
    /\ \A q \in Tasks : f[q] \in Seq(Nat) /\ g[q] \in Seq(Nat)
    /\ \A q \in Tasks \ {t} : g[q] = f[q]

\* ... namely by one more number, or at one place.
RowLonger(r, s, x) ==
    /\ Len(s) = Len(r) + 1 /\ s[Len(r) + 1] = x
    /\ \A n \in 1 .. Len(r) : s[n] = r[n]

RowChanged(r, s, j) ==
    /\ Len(s) = Len(r) /\ j \in 1 .. Len(r)
    /\ \A n \in 1 .. Len(r) : n # j => s[n] = r[n]

\* One more number in the row of one task.
LEMMA RowsAppended ==
    ASSUME NEW f, NEW g, NEW t \in Tasks, NEW x \in Nat,
           RowsApartFrom(f, g, t), RowLonger(f[t], g[t], x)
    PROVE  SumAll(f, Fixtures) \in Nat /\ SumAll(g, Fixtures) = SumAll(f, Fixtures) + x
  <1> DEFINE r == f[t]
             s == g[t]
  <1>1. r \in Seq(Nat) /\ s \in Seq(Nat) /\ Len(s) = Len(r) + 1 /\ s[Len(r) + 1] = x
        /\ \A n \in 1 .. Len(r) : s[n] = r[n]
    BY DEF RowsApartFrom, RowLonger
  <1>2. s = Append(r, x)
    <2> HIDE DEF r, s
    <2>1. QED
      BY <1>1
  <1>3. SumSeq(r) \in Nat /\ SumSeq(s) = SumSeq(r) - 0 + x
    <2> HIDE DEF r, s
    <2>1. SumSeq(r) \in Nat /\ SumSeq(Append(r, x)) = SumSeq(r) + x
      BY <1>1, SumSeqType, SumSeqAppend
    <2>2. QED
      BY <1>2, <2>1
  <1>4. PICK j \in 1 .. Len(Fixtures) : Fixtures[j] = t
    BY FixtureFacts
  <1>5. \A i \in 1 .. Len(Fixtures) :
            /\ f[Fixtures[i]] \in Seq(Nat) /\ g[Fixtures[i]] \in Seq(Nat)
            /\ i # j => f[Fixtures[i]] = g[Fixtures[i]]
    BY <1>4, FixtureFacts DEF RowsApartFrom
  <1>6. SumAll(g, Fixtures) = SumAll(f, Fixtures) - 0 + x
    <2>1. SumSeq(g[Fixtures[j]]) = SumSeq(f[Fixtures[j]]) - 0 + x /\ Len(Fixtures) \in Nat
      BY <1>3, <1>4, FixtureFacts
    <2>2. QED
      BY <1>5, <2>1, SumAllChanged
  <1>7. SumAll(f, Fixtures) \in Nat
    BY <1>5, FixtureFacts, SumAllType
  <1>8. QED
    BY <1>6, <1>7

\* Another number at one place in the row of one task.
LEMMA RowsChanged ==
    ASSUME NEW f, NEW g, NEW t \in Tasks, NEW j,
           RowsApartFrom(f, g, t), RowChanged(f[t], g[t], j)
    PROVE  /\ SumAll(f, Fixtures) \in Nat
           /\ SumAll(g, Fixtures) = SumAll(f, Fixtures) - f[t][j] + g[t][j]
  <1> DEFINE r == f[t]
             s == g[t]
  <1>1. /\ r \in Seq(Nat) /\ s \in Seq(Nat) /\ Len(s) = Len(r) /\ j \in 1 .. Len(r)
        /\ \A n \in 1 .. Len(r) : n # j => s[n] = r[n]
    BY DEF RowsApartFrom, RowChanged
  <1>2. SumSeq(s) = SumSeq(r) - r[j] + s[j] /\ r[j] \in Nat /\ s[j] \in Nat
    <2> HIDE DEF r, s
    <2>1. QED
      BY <1>1, SumSeqChanged
  <1>3. PICK i \in 1 .. Len(Fixtures) : Fixtures[i] = t
    BY FixtureFacts
  <1>4. \A k \in 1 .. Len(Fixtures) :
            /\ f[Fixtures[k]] \in Seq(Nat) /\ g[Fixtures[k]] \in Seq(Nat)
            /\ k # i => f[Fixtures[k]] = g[Fixtures[k]]
    BY <1>3, FixtureFacts DEF RowsApartFrom
  <1>5. SumAll(g, Fixtures) = SumAll(f, Fixtures) - r[j] + s[j]
    <2>1. SumSeq(g[Fixtures[i]]) = SumSeq(f[Fixtures[i]]) - r[j] + s[j] /\ Len(Fixtures) \in Nat
          /\ r[j] \in Nat /\ s[j] \in Nat
      BY <1>2, <1>3, FixtureFacts
    <2> HIDE DEF r, s
    <2>2. QED
      BY <1>4, <2>1, SumAllChanged
  <1>6. SumAll(f, Fixtures) \in Nat
    BY <1>4, FixtureFacts, SumAllType
  <1>7. QED
    BY <1>5, <1>6

\* What a task's attempts used is a sequence of numbers.
LEMMA UsageRows ==
    ASSUME NEW s \in CohortState, NEW t \in Tasks, NEW u \in Units
    PROVE  /\ Usages(s, u)[t] \in Seq(Nat)
           /\ Len(Usages(s, u)[t]) = Len(s.tasks[t].attempts)
           /\ \A n \in 1 .. Len(s.tasks[t].attempts) :
                  Usages(s, u)[t][n] = s.tasks[t].attempts[n].usage[u]
  <1> DEFINE h == s.tasks[t].attempts
             d == [n \in DOMAIN h |-> h[n].usage[u]]
  <1>1. Len(h) \in Nat /\ DOMAIN h = 1 .. Len(h) /\ \A n \in 1 .. Len(h) : h[n].usage \in Amount
    BY StateFacts
  <1>2. d \in [1 .. Len(h) -> Nat] /\ \A n \in 1 .. Len(h) : d[n] = h[n].usage[u]
    BY <1>1, CappedFacts
  <1>3. Usages(s, u)[t] = d
    BY DEF Usages
  <1> HIDE DEF d
  <1>4. QED
    BY <1>1, <1>2, <1>3, NumbersInARow

\* There are as many tasks as fixtures.
LEMMA TaskCount == IsFiniteSet(Tasks) /\ Cardinality(Tasks) = Len(Fixtures)
  <1> DEFINE D == 1 .. Len(Fixtures)
             F == [i \in D |-> Fixtures[i]]
  <1>1. IsFiniteSet(D) /\ Cardinality(D) = Len(Fixtures)
    BY FixtureFacts, FS_Interval
  <1>2. F \in Surjection(D, Tasks) /\ F \in Injection(D, Tasks)
    BY FixtureFacts DEF Surjection, Injection, IsInjective
  <1> HIDE DEF D, F
  <1>3. QED
    BY <1>1, <1>2, FS_Surjection

CompletedTasks(s) == {t \in Tasks : s.tasks[t].status = "completed"}

\* The completed tasks are finitely many; they are as many as there are
\* fixtures when they are all of them.
LEMMA CompletedCount ==
    ASSUME NEW s
    PROVE  /\ IsFiniteSet(CompletedTasks(s)) /\ Cardinality(CompletedTasks(s)) \in Nat
           /\ Cardinality(CompletedTasks(s)) <= Len(Fixtures)
           /\ Cardinality(CompletedTasks(s)) = Len(Fixtures)
                  <=> \A t \in Tasks : s.tasks[t].status = "completed"
  <1>1. CompletedTasks(s) \in SUBSET Tasks
    BY DEF CompletedTasks
  <1>2. /\ IsFiniteSet(CompletedTasks(s))
        /\ Cardinality(CompletedTasks(s)) <= Cardinality(Tasks)
        /\ Cardinality(Tasks) = Cardinality(CompletedTasks(s)) => Tasks = CompletedTasks(s)
    BY <1>1, TaskCount, FS_Subset
  <1>3. (\A t \in Tasks : s.tasks[t].status = "completed") <=> CompletedTasks(s) = Tasks
    BY DEF CompletedTasks
  <1>4. QED
    BY <1>2, <1>3, TaskCount, FS_CardinalityType

ShownStatus(s) ==
    IF s.status \in {"stopped_token_budget", "stopped_cost_budget"} THEN "stopped" ELSE s.status

UsedBy(s) == [u \in Units |-> SumAll(Usages(s, u), Fixtures)]
DebitedBy(s) == [u \in Units |-> Debited(s, u)]

\* A state on record shows its totals, and is not the absence of one.
LEMMA ShownIs ==
    ASSUME NEW s \in CohortState
    PROVE  /\ Shown(s) = [status |-> ShownStatus(s), completed |-> Cardinality(CompletedTasks(s)),
                          used |-> UsedBy(s), debited |-> DebitedBy(s),
                          open |-> Abandoned(s) # {}]
           /\ Shown(s) # Cohort!NoAccount
           /\ UsedBy(s) \in Amount /\ DebitedBy(s) \in Amount
  <1>1. Shown(s) = [status |-> ShownStatus(s), completed |-> Cardinality(CompletedTasks(s)),
                    used |-> UsedBy(s), debited |-> DebitedBy(s), open |-> Abandoned(s) # {}]
    BY NoneOfThem DEF Shown, ShownStatus, CompletedTasks, UsedBy, DebitedBy
  <1>2. Shown(s).status # "none"
    BY <1>1 DEF ShownStatus, CohortState
  <1>3. Shown(s) # Cohort!NoAccount
    BY <1>2 DEF Cohort!NoAccount
  <1>4. \A u \in Units : SumAll(Usages(s, u), Fixtures) \in Nat /\ Debited(s, u) \in Nat
    BY UsageRows, DebitRows, FixtureFacts, SumAllType DEF Debited
  <1>5. UsedBy(s) \in Amount /\ DebitedBy(s) \in Amount
    BY <1>4 DEF UsedBy, DebitedBy, Amount
  <1>6. QED
    BY <1>1, <1>3, <1>5

\* The abstract steps on an account, field by field.
LEMMA AccountFields ==
    ASSUME NEW a, NEW st, NEW c, NEW x, NEW d, NEW o,
           a = [status |-> st, completed |-> c, used |-> x, debited |-> d, open |-> o],
           NEW st2, NEW c2, NEW x2, NEW d2, NEW o2
    PROVE  /\ [a EXCEPT !.status = st2, !.open = o2, !.used = x2]
                = [status |-> st2, completed |-> c, used |-> x2, debited |-> d, open |-> o2]
           /\ [a EXCEPT !.open = o2, !.debited = d2]
                = [status |-> st, completed |-> c, used |-> x, debited |-> d2, open |-> o2]
           /\ [a EXCEPT !.open = o2, !.completed = c2, !.used = x2, !.debited = d2]
                = [status |-> st, completed |-> c2, used |-> x2, debited |-> d2, open |-> o2]
  <1>1. a \in [status : {st}, completed : {c}, used : {x}, debited : {d}, open : {o}]
    OBVIOUS
  <1>2. [a EXCEPT !.status = st2, !.open = o2, !.used = x2]
            = [status |-> st2, completed |-> c, used |-> x2, debited |-> d, open |-> o2]
    <2> DEFINE z == [a EXCEPT !.status = st2, !.open = o2, !.used = x2]
    <2>1. z \in [status : {st2}, completed : {c}, used : {x2}, debited : {d}, open : {o2}]
      BY <1>1
    <2> HIDE DEF z
    <2>2. z = [status |-> st2, completed |-> c, used |-> x2, debited |-> d, open |-> o2]
      BY <2>1
    <2>3. QED
      BY <2>2 DEF z
  <1>3. [a EXCEPT !.open = o2, !.debited = d2]
            = [status |-> st, completed |-> c, used |-> x, debited |-> d2, open |-> o2]
    <2> DEFINE z == [a EXCEPT !.open = o2, !.debited = d2]
    <2>1. z \in [status : {st}, completed : {c}, used : {x}, debited : {d2}, open : {o2}]
      BY <1>1
    <2> HIDE DEF z
    <2>2. z = [status |-> st, completed |-> c, used |-> x, debited |-> d2, open |-> o2]
      BY <2>1
    <2>3. QED
      BY <2>2 DEF z
  <1>4. [a EXCEPT !.open = o2, !.completed = c2, !.used = x2, !.debited = d2]
            = [status |-> st, completed |-> c2, used |-> x2, debited |-> d2, open |-> o2]
    <2> DEFINE z == [a EXCEPT !.open = o2, !.completed = c2, !.used = x2, !.debited = d2]
    <2>1. z \in [status : {st}, completed : {c2}, used : {x2}, debited : {d2}, open : {o2}]
      BY <1>1
    <2> HIDE DEF z
    <2>2. z = [status |-> st, completed |-> c2, used |-> x2, debited |-> d2, open |-> o2]
      BY <2>1
    <2>3. QED
      BY <2>2 DEF z
  <1>5. QED
    BY <1>2, <1>3, <1>4

\* Two amounts added unit by unit.
LEMMA PlusIs ==
    ASSUME NEW x \in Amount, NEW y \in Amount, NEW z \in Amount,
           \A u \in Units : z[u] = x[u] + y[u]
    PROVE  Cohort!Plus(x, y) = z
  <1>1. z = [u \in Units |-> x[u] + y[u]]
    BY DEF Amount
  <1>2. QED
    BY <1>1 DEF Cohort!Plus, Cohort!Units, Units

\* What an account finds used is what the scheduler does.
LEMMA UsedInIs ==
    /\ \A report : Cohort!UsedIn(report) = UsageIn(report)
    /\ Cohort!NoReport = NoLedger
  BY DEF Cohort!UsedIn, UsageIn, Cohort!NoReport, NoLedger, Cohort!Nothing, Nothing,
         Cohort!Units, Units

\* The same debits in all attempts add up to the same.
LEMMA SameDebits ==
    ASSUME NEW s \in CohortState, NEW z \in CohortState,
           \A t \in Tasks :
               /\ Len(z.tasks[t].attempts) = Len(s.tasks[t].attempts)
               /\ \A n \in 1 .. Len(s.tasks[t].attempts) :
                      z.tasks[t].attempts[n].debit = s.tasks[t].attempts[n].debit
    PROVE  DebitedBy(z) = DebitedBy(s)
  <1>1. ASSUME NEW u \in Units, NEW t \in Tasks PROVE Debits(z, u)[t] = Debits(s, u)[t]
    <2> DEFINE f == Debits(s, u)[t]
               g == Debits(z, u)[t]
    <2>1. /\ f \in Seq(Nat) /\ g \in Seq(Nat) /\ Len(f) = Len(g)
          /\ \A n \in 1 .. Len(f) : f[n] = g[n]
      <3> DEFINE h == s.tasks[t].attempts
                 k == z.tasks[t].attempts
      <3>1. f \in Seq(Nat) /\ Len(f) = Len(h) /\ \A n \in 1 .. Len(h) : f[n] = h[n].debit[u]
        BY DebitRows
      <3>2. g \in Seq(Nat) /\ Len(g) = Len(k) /\ \A n \in 1 .. Len(k) : g[n] = k[n].debit[u]
        BY DebitRows
      <3>3. Len(k) = Len(h) /\ \A n \in 1 .. Len(h) : k[n].debit = h[n].debit
        OBVIOUS
      <3> HIDE DEF f, g, h, k
      <3>4. QED
        BY <3>1, <3>2, <3>3
    <2> HIDE DEF f, g
    <2>2. f = g
      BY <2>1
    <2>3. QED
      BY <2>2 DEF f, g
  <1>2. \A u \in Units : Debits(z, u) = Debits(s, u)
    BY <1>1 DEF Debits
  <1>3. QED
    BY <1>2 DEF DebitedBy, Debited

\* Closing what a crash abandoned adds what it is found to have used.
LEMMA ReconcilesUsed ==
    ASSUME Inv, Accounting, Reconciles, NEW t \in Abandoned(saved)
    PROVE  /\ UsageIn(ledger[t][Len(Attempts(t))]) \in Amount
           /\ ledger[t][Len(Attempts(t))] \in {NoLedger} \cup Reportable
           /\ \A u \in Units :
                  UsedBy(saved')[u] = UsedBy(saved)[u] + UsageIn(ledger[t][Len(Attempts(t))])[u]
  <1> DEFINE h == Attempts(t)
             r == Attempts(t)'
             last == Len(h)
  <1>1. /\ saved \in CohortState /\ saved' \in CohortState /\ saved # NoState /\ t \in Tasks
    BY NoneOfThem DEF Reconciles, Abandoned
  <1>2. /\ last \in Nat /\ DOMAIN h = 1 .. last /\ Len(r) = last
        /\ \A n \in 1 .. last : r[n] = Closed(t, n, h[n])
    BY <1>1, StateFacts DEF Reconciles, Attempts
  <1>3. PICK n0 \in 1 .. last : h[n0].status = "running"
    BY <1>2 DEF Abandoned, Attempts
  <1>4. \A n \in 1 .. last : h[n].status = "running" => n = last
    BY <1>1 DEF Inv, OnRecord
  <1>5. last \in 1 .. last /\ h[last].status = "running"
    BY <1>3, <1>4
  <1>6. h[last].usage = Nothing /\ \A q \in Tasks \ {t} : q \notin Abandoned(saved)
    <2>1. \A q \in Tasks : \A m \in 1 .. Len(Attempts(q)) :
              Attempts(q)[m].status = "running" => q = t
      BY <1>1, <1>5 DEF Accounting
    <2>2. \A q \in Abandoned(saved) : \E m \in 1 .. Len(Attempts(q)) :
              Attempts(q)[m].status = "running"
      BY <1>1, StateFacts DEF Abandoned, Attempts
    <2>3. QED
      BY <1>1, <1>5, <2>1, <2>2 DEF Accounting, Abandoned
  <1>7. /\ ledger[t][last] \in {NoLedger} \cup Reportable
        /\ UsageIn(ledger[t][last]) \in Amount
    <2>1. last \in DOMAIN ledger[t] /\ ledger[t][last] \in {NoLedger} \cup Amount
      BY <1>1, <1>5, LedgerFacts DEF Inv
    <2>2. QED
      BY <1>1, <2>1, NoneOfThem DEF Accounting
  <1>8. r[last].usage = UsageIn(ledger[t][last])
    <2> HIDE DEF h, r, last
    <2>1. r[last] = Closed(t, last, h[last])
      BY <1>2, <1>5
    <2>2. QED
      BY <1>5, <2>1 DEF Closed
  <1>9. \A n \in 1 .. last : n # last => r[n] = h[n]
    <2> HIDE DEF h, r, last
    <2>1. QED
      BY <1>2, <1>4, ClosedFacts
  <1>10. ASSUME NEW u \in Units
         PROVE  UsedBy(saved')[u] = UsedBy(saved)[u] + UsageIn(ledger[t][last])[u]
    <2> DEFINE f == Usages(saved, u)
               g == Usages(saved', u)
    <2>1. \A q \in Tasks : f[q] \in Seq(Nat) /\ g[q] \in Seq(Nat)
      BY <1>1, UsageRows
    <2>2. \A q \in Tasks \ {t} : g[q] = f[q]
      BY <1>6 DEF Reconciles, Usages
    <2>3. /\ Len(f[t]) = last /\ Len(g[t]) = last
          /\ \A n \in 1 .. last : f[t][n] = h[n].usage[u] /\ g[t][n] = r[n].usage[u]
      BY <1>1, <1>2, UsageRows DEF Attempts
    <2>4. f[t][last] = 0 /\ g[t][last] = UsageIn(ledger[t][last])[u]
      BY <1>5, <1>6, <1>8, <2>3 DEF Nothing
    <2>5. UsageIn(ledger[t][last])[u] \in Nat
      BY <1>7 DEF Amount
    <2>6. \A n \in 1 .. last : n # last => g[t][n] = f[t][n]
      BY <1>9, <2>3
    <2> HIDE DEF f, g, h, r, last
    <2>7. /\ SumAll(f, Fixtures) \in Nat
          /\ SumAll(g, Fixtures) = SumAll(f, Fixtures) - f[t][last] + g[t][last]
      <3>1. RowChanged(f[t], g[t], last)
        BY <1>5, <2>3, <2>6 DEF RowChanged
      <3>2. RowsApartFrom(f, g, t) /\ t \in Tasks
        BY <1>1, <2>1, <2>2 DEF RowsApartFrom
      <3>3. QED
        BY <3>1, <3>2, RowsChanged
    <2>8. SumAll(g, Fixtures) = SumAll(f, Fixtures) + UsageIn(ledger[t][last])[u]
      BY <2>4, <2>5, <2>7
    <2>9. QED
      BY <2>8 DEF f, g, UsedBy
  <1>11. QED
    BY <1>7, <1>10

\* A start is shown as CohortAccount's Begun.
LEMMA ReconcilesShown ==
    ASSUME Inv, Accounting, Reconciles
    PROVE  \E report \in {NoLedger} \cup Reportable :
               Shown(saved') = Cohort!Begun(Shown(saved), report)
  <1> DEFINE a == Shown(saved)
             b == Shown(saved')
  <1>1. saved \in CohortState /\ saved' \in CohortState /\ saved'.status = "running"
        /\ saved # NoState
    BY NoneOfThem DEF Reconciles
  <1>2. /\ a = [status |-> ShownStatus(saved), completed |-> Cardinality(CompletedTasks(saved)),
                used |-> UsedBy(saved), debited |-> DebitedBy(saved),
                open |-> Abandoned(saved) # {}]
        /\ b = [status |-> ShownStatus(saved'), completed |-> Cardinality(CompletedTasks(saved')),
                used |-> UsedBy(saved'), debited |-> DebitedBy(saved'),
                open |-> Abandoned(saved') # {}]
        /\ UsedBy(saved) \in Amount /\ UsedBy(saved') \in Amount
    BY <1>1, ShownIs
  <1>3. ShownStatus(saved') = "running"
    BY <1>1 DEF ShownStatus
  <1>4. \A t \in Tasks : \A n \in 1 .. Len(Attempts(t)) :
            saved'.tasks[t].attempts[n] = Closed(t, n, Attempts(t)[n])
    BY DEF Reconciles
  <1>5. Abandoned(saved') = {}
    <2>1. \A t \in Tasks : DOMAIN saved'.tasks[t].attempts = 1 .. Len(Attempts(t))
      BY <1>1, StateFacts DEF Reconciles, Attempts
    <2>2. QED
      BY <1>4, <2>1, ClosedFacts DEF Abandoned
  <1>6. CompletedTasks(saved') = CompletedTasks(saved)
    <2>1. ASSUME NEW t \in Abandoned(saved) PROVE saved.tasks[t].status = "running"
      <3>1. t \in Tasks /\ \E n \in 1 .. Len(Attempts(t)) : Attempts(t)[n].status = "running"
        BY <1>1, StateFacts DEF Abandoned, Attempts
      <3>2. QED
        BY <1>1, <3>1 DEF Inv, OnRecord
    <2>2. QED
      BY <2>1 DEF CompletedTasks, Reconciles
  <1>7. DebitedBy(saved') = DebitedBy(saved)
    <2>1. ASSUME NEW t \in Tasks, NEW n \in 1 .. Len(Attempts(t))
          PROVE  saved'.tasks[t].attempts[n].debit = Attempts(t)[n].debit
      BY <1>1, <1>4, ClosedFacts DEF Inv, OnRecord
    <2>2. \A t \in Tasks : Len(saved'.tasks[t].attempts) = Len(Attempts(t))
      BY DEF Reconciles
    <2>3. QED
      BY <1>1, <2>1, <2>2, SameDebits DEF Attempts
  <1>8. a.open = (Abandoned(saved) # {}) /\ a.used = UsedBy(saved)
    BY <1>2
  <1>9. CASE Abandoned(saved) = {}
    <2>1. UsedBy(saved') = UsedBy(saved)
      <3>1. \A t \in Tasks : saved'.tasks[t] = saved.tasks[t]
        BY <1>9 DEF Reconciles
      <3>2. QED
        BY <3>1 DEF UsedBy, Usages
    <2>2. Cohort!Begun(a, NoLedger) = [a EXCEPT !.status = "running", !.open = FALSE,
                                                !.used = UsedBy(saved)]
      BY <1>8, <1>9 DEF Cohort!Begun
    <2> HIDE DEF a, b
    <2>3. Cohort!Begun(a, NoLedger) = b
      BY <1>2, <1>3, <1>5, <1>6, <1>7, <2>1, <2>2, AccountFields
    <2>4. QED
      BY <2>3 DEF a, b
  <1>10. CASE Abandoned(saved) # {}
    <2>1. PICK t : t \in Abandoned(saved)
      BY <1>10
    <2> DEFINE report == ledger[t][Len(Attempts(t))]
    <2>2. /\ UsageIn(report) \in Amount /\ report \in {NoLedger} \cup Reportable
          /\ \A u \in Units : UsedBy(saved')[u] = UsedBy(saved)[u] + UsageIn(report)[u]
      BY <2>1, ReconcilesUsed
    <2> HIDE DEF report
    <2>3. Cohort!Plus(UsedBy(saved), Cohort!UsedIn(report)) = UsedBy(saved')
      BY <1>2, <2>2, PlusIs, UsedInIs
    <2>4. Cohort!Begun(a, report) = [a EXCEPT !.status = "running", !.open = FALSE,
                                              !.used = UsedBy(saved')]
      BY <1>8, <1>10, <2>3 DEF Cohort!Begun
    <2> HIDE DEF a, b
    <2>5. Cohort!Begun(a, report) = b
      BY <1>2, <1>3, <1>5, <1>6, <1>7, <2>4, AccountFields
    <2>6. QED
      BY <2>2, <2>5 DEF a, b
  <1>11. QED
    BY <1>9, <1>10

\* A new attempt adds its reservation to what is debited, nothing to what is used.
LEMMA ReservesTotals ==
    ASSUME NEW t \in Tasks, Reserves(t), NEW u \in Units
    PROVE  /\ UsedBy(saved')[u] = UsedBy(saved)[u]
           /\ DebitedBy(saved')[u] = DebitedBy(saved)[u] + Reservation[u]
  <1> DEFINE h == Attempts(t)
             a == [status |-> "running", usage |-> Nothing, debit |-> Reservation]
             r == saved'.tasks[t].attempts
             f == Debits(saved, u)
             g == Debits(saved', u)
             v == Usages(saved, u)
             w == Usages(saved', u)
  <1>1. /\ saved \in CohortState /\ saved' \in CohortState
        /\ r = Append(h, a) /\ h \in Seq(Attempt)
        /\ \A q \in Tasks \ {t} : saved'.tasks[q] = saved.tasks[q]
    BY StateFacts DEF Reserves, Attempts
  <1>2. a.usage[u] = 0 /\ a.debit[u] = Reservation[u] /\ Reservation[u] \in Nat
    BY NoneOfThem DEF Nothing, Amount
  <1>3. /\ Len(r) = Len(h) + 1 /\ Len(h) \in Nat /\ r[Len(h) + 1] = a
        /\ \A n \in 1 .. Len(h) : r[n] = h[n]
    <2> HIDE DEF h, a, r
    <2>1. QED
      BY <1>1
  <1>4. /\ Len(f[t]) = Len(h) /\ \A n \in 1 .. Len(h) : f[t][n] = h[n].debit[u]
        /\ Len(v[t]) = Len(h) /\ \A n \in 1 .. Len(h) : v[t][n] = h[n].usage[u]
    BY <1>1, DebitRows, UsageRows DEF Attempts
  <1>5. /\ Len(g[t]) = Len(r) /\ \A n \in 1 .. Len(r) : g[t][n] = r[n].debit[u]
        /\ Len(w[t]) = Len(r) /\ \A n \in 1 .. Len(r) : w[t][n] = r[n].usage[u]
    BY <1>1, DebitRows, UsageRows
  <1>6. RowsApartFrom(f, g, t) /\ RowsApartFrom(v, w, t)
    <2>1. \A q \in Tasks : f[q] \in Seq(Nat) /\ g[q] \in Seq(Nat)
                           /\ v[q] \in Seq(Nat) /\ w[q] \in Seq(Nat)
      BY <1>1, DebitRows, UsageRows
    <2>2. \A q \in Tasks \ {t} : g[q] = f[q] /\ w[q] = v[q]
      BY <1>1 DEF Debits, Usages
    <2> HIDE DEF f, g, v, w
    <2>3. QED
      BY <2>1, <2>2 DEF RowsApartFrom
  <1>7. RowLonger(f[t], g[t], Reservation[u]) /\ RowLonger(v[t], w[t], 0)
    <2> HIDE DEF f, g, v, w, h, r, a
    <2>1. Len(h) + 1 \in 1 .. Len(r) /\ \A n \in 1 .. Len(h) : n \in 1 .. Len(r)
      BY <1>3
    <2>2. /\ Len(g[t]) = Len(f[t]) + 1 /\ g[t][Len(f[t]) + 1] = Reservation[u]
          /\ Len(w[t]) = Len(v[t]) + 1 /\ w[t][Len(v[t]) + 1] = 0
      BY <1>2, <1>3, <1>4, <1>5, <2>1
    <2>3. \A n \in 1 .. Len(h) : g[t][n] = f[t][n] /\ w[t][n] = v[t][n]
      <3>1. TAKE n \in 1 .. Len(h)
      <3>2. r[n] = h[n] /\ n \in 1 .. Len(r)
        BY <1>3, <2>1
      <3>3. QED
        BY <1>4, <1>5, <3>2
    <2>4. QED
      BY <1>4, <2>2, <2>3 DEF RowLonger
  <1> HIDE DEF f, g, v, w
  <1>8. /\ SumAll(g, Fixtures) = SumAll(f, Fixtures) + Reservation[u]
        /\ SumAll(w, Fixtures) = SumAll(v, Fixtures) + 0 /\ SumAll(v, Fixtures) \in Nat
    BY <1>2, <1>6, <1>7, RowsAppended
  <1>9. QED
    BY <1>8 DEF f, g, v, w, UsedBy, DebitedBy, Debited

\* A reservation is shown as CohortAccount's Reserved, and where it may be one.
LEMMA ReservesShown ==
    ASSUME Inv, NEW t \in Tasks, Reserves(t), saved.status = "running"
    PROVE  /\ Shown(saved) # Cohort!NoAccount
           /\ Shown(saved).status = "running" /\ ~Shown(saved).open
           /\ Shown(saved).completed < Len(Fixtures)
           /\ Cohort!Refusing(Shown(saved)) = {}
           /\ Shown(saved') = Cohort!Reserved(Shown(saved))
  <1> DEFINE a == Shown(saved)
             b == Shown(saved')
  <1>1. saved \in CohortState /\ saved' \in CohortState /\ saved'.status = "running"
    BY DEF Reserves
  <1>2. /\ a = [status |-> ShownStatus(saved), completed |-> Cardinality(CompletedTasks(saved)),
                used |-> UsedBy(saved), debited |-> DebitedBy(saved),
                open |-> Abandoned(saved) # {}]
        /\ b = [status |-> ShownStatus(saved'), completed |-> Cardinality(CompletedTasks(saved')),
                used |-> UsedBy(saved'), debited |-> DebitedBy(saved'),
                open |-> Abandoned(saved') # {}]
        /\ UsedBy(saved) \in Amount /\ UsedBy(saved') \in Amount
        /\ DebitedBy(saved) \in Amount /\ DebitedBy(saved') \in Amount
        /\ a # Cohort!NoAccount
    BY <1>1, ShownIs
  <1>3. ShownStatus(saved) = "running" /\ ShownStatus(saved') = "running"
    BY <1>1 DEF ShownStatus
  <1>4. Abandoned(saved) = {}
    BY <1>1, StateFacts DEF Reserves, Abandoned, Attempts
  <1>5. Abandoned(saved') # {}
    <2> DEFINE h == Attempts(t)
               x == [status |-> "running", usage |-> Nothing, debit |-> Reservation]
               r == saved'.tasks[t].attempts
    <2>1. r = Append(h, x) /\ h \in Seq(Attempt)
      BY <1>1, StateFacts DEF Reserves, Attempts
    <2>2. x.status = "running"
      OBVIOUS
    <2> HIDE DEF h, x
    <2>3. Len(h) + 1 \in DOMAIN Append(h, x) /\ Append(h, x)[Len(h) + 1] = x
      BY <2>1
    <2>4. Len(h) + 1 \in DOMAIN r /\ r[Len(h) + 1].status = "running"
      BY <2>1, <2>2, <2>3
    <2>5. QED
      BY <2>4 DEF Abandoned
  <1>6. CompletedTasks(saved') = CompletedTasks(saved)
    BY DEF Reserves, CompletedTasks
  <1>7. Cardinality(CompletedTasks(saved)) < Len(Fixtures)
    <2>1. saved.tasks[t].status # "completed"
      BY DEF Reserves
    <2>2. QED
      BY <2>1, CompletedCount, FixtureFacts
  <1>8. /\ UsedBy(saved') = UsedBy(saved)
        /\ Cohort!Plus(DebitedBy(saved), Reservation) = DebitedBy(saved')
    <2>1. \A u \in Units : /\ UsedBy(saved')[u] = UsedBy(saved)[u]
                           /\ DebitedBy(saved')[u] = DebitedBy(saved)[u] + Reservation[u]
      BY ReservesTotals
    <2>2. UsedBy(saved') = UsedBy(saved)
      BY <2>1 DEF UsedBy
    <2>3. QED
      BY <1>2, <2>1, <2>2, PlusIs, NoneOfThem
  <1>9. a.debited = DebitedBy(saved) /\ a.status = "running" /\ ~a.open
        /\ a.completed = Cardinality(CompletedTasks(saved))
    <2> HIDE DEF a
    <2>1. QED
      BY <1>2, <1>3, <1>4
  <1>10. Cohort!Refusing(a) = {}
    <2>1. ASSUME NEW u \in Units PROVE ~ (a.debited[u] + Reservation[u] > Budget[u])
      <3>1. a.debited[u] = Debited(saved, u) /\ a.debited[u] \in Nat
        BY <1>2, <1>9 DEF DebitedBy, Amount
      <3>2. Debited(saved, u) + Reservation[u] <= Budget[u]
        BY DEF Reserves
      <3>3. Reservation[u] \in Nat /\ Budget[u] \in Nat
        BY ConfigAssumption DEF Amount
      <3>4. QED
        BY <3>1, <3>2, <3>3
    <2>2. QED
      BY <2>1 DEF Cohort!Refusing, Cohort!Units, Units
  <1>11. Cohort!Reserved(a) = [a EXCEPT !.open = TRUE, !.debited = DebitedBy(saved')]
    BY <1>8, <1>9 DEF Cohort!Reserved
  <1> HIDE DEF a, b
  <1>12. Cohort!Reserved(a) = b
    BY <1>2, <1>3, <1>5, <1>6, <1>8, <1>11, AccountFields
  <1>13. QED
    BY <1>2, <1>7, <1>9, <1>10, <1>12 DEF a, b

\* An attempt that ends adds what its ledger reports, and is debited it instead
\* of its reservation when it reports something.
LEMMA SettlesTotals ==
    ASSUME Inv, Accounting, NEW t \in Tasks, Settles(t), NEW u \in Units
    PROVE  LET report == ledger[t][Len(Attempts(t))]
           IN  /\ UsedBy(saved')[u] = UsedBy(saved)[u] + UsageIn(report)[u]
               /\ DebitedBy(saved')[u] =
                      IF report = NoLedger THEN DebitedBy(saved)[u]
                      ELSE DebitedBy(saved)[u] - Reservation[u] + report[u]
  <1> DEFINE h == Attempts(t)
             r == saved'.tasks[t].attempts
             last == Len(h)
             report == ledger[t][last]
             f == Debits(saved, u)
             g == Debits(saved', u)
             v == Usages(saved, u)
             w == Usages(saved', u)
  <1>1. /\ saved \in CohortState /\ saved' \in CohortState /\ saved # NoState
        /\ last \in Nat /\ last > 0 /\ Len(r) = last /\ h[last].status = "running"
        /\ \A n \in 1 .. last - 1 : r[n] = h[n]
        /\ \A q \in Tasks \ {t} : saved'.tasks[q] = saved.tasks[q]
    BY StateFacts, NoneOfThem DEF Settles, Attempts
  <1>2. /\ report \in {NoLedger} \cup Amount
        /\ r[last].usage = UsageIn(report)
        /\ r[last].debit = IF report = NoLedger THEN Reservation ELSE report
    BY DEF Settles
  <1>3. h[last].usage = Nothing /\ h[last].debit = Reservation
    <2>1. last \in 1 .. last
      BY <1>1
    <2>2. QED
      BY <1>1, <2>1 DEF Accounting, Inv, OnRecord
  <1>4. /\ Len(f[t]) = last /\ \A n \in 1 .. last : f[t][n] = h[n].debit[u]
        /\ Len(v[t]) = last /\ \A n \in 1 .. last : v[t][n] = h[n].usage[u]
    BY <1>1, DebitRows, UsageRows DEF Attempts
  <1>5. /\ Len(g[t]) = last /\ \A n \in 1 .. last : g[t][n] = r[n].debit[u]
        /\ Len(w[t]) = last /\ \A n \in 1 .. last : w[t][n] = r[n].usage[u]
    <2>1. /\ Len(g[t]) = Len(r) /\ \A n \in 1 .. Len(r) : g[t][n] = r[n].debit[u]
          /\ Len(w[t]) = Len(r) /\ \A n \in 1 .. Len(r) : w[t][n] = r[n].usage[u]
      BY <1>1, DebitRows, UsageRows
    <2>2. QED
      BY <1>1, <2>1
  <1>6. RowsApartFrom(f, g, t) /\ RowsApartFrom(v, w, t)
    <2>1. \A q \in Tasks : f[q] \in Seq(Nat) /\ g[q] \in Seq(Nat)
                           /\ v[q] \in Seq(Nat) /\ w[q] \in Seq(Nat)
      BY <1>1, DebitRows, UsageRows
    <2>2. \A q \in Tasks \ {t} : g[q] = f[q] /\ w[q] = v[q]
      BY <1>1 DEF Debits, Usages
    <2> HIDE DEF f, g, v, w
    <2>3. QED
      BY <2>1, <2>2 DEF RowsApartFrom
  <1>7. RowChanged(f[t], g[t], last) /\ RowChanged(v[t], w[t], last)
    <2> HIDE DEF f, g, v, w, h, r, last
    <2>1. last \in 1 .. last /\ \A n \in 1 .. last : n # last => r[n] = h[n]
      BY <1>1
    <2>2. QED
      BY <1>4, <1>5, <2>1 DEF RowChanged
  <1>8. /\ f[t][last] = Reservation[u] /\ v[t][last] = 0
        /\ g[t][last] = r[last].debit[u] /\ w[t][last] = UsageIn(report)[u]
        /\ Reservation[u] \in Nat /\ UsageIn(report)[u] \in Nat /\ r[last].debit[u] \in Nat
    <2>1. last \in 1 .. last
      BY <1>1
    <2>2. Reservation[u] \in Nat /\ UsageIn(report)[u] \in Nat /\ r[last].debit[u] \in Nat
      BY <1>2, NoneOfThem DEF Amount
    <2> HIDE DEF f, g, v, w, h, r, last, report
    <2>3. QED
      BY <1>2, <1>3, <1>4, <1>5, <2>1, <2>2 DEF Nothing
  <1> HIDE DEF f, g, v, w, h, r, last, report
  <1>9. /\ SumAll(g, Fixtures) = SumAll(f, Fixtures) - f[t][last] + g[t][last]
        /\ SumAll(w, Fixtures) = SumAll(v, Fixtures) - v[t][last] + w[t][last]
        /\ SumAll(f, Fixtures) \in Nat /\ SumAll(v, Fixtures) \in Nat
    BY <1>6, <1>7, RowsChanged
  <1>10. /\ SumAll(w, Fixtures) = SumAll(v, Fixtures) + UsageIn(report)[u]
         /\ SumAll(g, Fixtures) = IF report = NoLedger THEN SumAll(f, Fixtures)
                                  ELSE SumAll(f, Fixtures) - Reservation[u] + report[u]
    BY <1>2, <1>8, <1>9
  <1>11. QED
    BY <1>10 DEF f, g, v, w, h, last, report, UsedBy, DebitedBy, Debited

\* The end of an attempt is shown as CohortAccount's Settled.
LEMMA SettlesShown ==
    ASSUME Inv, Accounting, NEW t \in Tasks, Settles(t), saved.status = "running"
    PROVE  /\ Shown(saved) # Cohort!NoAccount
           /\ Shown(saved).status = "running" /\ Shown(saved).open
           /\ \E report \in {NoLedger} \cup Reportable, done \in BOOLEAN :
                  Shown(saved') = Cohort!Settled(Shown(saved), report, done)
  <1> DEFINE a == Shown(saved)
             b == Shown(saved')
             report == ledger[t][Len(Attempts(t))]
             done == saved'.tasks[t].status = "completed"
  <1>1. /\ saved \in CohortState /\ saved' \in CohortState /\ saved'.status = "running"
        /\ saved # NoState
    BY NoneOfThem DEF Settles
  <1>2. /\ a = [status |-> ShownStatus(saved), completed |-> Cardinality(CompletedTasks(saved)),
                used |-> UsedBy(saved), debited |-> DebitedBy(saved),
                open |-> Abandoned(saved) # {}]
        /\ b = [status |-> ShownStatus(saved'), completed |-> Cardinality(CompletedTasks(saved')),
                used |-> UsedBy(saved'), debited |-> DebitedBy(saved'),
                open |-> Abandoned(saved') # {}]
        /\ UsedBy(saved) \in Amount /\ UsedBy(saved') \in Amount
        /\ DebitedBy(saved') \in Amount /\ a # Cohort!NoAccount
    BY <1>1, ShownIs
  <1>3. ShownStatus(saved) = "running" /\ ShownStatus(saved') = "running"
    BY <1>1 DEF ShownStatus
  <1>4. /\ Len(Attempts(t)) \in Nat /\ Len(Attempts(t)) > 0
        /\ Len(Attempts(t)) \in DOMAIN Attempts(t)
        /\ Attempts(t)[Len(Attempts(t))].status = "running"
        /\ \A q \in Tasks : /\ DOMAIN Attempts(q) = 1 .. Len(Attempts(q))
                            /\ Len(Attempts(q)) \in Nat
                            /\ DOMAIN saved'.tasks[q].attempts = 1 .. Len(saved'.tasks[q].attempts)
    <2>1. \A q \in Tasks : /\ DOMAIN Attempts(q) = 1 .. Len(Attempts(q))
                           /\ Len(Attempts(q)) \in Nat
      BY <1>1, StateFacts DEF Attempts
    <2>2. \A q \in Tasks :
              DOMAIN saved'.tasks[q].attempts = 1 .. Len(saved'.tasks[q].attempts)
      BY <1>1, StateFacts
    <2>3. Len(Attempts(t)) > 0 /\ Attempts(t)[Len(Attempts(t))].status = "running"
      BY DEF Settles
    <2>4. QED
      BY <2>1, <2>2, <2>3
  <1>5. Abandoned(saved) # {}
    BY <1>4 DEF Abandoned, Attempts
  <1>6. Abandoned(saved') = {}
    <2> SUFFICES ASSUME NEW q \in Tasks, NEW n \in 1 .. Len(saved'.tasks[q].attempts),
                        saved'.tasks[q].attempts[n].status = "running"
                 PROVE  FALSE
      BY <1>4 DEF Abandoned
    <2>1. CASE q # t
      <3>1. n \in 1 .. Len(Attempts(q)) /\ Attempts(q)[n].status = "running"
        BY <2>1 DEF Settles, Attempts
      <3>2. Len(Attempts(t)) \in 1 .. Len(Attempts(t))
        BY <1>4
      <3>3. QED
        BY <1>1, <1>4, <2>1, <3>1, <3>2 DEF Accounting
    <2>2. CASE q = t
      <3>1. /\ Len(saved'.tasks[t].attempts) = Len(Attempts(t))
            /\ saved'.tasks[t].attempts[Len(Attempts(t))].status \in {"completed", "failed"}
            /\ \A m \in 1 .. Len(Attempts(t)) - 1 : saved'.tasks[t].attempts[m] = Attempts(t)[m]
        BY DEF Settles
      <3>2. n # Len(Attempts(t))
        BY <2>2, <3>1
      <3>3. n \in 1 .. Len(Attempts(t)) - 1
        BY <1>4, <2>2, <3>1, <3>2
      <3>4. Attempts(t)[n].status = "running" /\ n \in 1 .. Len(Attempts(t))
        BY <1>4, <2>2, <3>1, <3>3
      <3>5. n = Len(Attempts(t))
        BY <1>1, <3>4 DEF Inv, OnRecord
      <3>6. QED
        BY <3>2, <3>5
    <2>3. QED
      BY <2>1, <2>2
  <1>7. Cardinality(CompletedTasks(saved')) =
            IF done THEN Cardinality(CompletedTasks(saved)) + 1
            ELSE Cardinality(CompletedTasks(saved))
    <2>1. t \notin CompletedTasks(saved) /\ IsFiniteSet(CompletedTasks(saved))
      BY CompletedCount DEF Settles, CompletedTasks
    <2>2. CompletedTasks(saved') = IF done THEN CompletedTasks(saved) \cup {t}
                                   ELSE CompletedTasks(saved)
      BY DEF Settles, CompletedTasks
    <2>3. QED
      BY <2>1, <2>2, FS_AddElement
  <1>8. report \in {NoLedger} \cup Reportable /\ UsageIn(report) \in Amount
    <2>1. Len(Attempts(t)) \in DOMAIN ledger[t] /\ report \in {NoLedger} \cup Amount
      BY <1>1, <1>4, LedgerFacts DEF Inv
    <2>2. QED
      BY <2>1, NoneOfThem DEF Accounting
  <1>9. \A u \in Units :
            /\ UsedBy(saved')[u] = UsedBy(saved)[u] + UsageIn(report)[u]
            /\ DebitedBy(saved')[u] = IF report = NoLedger THEN DebitedBy(saved)[u]
                                      ELSE DebitedBy(saved)[u] - Reservation[u] + report[u]
    BY SettlesTotals
  <1> HIDE DEF report, done
  <1>10. Cohort!Plus(UsedBy(saved), Cohort!UsedIn(report)) = UsedBy(saved')
    BY <1>2, <1>8, <1>9, PlusIs, UsedInIs
  <1>11. DebitedBy(saved') =
             IF report = Cohort!NoReport THEN DebitedBy(saved)
             ELSE [u \in Cohort!Units |-> DebitedBy(saved)[u] - Reservation[u] + report[u]]
    <2>1. DebitedBy(saved') = [u \in Units |-> DebitedBy(saved')[u]]
          /\ DebitedBy(saved) = [u \in Units |-> DebitedBy(saved)[u]]
      BY DEF DebitedBy
    <2>2. Cohort!Units = Units
      BY DEF Cohort!Units, Units
    <2>3. QED
      BY <1>9, <2>1, <2>2, UsedInIs
  <1>12. a.debited = DebitedBy(saved) /\ a.status = "running" /\ a.open
         /\ a.completed = Cardinality(CompletedTasks(saved)) /\ a.used = UsedBy(saved)
    <2> HIDE DEF a
    <2>1. QED
      BY <1>2, <1>3, <1>5
  <1>13. Cohort!Settled(a, report, done) =
             [a EXCEPT !.open = FALSE, !.completed = Cardinality(CompletedTasks(saved')),
                       !.used = UsedBy(saved'), !.debited = DebitedBy(saved')]
    BY <1>7, <1>10, <1>11, <1>12 DEF Cohort!Settled
  <1> HIDE DEF a, b
  <1>14. Cohort!Settled(a, report, done) = b
    BY <1>2, <1>3, <1>6, <1>13, AccountFields
  <1>15. done \in BOOLEAN
    BY DEF done
  <1>16. QED
    BY <1>2, <1>8, <1>12, <1>14, <1>15 DEF a, b

\* The end of a start is shown as CohortAccount's Ended, with a status it may have.
LEMMA FinishShown ==
    ASSUME Inv, Accounting, Finish
    PROVE  /\ Shown(saved) # Cohort!NoAccount
           /\ Shown(saved).status = "running" /\ ~Shown(saved).open
           /\ \E status \in Cohort!EndStatus(Shown(saved)) :
                  Shown(saved') = Cohort!Ended(Shown(saved), status)
  <1> DEFINE a == Shown(saved)
             b == Shown(saved')
             all == \A t \in Tasks : saved.tasks[t].status = "completed"
             end == IF all THEN "completed"
                    ELSE IF pc = "loop" THEN "partial" ELSE "stopped"
  <1>1. /\ saved \in CohortState /\ state \in CohortState /\ state # NoState
        /\ saved # NoState /\ saved.status = "running" /\ state.tasks = saved.tasks
        /\ pc \in {"loop", "finish"} /\ (pc = "loop" => state.status = "running")
    BY SavedFacts DEF Finish, Inv, Memory
  <1>2. saved' \in CohortState /\ saved'.tasks = saved.tasks
    BY FinishEnds DEF Ends
  <1>3. /\ a = [status |-> ShownStatus(saved), completed |-> Cardinality(CompletedTasks(saved)),
                used |-> UsedBy(saved), debited |-> DebitedBy(saved),
                open |-> Abandoned(saved) # {}]
        /\ b = [status |-> ShownStatus(saved'), completed |-> Cardinality(CompletedTasks(saved')),
                used |-> UsedBy(saved'), debited |-> DebitedBy(saved'),
                open |-> Abandoned(saved') # {}]
        /\ DebitedBy(saved) \in Amount /\ a # Cohort!NoAccount
    BY <1>1, <1>2, ShownIs
  <1>4. /\ CompletedTasks(saved') = CompletedTasks(saved) /\ UsedBy(saved') = UsedBy(saved)
        /\ DebitedBy(saved') = DebitedBy(saved) /\ Abandoned(saved') = Abandoned(saved)
    BY <1>2 DEF CompletedTasks, UsedBy, Usages, DebitedBy, Debited, Debits, Abandoned
  <1>5. Abandoned(saved) = {}
    <2>1. \A t \in Tasks : \A n \in 1 .. Len(Attempts(t)) : Attempts(t)[n].status # "running"
      BY <1>1 DEF Inv, RunningIsAtHand, Trying
    <2>2. \A t \in Tasks : DOMAIN Attempts(t) = 1 .. Len(Attempts(t))
      BY <1>1, StateFacts DEF Attempts
    <2>3. QED
      BY <2>1, <2>2 DEF Abandoned, Attempts
  <1>6. ShownStatus(saved) = "running"
    BY <1>1 DEF ShownStatus
  <1>7. ShownStatus(saved') = end
    <2>1. saved'.status = IF all THEN "completed"
                          ELSE IF state.status = "running" THEN "partial" ELSE state.status
      BY <1>1 DEF Finish, IsCompleted, CohortState
    <2>2. pc = "finish" => state.status \in {"stopped_token_budget", "stopped_cost_budget"}
      BY DEF Accounting
    <2>3. QED
      BY <1>1, <2>1, <2>2 DEF ShownStatus
  <1>8. a.debited = DebitedBy(saved) /\ a.status = "running" /\ ~a.open
        /\ a.completed = Cardinality(CompletedTasks(saved))
    <2> HIDE DEF a
    <2>1. QED
      BY <1>3, <1>5, <1>6
  <1>9. pc = "finish" => Cohort!Refusing(a) # {}
    <2>1. pc = "finish" => \E u \in Units : Debited(saved, u) + Reservation[u] > Budget[u]
      BY DEF Accounting
    <2>2. \A u \in Units : a.debited[u] = Debited(saved, u)
      BY <1>8 DEF DebitedBy
    <2>3. QED
      BY <2>1, <2>2 DEF Cohort!Refusing, Cohort!Units, Units
  <1>10. all <=> a.completed = Len(Fixtures)
    BY <1>8, CompletedCount
  <1>11. end \in Cohort!EndStatus(a)
    <2> HIDE DEF a, all
    <2>1. QED
      BY <1>1, <1>9, <1>10 DEF Cohort!EndStatus
  <1> HIDE DEF a, b, end
  <1>12. Cohort!Ended(a, end) = b
    <2>1. Cohort!Ended(a, end) = [a EXCEPT !.status = end]
      BY DEF Cohort!Ended
    <2> DEFINE z == [a EXCEPT !.status = end]
    <2>2. a \in [status : {ShownStatus(saved)}, completed : {Cardinality(CompletedTasks(saved))},
                 used : {UsedBy(saved)}, debited : {DebitedBy(saved)},
                 open : {Abandoned(saved) # {}}]
      BY <1>3
    <2>3. z \in [status : {end}, completed : {Cardinality(CompletedTasks(saved))},
                 used : {UsedBy(saved)}, debited : {DebitedBy(saved)},
                 open : {Abandoned(saved) # {}}]
      BY <2>2
    <2> HIDE DEF z
    <2>4. z = b
      BY <1>3, <1>4, <1>7, <2>3
    <2>5. QED
      BY <2>1, <2>4 DEF z
  <1>13. QED
    BY <1>3, <1>8, <1>11, <1>12 DEF a, b

\* The very first state is shown as CohortAccount's Fresh.
LEMMA InitialShown == Shown(InitialState) = Cohort!Fresh
  <1> DEFINE s == InitialState
  <1>1. s \in CohortState /\ s.status = "ready"
        /\ \A t \in Tasks : s.tasks[t].status = "pending" /\ s.tasks[t].attempts = <<>>
    <2>1. [status |-> "pending", attempts |-> <<>>, candidate_sha256 |-> Missing] \in TaskRecord
      BY DEF TaskRecord
    <2>2. QED
      BY <2>1 DEF InitialState, CohortState
  <1> HIDE DEF s
  <1>2. CompletedTasks(s) = {} /\ Cardinality(CompletedTasks(s)) = 0
    BY <1>1, FS_EmptySet DEF CompletedTasks
  <1>3. Abandoned(s) = {}
    BY <1>1 DEF Abandoned
  <1>4. ASSUME NEW u \in Units PROVE UsedBy(s)[u] = 0 /\ DebitedBy(s)[u] = 0
    <2>1. \A t \in Tasks : Debits(s, u)[t] = <<>> /\ Usages(s, u)[t] = <<>>
      BY <1>1 DEF Debits, Usages
    <2>2. SumAll(Debits(s, u), Fixtures) = 0 /\ SumAll(Usages(s, u), Fixtures) = 0
      BY <2>1, FixtureFacts, SumAllEmpty
    <2>3. QED
      BY <2>2 DEF UsedBy, DebitedBy, Debited
  <1>5. UsedBy(s) = Nothing /\ DebitedBy(s) = Nothing
    BY <1>4 DEF UsedBy, DebitedBy, Nothing
  <1>6. ShownStatus(s) = "ready"
    BY <1>1 DEF ShownStatus
  <1>7. Shown(s) = [status |-> "ready", completed |-> 0, used |-> Nothing, debited |-> Nothing,
                    open |-> FALSE]
    BY <1>1, <1>2, <1>3, <1>5, <1>6, ShownIs
  <1>8. QED
    BY <1>7 DEF s, Cohort!Fresh, Cohort!Nothing, Nothing, Cohort!Units, Units

\* Every save is a step of CohortAccount.
LEMMA SaveIsAccountStep ==
    ASSUME Inv, Accounting, [Next]_vars, saved' # saved
    PROVE  Cohort!AccountStep(Shown(saved), Shown(saved'))
  <1>1. CASE Initialise
    <2>1. Shown(saved) = Cohort!NoAccount /\ saved' = InitialState
      BY <1>1 DEF Initialise, Inv, Memory, Shown, Cohort!NoAccount
    <2>2. QED
      BY <2>1, InitialShown DEF Cohort!AccountStep
  <1>2. CASE Resume
    <2>1. Reconciles /\ Shown(saved) # Cohort!NoAccount
      BY <1>2, ResumeReconciles, ShownIs DEF Reconciles
    <2>2. QED
      BY <2>1, ReconcilesShown DEF Cohort!AccountStep
  <1>3. CASE Reserve
    <2>1. Task \in Tasks /\ saved.status = "running"
      BY <1>3, TaskFacts DEF Reserve, AtTask, Inv, Memory
    <2>2. QED
      BY <1>3, <2>1, ReserveReserves, ReservesShown DEF Cohort!AccountStep
  <1>4. CASE AttemptFails \/ Record
    <2>1. Task \in Tasks /\ saved.status = "running" /\ Settles(Task)
      BY <1>4, TaskFacts, AttemptFailsSettles, RecordSettles
         DEF AttemptFails, Record, Inv, AtHand, Trying, Memory
    <2>2. QED
      BY <2>1, SettlesShown DEF Cohort!AccountStep
  <1>5. CASE Finish
    BY <1>5, FinishShown DEF Cohort!AccountStep
  <1>6. CASE Bystander
    BY <1>6, BystanderFacts
  <1>7. CASE ~Initialise /\ ~Resume /\ ~Reserve /\ ~AttemptFails /\ ~Record /\ ~Finish /\ ~Bystander
    <2>1. \/ Start \/ PassCompleted \/ RaiseAtCompleted \/ PassAttempted \/ StopOnBudget
          \/ AttemptPasses \/ Publish \/ RaiseAtPublish \/ Crash
      BY <1>7 DEF Next, SchedulerStep, Bystander
    <2>2. QED
      BY <2>1, QuietSteps DEF Quiet
  <1>8. QED
    BY <1>1, <1>2, <1>3, <1>4, <1>5, <1>6, <1>7

\* The scheduler implements CohortAccount: whatever is killed and whatever is
\* left running or tampered with in between, each save of cohort.json is one of
\* its steps, for any fixtures, caps, budgets and reports.
THEOREM CohortImplementsAccount == Spec => ImplementsAccount
  <1>1. Init => Shown(saved) = Cohort!NoAccount
    BY DEF Init, Shown, Cohort!NoAccount
  <1>2. Inv /\ Accounting /\ [Next]_vars =>
            [\E before \in {Shown(saved)}, after \in {Shown(saved')} :
                 Cohort!AccountStep(before, after)]_saved
    BY SaveIsAccountStep
  <1>3. QED
    BY <1>1, <1>2, InvariantHolds, AccountingHolds, PTL DEF Spec, ImplementsAccount
=============================================================================

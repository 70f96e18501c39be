---------------------- MODULE MatrixCoordinatorProofs ----------------------
(***************************************************************************)
(* Proofs about MatrixCoordinator, for any cells, caps, budgets, reports   *)
(* and numbers of starts and direct runs.  The invariant says what a       *)
(* cohort's account may be, what is left to do in the one that runs, and   *)
(* how matrix.json lags behind the accounts.                               *)
(***************************************************************************)
EXTENDS MatrixCoordinator, SumTheorems

\* No account counts more completed tasks than there are, or is open without
\* the reservation of its attempt.
Sound(a) ==
    /\ a \in Account
    /\ a.open => /\ a.completed < TaskCount
                 /\ \A u \in Units : Reservation[u] <= a.debited[u]
    /\ a.status = "completed" => a.completed = TaskCount

AccountsAreSound == \A c \in Existing : Sound(cohort[c])

\* The cohort that runs says so, and what is left to attempt, the attempt under
\* way and what is completed are together no more than the tasks.
Fits(a, left) ==
    /\ a.status = "running"
    /\ a.completed + left + (IF a.open THEN 1 ELSE 0) <= TaskCount

AtCell == pc \in {"enter", "resume", "cell", "returned"}

OneRunsACohort ==
    /\ AtCell => next <= Len(Cells)
    /\ pc \in {"resume", "cell"} => Current \in Existing
    /\ pc = "cell" => Fits(cohort[Current], todo)
    /\ direct # Nobody => direct \in Existing /\ Fits(cohort[direct], directTodo)
    /\ pc \in {"resume", "cell"} /\ direct # Nobody => direct # Current

\* The coordinator works on what it has saved.
WorksOnSaved ==
    /\ pc # "down" => saved # NoState /\ state = saved
    /\ pc \notin {"down", "begin"} => saved.status = "running"
    /\ pc \in {"down", "begin"} => next = 1

\* There is no cohort before matrix.json says that the matrix runs.
NoCohortYet == saved = NoState \/ saved.status = "ready" => Existing = {}

\* The cells this start has come to carry no error.
ErrorsCleared ==
    pc \notin {"down", "begin"} =>
        \A i \in 1 .. Len(Cells) :
            i < next \/ (AtCell /\ i = next) => ~saved.cells[Cells[i]].error

IsPaired(c) == c \in Existing /\ cohort[c].completed = TaskCount

CompletedCellsArePaired ==
    saved # NoState => \A c \in CellIds : saved.cells[c].status = "completed" => IsPaired(c)

Inv ==
    /\ TypeOK /\ AccountsAreSound /\ OneRunsACohort /\ WorksOnSaved /\ NoCohortYet
    /\ ErrorsCleared /\ CompletedCellsArePaired
    /\ TotalsMatchTheCohorts /\ ErrorsExplainTheStatus /\ CompletedMatrixIsPaired
-----------------------------------------------------------------------------
(***************************************************************************)
(* Accounts: each step of a cohort leaves a sound account sound, and loses *)
(* nothing that was used and no completed task.                            *)
(***************************************************************************)
AccountStatuses == {"ready", "running", "completed", "partial", "stopped"}

\* The cells are a sequence of different cells.
LEMMA CellFacts ==
    /\ Len(Cells) \in Nat /\ Len(Cells) > 0
    /\ \A i \in 1 .. Len(Cells) : Cells[i] \in CellIds
    /\ \A c \in CellIds : \E i \in 1 .. Len(Cells) : Cells[i] = c
    /\ \A i, j \in 1 .. Len(Cells) : Cells[i] = Cells[j] => i = j
  BY ConfigAssumption DEF CellIds

\* The caps and what is reported are amounts; no amount is the absence of a report.
LEMMA AmountFacts ==
    /\ Nothing \in Amount /\ Reservation \in Amount /\ TaskCount \in Nat /\ TaskCount > 0
    /\ NoReport \notin Amount /\ Reports \subseteq {NoReport} \cup Amount
    /\ \A report \in Reports : UsedIn(report) \in Amount
    /\ \A u \in Units : Nothing[u] = 0
  <1>1. NoReport \notin Amount
    <2>1. DOMAIN NoReport = {}
      BY DEF NoReport
    <2>2. \A a \in Amount : DOMAIN a = Units
      BY DEF Amount
    <2>3. QED
      BY <2>1, <2>2 DEF Units
  <1>2. Nothing \in Amount /\ \A u \in Units : Nothing[u] = 0
    BY DEF Nothing, Amount
  <1>3. QED
    BY <1>1, <1>2, ConfigAssumption DEF UsedIn

\* Amounts added are an amount, in every unit no smaller.
LEMMA PlusFacts ==
    ASSUME NEW x \in Amount, NEW y \in Amount
    PROVE  /\ Plus(x, y) \in Amount
           /\ \A u \in Units : Plus(x, y)[u] = x[u] + y[u] /\ x[u] <= Plus(x, y)[u]
                               /\ y[u] <= Plus(x, y)[u]
  BY DEF Plus, Amount

\* What an account is made of.
LEMMA AccountFacts ==
    ASSUME NEW a \in Account
    PROVE  /\ a.status \in AccountStatuses /\ a.completed \in 0 .. TaskCount
           /\ a.completed \in Nat
           /\ a.used \in Amount /\ a.debited \in Amount /\ a.open \in BOOLEAN
           /\ a # NoAccount
           /\ \A u \in Units : a.used[u] \in Nat /\ a.debited[u] \in Nat
  <1>1. /\ a.status \in AccountStatuses /\ a.completed \in 0 .. TaskCount
        /\ a.used \in Amount /\ a.debited \in Amount /\ a.open \in BOOLEAN
    BY DEF Account, AccountStatuses
  <1>2. NoAccount.status = "none"
    BY DEF NoAccount
  <1>3. QED
    BY <1>1, <1>2, AmountFacts DEF AccountStatuses, Amount

\* An account after one save more: nothing used or completed is lost.
Grown(a, b) ==
    /\ Sound(b) /\ a.completed <= b.completed
    /\ \A u \in Units : a.used[u] <= b.used[u]

\* A new cohort has completed nothing and has no attempt open.
LEMMA FreshSound == Sound(Fresh) /\ Fresh.completed = 0 /\ ~Fresh.open
  <1>1. Fresh \in Account
    BY AmountFacts DEF Fresh, Account
  <1>2. QED
    BY <1>1 DEF Fresh, Sound

\* A start of a cohort closes an open attempt and loses nothing.
LEMMA BegunGrown ==
    ASSUME NEW a, Sound(a), NEW report \in Reports
    PROVE  /\ Grown(a, Begun(a, report))
           /\ Begun(a, report).completed = a.completed /\ ~Begun(a, report).open
           /\ Begun(a, report).status = "running"
  <1> DEFINE x == IF a.open THEN Plus(a.used, UsedIn(report)) ELSE a.used
             z == [a EXCEPT !.status = "running", !.completed = a.completed, !.used = x,
                            !.debited = a.debited, !.open = FALSE]
  <1>1. a \in Account
    BY DEF Sound
  <1>2. x \in Amount /\ \A u \in Units : a.used[u] <= x[u]
    BY <1>1, AccountFacts, AmountFacts, PlusFacts
  <1>3. Begun(a, report) = z
    BY <1>1 DEF Begun, Account
  <1> HIDE DEF x
  <1>4. z \in Account /\ z.status = "running" /\ z.completed = a.completed /\ z.used = x
        /\ z.open = FALSE
    BY <1>1, <1>2 DEF Account
  <1> HIDE DEF z
  <1>5. Sound(z)
    BY <1>4 DEF Sound
  <1>6. QED
    BY <1>1, <1>2, <1>3, <1>4, <1>5, AccountFacts DEF Grown

\* Where a task is left, a reservation opens an attempt and loses nothing.
LEMMA ReservedGrown ==
    ASSUME NEW a, Sound(a), a.completed < TaskCount
    PROVE  /\ Grown(a, Reserved(a))
           /\ Reserved(a).completed = a.completed /\ Reserved(a).open
           /\ Reserved(a).status = a.status
  <1> DEFINE d == Plus(a.debited, Reservation)
             z == [a EXCEPT !.status = a.status, !.completed = a.completed, !.used = a.used,
                            !.debited = d, !.open = TRUE]
  <1>1. a \in Account
    BY DEF Sound
  <1>2. d \in Amount /\ \A u \in Units : Reservation[u] <= d[u]
    BY <1>1, AccountFacts, AmountFacts, PlusFacts
  <1>3. Reserved(a) = z
    BY <1>1 DEF Reserved, Account
  <1> HIDE DEF d
  <1>4. z \in Account /\ z.status = a.status /\ z.completed = a.completed /\ z.used = a.used
        /\ z.debited = d /\ z.open = TRUE
    BY <1>1, <1>2 DEF Account
  <1> HIDE DEF z
  <1>5. Sound(z)
    BY <1>1, <1>2, <1>4, AccountFacts, AmountFacts DEF Sound
  <1>6. QED
    BY <1>1, <1>3, <1>4, <1>5, AccountFacts DEF Grown

\* Settling the open attempt completes at most one task more and loses nothing.
LEMMA SettledGrown ==
    ASSUME NEW a, Sound(a), a.open, NEW report \in Reports, NEW done \in BOOLEAN
    PROVE  /\ Grown(a, Settled(a, report, done))
           /\ Settled(a, report, done).completed <= a.completed + 1
           /\ ~Settled(a, report, done).open /\ Settled(a, report, done).status = a.status
  <1> DEFINE x == Plus(a.used, UsedIn(report))
             c == IF done THEN a.completed + 1 ELSE a.completed
             d == IF report = NoReport THEN a.debited
                  ELSE [u \in Units |-> a.debited[u] - Reservation[u] + report[u]]
             z == [a EXCEPT !.status = a.status, !.completed = c, !.used = x,
                            !.debited = d, !.open = FALSE]
  <1>1. a \in Account /\ a.completed < TaskCount
        /\ \A u \in Units : Reservation[u] <= a.debited[u]
    BY DEF Sound
  <1>2. x \in Amount /\ \A u \in Units : a.used[u] <= x[u]
    BY <1>1, AccountFacts, AmountFacts, PlusFacts
  <1>3. d \in Amount
    <2>1. CASE report = NoReport
      BY <1>1, <2>1, AccountFacts
    <2>2. CASE report # NoReport
      <3>1. report \in Amount
        BY <2>2, AmountFacts
      <3>2. \A u \in Units : a.debited[u] - Reservation[u] + report[u] \in Nat
        BY <1>1, <3>1, AccountFacts, AmountFacts DEF Amount
      <3>3. QED
        BY <2>2, <3>2 DEF Amount
    <2>3. QED
      BY <2>1, <2>2
  <1>4. c \in 0 .. TaskCount /\ a.completed <= c /\ c <= a.completed + 1
    BY <1>1, AccountFacts, AmountFacts
  <1>5. Settled(a, report, done) = z
    BY <1>1 DEF Settled, Account
  <1> HIDE DEF x, c, d
  <1>6. z \in Account /\ z.status = a.status /\ z.completed = c /\ z.used = x /\ z.open = FALSE
    BY <1>1, <1>2, <1>3, <1>4 DEF Account
  <1> HIDE DEF z
  <1>7. z.status # "completed"
    BY <1>1, <1>6, AccountFacts, AmountFacts DEF Sound
  <1>8. Sound(z)
    BY <1>6, <1>7 DEF Sound
  <1>9. QED
    BY <1>2, <1>4, <1>5, <1>6, <1>8 DEF Grown

\* The last save of a cohort changes its status only, to one its tasks justify.
LEMMA EndedGrown ==
    ASSUME NEW a, Sound(a), ~a.open, NEW st \in {"stopped", "partial", "completed"},
           st = "completed" => a.completed = TaskCount
    PROVE  /\ Grown(a, Ended(a, st))
           /\ Ended(a, st).completed = a.completed /\ ~Ended(a, st).open
  <1> DEFINE z == [a EXCEPT !.status = st, !.completed = a.completed, !.used = a.used,
                            !.debited = a.debited, !.open = FALSE]
  <1>1. a \in Account
    BY DEF Sound
  <1>2. Ended(a, st) = z
    BY <1>1 DEF Ended, Account
  <1>3. z \in Account /\ z.status = st /\ z.completed = a.completed /\ z.used = a.used
        /\ z.open = FALSE
    BY <1>1 DEF Account
  <1> HIDE DEF z
  <1>4. QED
    BY <1>1, <1>2, <1>3, AccountFacts DEF Grown, Sound
-----------------------------------------------------------------------------
(***************************************************************************)
(* What a step does to the cohorts of all cells.                           *)
(***************************************************************************)

\* The cohort of c gets its first account, or its next one.
Evolves(c) ==
    \E b \in Account :
        /\ Sound(b) /\ NowIs(c, b)
        /\ c \in Existing => Grown(cohort[c], b)

\* Sums of amounts over the cells.
LEMMA RowFacts ==
    ASSUME NEW A, \A c \in CellIds : A[c] \in Amount, NEW u \in Units
    PROVE  [i \in 1 .. Len(Cells) |-> A[Cells[i]][u]] \in [1 .. Len(Cells) -> Nat]
  BY CellFacts DEF Amount

\* What a cohort has used and debited are amounts; an absent one has used none.
LEMMA UsedFacts ==
    ASSUME TypeOK
    PROVE  \A c \in CellIds : UsedBy(c) \in Amount /\ DebitedBy(c) \in Amount
  BY AccountFacts, AmountFacts DEF UsedBy, DebitedBy, Existing, TypeOK

\* Both totals of the cohorts are amounts; without cohorts they are nothing.
LEMMA TotalsFacts ==
    ASSUME TypeOK
    PROVE  /\ InCohorts \in [total : Amount, debited : Amount]
           /\ Existing = {} => InCohorts = [total |-> Nothing, debited |-> Nothing]
  <1>1. ASSUME NEW u \in Units
        PROVE  /\ SumSeq([i \in 1 .. Len(Cells) |-> UsedBy(Cells[i])[u]]) \in Nat
               /\ SumSeq([i \in 1 .. Len(Cells) |-> DebitedBy(Cells[i])[u]]) \in Nat
    <2> DEFINE F == [i \in 1 .. Len(Cells) |-> UsedBy(Cells[i])[u]]
               G == [i \in 1 .. Len(Cells) |-> DebitedBy(Cells[i])[u]]
    <2>1. F \in [1 .. Len(Cells) -> Nat] /\ G \in [1 .. Len(Cells) -> Nat]
      BY UsedFacts, CellFacts DEF Amount
    <2> HIDE DEF F, G
    <2>2. SumSeq(F) \in Nat /\ SumSeq(G) \in Nat
      BY <2>1, CellFacts, NumbersInARow, SumSeqType
    <2>3. QED
      BY <2>2 DEF F, G
  <1>2. InCohorts \in [total : Amount, debited : Amount]
    BY <1>1 DEF InCohorts, Amount
  <1>3. ASSUME Existing = {} PROVE InCohorts = [total |-> Nothing, debited |-> Nothing]
    <2>1. \A u \in Units :
              /\ [i \in 1 .. Len(Cells) |-> UsedBy(Cells[i])[u]] = [i \in 1 .. Len(Cells) |-> 0]
              /\ [i \in 1 .. Len(Cells) |-> DebitedBy(Cells[i])[u]] = [i \in 1 .. Len(Cells) |-> 0]
      BY <1>3, AmountFacts DEF UsedBy, DebitedBy
    <2>2. QED
      BY <2>1, CellFacts, SumOfZeros DEF InCohorts, Nothing
  <1>4. QED
    BY <1>2, <1>3

\* When a cohort evolves, accounts stay sound, what is used does not shrink and
\* what is paired stays so.
LEMMA EvolvesFacts ==
    ASSUME TypeOK, AccountsAreSound, NEW c \in CellIds, Evolves(c)
    PROVE  /\ cohort' \in [CellIds -> Account \cup {NoAccount}]
           /\ Existing' = Existing \cup {c}
           /\ AccountsAreSound'
           /\ \A d \in CellIds : /\ IsPaired(d) => IsPaired(d)'
                                 /\ d # c => cohort'[d] = cohort[d]
           /\ \A u \in Units :
                  /\ InCohorts.total[u] \in Nat /\ InCohorts'.total[u] \in Nat
                  /\ InCohorts.total[u] <= InCohorts'.total[u]
  <1>1. PICK b \in Account : /\ Sound(b) /\ cohort' = [cohort EXCEPT ![c] = b]
                             /\ c \in Existing => Grown(cohort[c], b)
    BY DEF Evolves, NowIs
  <1>2. cohort \in [CellIds -> Account \cup {NoAccount}]
    BY DEF TypeOK
  <1>3. /\ cohort' \in [CellIds -> Account \cup {NoAccount}]
        /\ cohort'[c] = b /\ \A d \in CellIds : d # c => cohort'[d] = cohort[d]
    BY <1>1, <1>2
  <1>4. Existing' = Existing \cup {c}
    BY <1>1, <1>3, AccountFacts DEF Existing
  <1>5. AccountsAreSound'
    BY <1>1, <1>3, <1>4 DEF AccountsAreSound, Existing
  <1>6. \A d \in CellIds : IsPaired(d) => IsPaired(d)'
    <2> SUFFICES ASSUME NEW d \in CellIds, IsPaired(d) PROVE IsPaired(d)'
      OBVIOUS
    <2>1. CASE d # c
      BY <1>3, <1>4, <2>1 DEF IsPaired
    <2>2. CASE d = c
      <3>1. c \in Existing /\ cohort[c].completed = TaskCount /\ Grown(cohort[c], b)
        BY <1>1, <2>2 DEF IsPaired
      <3>2. b.completed = TaskCount
        BY <3>1, AccountFacts, AmountFacts DEF Grown
      <3>3. QED
        BY <1>3, <1>4, <2>2, <3>2 DEF IsPaired
    <2>3. QED
      BY <2>1, <2>2
  <1>7. \A d \in CellIds : \A u \in Units :
            UsedBy(d)[u] \in Nat /\ UsedBy(d)'[u] \in Nat /\ UsedBy(d)[u] <= UsedBy(d)'[u]
    <2> SUFFICES ASSUME NEW d \in CellIds, NEW u \in Units
                 PROVE  UsedBy(d)[u] \in Nat /\ UsedBy(d)'[u] \in Nat
                        /\ UsedBy(d)[u] <= UsedBy(d)'[u]
      OBVIOUS
    <2>1. UsedBy(d)[u] \in Nat
      BY UsedFacts DEF Amount
    <2>2. CASE d # c
      BY <1>3, <1>4, <2>1, <2>2 DEF UsedBy
    <2>3. CASE d = c
      <3>1. UsedBy(d)' = b.used /\ b.used[u] \in Nat
        BY <1>1, <1>3, <1>4, <2>3, AccountFacts DEF UsedBy
      <3>2. UsedBy(d)[u] <= b.used[u]
        BY <1>1, <2>3, <3>1, AmountFacts DEF UsedBy, Grown
      <3>3. QED
        BY <2>1, <3>1, <3>2
    <2>4. QED
      BY <2>2, <2>3
  <1>8. ASSUME NEW u \in Units
        PROVE  /\ InCohorts.total[u] \in Nat /\ InCohorts'.total[u] \in Nat
               /\ InCohorts.total[u] <= InCohorts'.total[u]
    <2> DEFINE F == [i \in 1 .. Len(Cells) |-> UsedBy(Cells[i])[u]]
               G == [i \in 1 .. Len(Cells) |-> UsedBy(Cells[i])'[u]]
    <2>1. F \in [1 .. Len(Cells) -> Nat] /\ G \in [1 .. Len(Cells) -> Nat]
          /\ \A i \in 1 .. Len(Cells) : F[i] <= G[i]
      BY <1>7, CellFacts
    <2>2. InCohorts.total[u] = SumSeq(F) /\ InCohorts'.total[u] = SumSeq(G)
      BY DEF InCohorts
    <2> HIDE DEF F, G
    <2>3. SumSeq(F) \in Nat /\ SumSeq(G) \in Nat /\ SumSeq(F) <= SumSeq(G)
      BY <2>1, CellFacts, SumRowMonotone
    <2>4. QED
      BY <2>2, <2>3
  <1>9. QED
    BY <1>3, <1>4, <1>5, <1>6, <1>8

\* Cohorts that stay as they are keep all that is said of them.
LEMMA SameCohorts ==
    ASSUME cohort' = cohort
    PROVE  /\ Existing' = Existing /\ InCohorts' = InCohorts
           /\ AccountsAreSound' <=> AccountsAreSound
           /\ \A c : IsPaired(c)' <=> IsPaired(c)
  BY DEF Existing, InCohorts, UsedBy, DebitedBy, AccountsAreSound, IsPaired

\* What run_cohort does in c, by whoever runs it: the account evolves, and what
\* is left to attempt still fits in.
LEMMA ResumesFacts ==
    ASSUME TypeOK, AccountsAreSound, NEW c \in CellIds, Resumes(c)
    PROVE  /\ Evolves(c) /\ c \in Existing
           /\ Attemptable(c) \in 0 .. TaskCount /\ Fits(cohort'[c], Attemptable(c))
  <1> DEFINE a == cohort[c]
  <1>1. c \in Existing /\ Sound(a) /\ cohort \in [CellIds -> Account \cup {NoAccount}]
    BY DEF Resumes, Existing, AccountsAreSound, TypeOK
  <1>2. PICK report \in Reports : NowIs(c, Begun(a, report))
    BY DEF Resumes
  <1> DEFINE b == Begun(a, report)
  <1>3. Grown(a, b) /\ b.completed = a.completed /\ ~b.open /\ cohort'[c] = b
        /\ b.status = "running"
    BY <1>1, <1>2, BegunGrown DEF NowIs
  <1>4. a.completed \in 0 .. TaskCount /\ (a.open => a.completed < TaskCount)
    BY <1>1, AccountFacts DEF Sound
  <1>5. Attemptable(c) = TaskCount - a.completed - (IF a.open THEN 1 ELSE 0)
    BY DEF Attemptable
  <1>6. Evolves(c)
    BY <1>2, <1>3 DEF Evolves, Grown, Sound
  <1> HIDE DEF a, b
  <1>7. Attemptable(c) \in 0 .. TaskCount /\ Fits(b, Attemptable(c))
    BY <1>3, <1>4, <1>5, AmountFacts DEF Fits
  <1>8. QED
    BY <1>1, <1>3, <1>6, <1>7

\* A reservation takes one of the tasks that are left.
LEMMA ReservesFacts ==
    ASSUME TypeOK, AccountsAreSound, NEW c \in Existing, NEW left \in 0 .. TaskCount,
           Fits(cohort[c], left), Reserves(c, left)
    PROVE  /\ Evolves(c)
           /\ left - 1 \in 0 .. TaskCount /\ Fits(cohort'[c], left - 1)
  <1> DEFINE a == cohort[c]
             b == Reserved(a)
  <1>1. Sound(a) /\ cohort \in [CellIds -> Account \cup {NoAccount}] /\ c \in CellIds
    BY DEF Existing, AccountsAreSound, TypeOK
  <1>2. ~a.open /\ left > 0 /\ NowIs(c, b) /\ cohort'[c] = b
    BY <1>1 DEF Reserves, NowIs
  <1>3. a.completed \in Nat /\ a.completed + left <= TaskCount /\ left \in Nat
        /\ a.status = "running"
    BY <1>1, <1>2, AccountFacts, AmountFacts DEF Sound, Fits
  <1>4. Grown(a, b) /\ b.completed = a.completed /\ b.open /\ b.status = a.status
    BY <1>1, <1>2, <1>3, AmountFacts, ReservedGrown
  <1>5. Evolves(c)
    BY <1>2, <1>4 DEF Evolves, Grown, Sound
  <1> HIDE DEF a, b
  <1>6. left - 1 \in 0 .. TaskCount /\ Fits(b, left - 1)
    BY <1>2, <1>3, <1>4, AmountFacts DEF Fits
  <1>7. QED
    BY <1>2, <1>5, <1>6

\* Settling leaves as many tasks to attempt as before.
LEMMA SettlesFacts ==
    ASSUME TypeOK, AccountsAreSound, NEW c \in Existing, NEW left \in 0 .. TaskCount,
           Fits(cohort[c], left), Settles(c)
    PROVE  Evolves(c) /\ Fits(cohort'[c], left)
  <1> DEFINE a == cohort[c]
  <1>1. /\ Sound(a) /\ cohort \in [CellIds -> Account \cup {NoAccount}] /\ c \in CellIds
        /\ a.open
    BY DEF Existing, AccountsAreSound, TypeOK, Settles
  <1>2. PICK report \in Reports, done \in BOOLEAN : NowIs(c, Settled(a, report, done))
    BY DEF Settles
  <1> DEFINE b == Settled(a, report, done)
  <1>3. Grown(a, b) /\ b.completed <= a.completed + 1 /\ ~b.open /\ cohort'[c] = b
        /\ b.status = a.status
    BY <1>1, <1>2, SettledGrown DEF NowIs
  <1>4. a.completed \in Nat /\ a.completed + left + 1 <= TaskCount /\ left \in Nat
        /\ a.status = "running"
    BY <1>1, AccountFacts, AmountFacts DEF Sound, Fits
  <1>5. Evolves(c)
    BY <1>2, <1>3 DEF Evolves, Grown, Sound
  <1>6. b.completed \in Nat
    BY <1>3, AccountFacts DEF Grown, Sound
  <1> HIDE DEF a, b
  <1>7. Fits(b, left)
    BY <1>3, <1>4, <1>6, AmountFacts DEF Fits
  <1>8. QED
    BY <1>3, <1>5, <1>7

\* A cohort that ends stays a sound account.
LEMMA EndsFacts ==
    ASSUME TypeOK, AccountsAreSound, NEW c \in Existing, NEW left, Ends(c, left)
    PROVE  Evolves(c)
  <1> DEFINE a == cohort[c]
             st == IF left > 0 THEN "stopped"
                   ELSE IF a.completed = TaskCount THEN "completed" ELSE "partial"
             b == Ended(a, st)
  <1>1. Sound(a) /\ ~a.open /\ NowIs(c, b)
    BY DEF AccountsAreSound, Ends
  <1>2. st \in {"stopped", "partial", "completed"}
        /\ (st = "completed" => a.completed = TaskCount)
    OBVIOUS
  <1> HIDE DEF st
  <1>3. Grown(a, b)
    BY <1>1, <1>2, EndedGrown
  <1>4. QED
    BY <1>1, <1>3 DEF Evolves, Grown, Sound
-----------------------------------------------------------------------------
(***************************************************************************)
(* What a step does to matrix.json beside the cohorts.                     *)
(***************************************************************************)

\* A cohort evolves while matrix.json says that the matrix runs, or somebody
\* has run it directly.
Moves ==
    \E c \in CellIds :
        /\ Evolves(c) /\ saved' = saved /\ saved # NoState
        /\ \/ saved.status = "running"
           \/ touched' = TRUE /\ c \in Existing

Stays == saved' = saved /\ cohort' = cohort /\ touched' = touched

\* The first state, or that the matrix runs, or has come to a cell.
Notes ==
    /\ cohort' = cohort /\ touched' = touched /\ saved' \in MatrixState
    /\ \/ saved = NoState /\ saved' = InitialState
       \/ /\ saved # NoState /\ saved'.status = "running" /\ saved'.usage = saved.usage
          /\ \A c \in CellIds :
                 saved'.cells[c] \in {saved.cells[c], [status |-> "running", error |-> FALSE]}

\* Statuses and totals are taken over from the cohorts.
Recalculates(s) ==
    /\ cohort' = cohort /\ touched' = FALSE /\ saved' = Recalculated(s)
    /\ s \in MatrixState /\ s.status # "ready" /\ saved # NoState
    /\ \A c \in CellIds : s.cells[c].status = "completed" => IsPaired(c)
    /\ s.status = "failed" => \E c \in CellIds : s.cells[c].error
    /\ s.status \in {"completed", "partial"} => \A c \in CellIds : ~s.cells[c].error
    /\ s.status = "completed" => \A c \in CellIds : IsPaired(c)

\* What matrix.json is made of.
LEMMA MatrixFacts ==
    ASSUME NEW s \in MatrixState
    PROVE  /\ s # NoState
           /\ s.status \in {"ready", "running", "completed", "partial", "failed"}
           /\ s.cells \in [CellIds -> Cell]
           /\ \A c \in CellIds : s.cells[c] \in Cell /\ s.cells[c].error \in BOOLEAN
           /\ s.usage \in [total : Amount, debited : Amount]
  <1>1. /\ s.status \in {"ready", "running", "completed", "partial", "failed"}
        /\ s.cells \in [CellIds -> Cell] /\ s.usage \in [total : Amount, debited : Amount]
    BY DEF MatrixState
  <1>2. NoState.status = "none"
    BY DEF NoState
  <1>3. \A k \in Cell : k.error \in BOOLEAN
    BY DEF Cell
  <1>4. QED
    BY <1>1, <1>2, <1>3

\* A recalculation changes the statuses of the cells with a cohort, and the totals.
LEMMA RecalculatedFacts ==
    ASSUME TypeOK, NEW s \in MatrixState
    PROVE  /\ Recalculated(s) \in MatrixState
           /\ Recalculated(s).status = s.status /\ Recalculated(s).usage = InCohorts
           /\ \A c \in CellIds :
                  /\ Recalculated(s).cells[c].error = s.cells[c].error
                  /\ Recalculated(s).cells[c].status =
                         IF c \in Existing THEN cohort[c].status ELSE s.cells[c].status
  <1> DEFINE k == CellsNow(s)
             z == [s EXCEPT !.cells = k, !.usage = InCohorts]
  <1>1. ASSUME NEW c \in CellIds
        PROVE  /\ k[c] \in Cell /\ k[c].error = s.cells[c].error
               /\ k[c].status = IF c \in Existing THEN cohort[c].status ELSE s.cells[c].status
    <2>1. s.cells[c] \in Cell
      BY MatrixFacts
    <2>2. k[c] = IF c \in Existing THEN [s.cells[c] EXCEPT !.status = cohort[c].status]
                 ELSE s.cells[c]
      BY DEF CellsNow
    <2>3. CASE c \in Existing
      <3>1. cohort[c].status \in {"ready", "running", "completed", "partial", "stopped"}
        BY <2>3, AccountFacts DEF Existing, TypeOK, AccountStatuses
      <3> DEFINE x == cohort[c].status
      <3> HIDE DEF x, k
      <3>2. k[c] = [s.cells[c] EXCEPT !.status = x]
        BY <2>2, <2>3 DEF x
      <3>3. QED
        BY <2>1, <2>3, <3>1, <3>2 DEF Cell, x
    <2>4. CASE c \notin Existing
      BY <2>1, <2>2, <2>4
    <2>5. QED
      BY <2>3, <2>4
  <1>2. k \in [CellIds -> Cell]
    BY <1>1 DEF CellsNow
  <1>3. InCohorts \in [total : Amount, debited : Amount]
    BY TotalsFacts
  <1>4. Recalculated(s) = z
    BY DEF Recalculated
  <1> HIDE DEF k
  <1>5. z \in MatrixState /\ z.status = s.status /\ z.usage = InCohorts /\ z.cells = k
    BY <1>2, <1>3 DEF MatrixState
  <1> HIDE DEF z
  <1>6. QED
    BY <1>1, <1>4, <1>5

\* The parts of the invariant that relate matrix.json to the cohorts.
LEMMA RecordStep ==
    ASSUME Inv, Moves \/ Stays \/ Notes \/ \E s : Recalculates(s)
    PROVE  /\ saved' = NoState \/ saved' \in MatrixState
           /\ cohort' \in [CellIds -> Account \cup {NoAccount}]
           /\ AccountsAreSound' /\ NoCohortYet' /\ CompletedCellsArePaired'
           /\ TotalsMatchTheCohorts' /\ ErrorsExplainTheStatus' /\ CompletedMatrixIsPaired'
  <1> USE DEF Inv
  <1>1. CASE Stays
    <2>1. /\ Existing' = Existing /\ InCohorts' = InCohorts
          /\ AccountsAreSound' /\ \A c : IsPaired(c)' <=> IsPaired(c)
      BY <1>1, SameCohorts DEF Stays
    <2>2. saved' = saved /\ cohort' = cohort /\ touched' = touched
      BY <1>1 DEF Stays
    <2>3. CompletedCellsArePaired' /\ NoCohortYet'
      BY <2>1, <2>2 DEF CompletedCellsArePaired, NoCohortYet
    <2>4. TotalsMatchTheCohorts' /\ ErrorsExplainTheStatus' /\ CompletedMatrixIsPaired'
      BY <2>1, <2>2 DEF TotalsMatchTheCohorts, ErrorsExplainTheStatus, CompletedMatrixIsPaired
    <2>5. QED
      BY <2>1, <2>2, <2>3, <2>4 DEF TypeOK
  <1>2. CASE Moves
    <2>1. PICK c \in CellIds :
              /\ Evolves(c) /\ saved' = saved /\ saved # NoState
              /\ \/ saved.status = "running"
                 \/ touched' = TRUE /\ c \in Existing
      BY <1>2 DEF Moves
    <2>2. /\ cohort' \in [CellIds -> Account \cup {NoAccount}]
          /\ Existing' = Existing \cup {c}
          /\ AccountsAreSound'
          /\ \A d \in CellIds : IsPaired(d) => IsPaired(d)'
          /\ \A u \in Units :
                 /\ InCohorts.total[u] \in Nat /\ InCohorts'.total[u] \in Nat
                 /\ InCohorts.total[u] <= InCohorts'.total[u]
      BY <2>1, EvolvesFacts
    <2>3. saved \in MatrixState
      BY <2>1 DEF TypeOK
    <2>4. NoCohortYet'
      BY <2>1, <2>2 DEF NoCohortYet
    <2>5. CompletedCellsArePaired' /\ CompletedMatrixIsPaired'
      BY <2>1, <2>2 DEF CompletedCellsArePaired, CompletedMatrixIsPaired, IsPaired, Existing
    <2>6. TotalsMatchTheCohorts'
      <3>1. saved.status # "running" => touched' = TRUE
        BY <2>1
      <3>2. \A u \in Units : saved.usage.total[u] \in Nat
                             /\ saved.usage.total[u] <= InCohorts.total[u]
        BY <2>1, <2>3, MatrixFacts DEF TotalsMatchTheCohorts, Amount
      <3>3. \A u \in Units : saved.usage.total[u] <= InCohorts'.total[u]
        BY <2>2, <3>2
      <3>4. QED
        BY <2>1, <3>1, <3>3 DEF TotalsMatchTheCohorts
    <2>7. ErrorsExplainTheStatus'
      BY <2>1 DEF ErrorsExplainTheStatus
    <2>8. QED
      BY <2>1, <2>2, <2>3, <2>4, <2>5, <2>6, <2>7
  <1>3. CASE Notes
    <2>1. /\ Existing' = Existing /\ InCohorts' = InCohorts
          /\ AccountsAreSound' /\ \A c : IsPaired(c)' <=> IsPaired(c)
      BY <1>3, SameCohorts DEF Notes
    <2>2. /\ cohort' = cohort /\ touched' = touched
          /\ saved' \in MatrixState /\ saved' # NoState
      BY <1>3, MatrixFacts DEF Notes
    <2>3. CASE saved = NoState /\ saved' = InitialState
      <3>1. Existing = {} /\ InCohorts = [total |-> Nothing, debited |-> Nothing]
        BY <2>3, TotalsFacts DEF NoCohortYet
      <3>2. /\ saved'.status = "ready" /\ saved'.usage = InCohorts
            /\ \A c \in CellIds : saved'.cells[c].status # "completed"
        BY <2>3, <3>1 DEF InitialState
      <3>3. \A u \in Units : InCohorts.total[u] \in Nat
        BY TotalsFacts DEF Amount
      <3>4. TotalsMatchTheCohorts'
        <4>1. \A u \in Units : saved'.usage.total[u] <= InCohorts'.total[u]
          BY <2>1, <3>2, <3>3
        <4>2. QED
          BY <2>1, <3>2, <4>1 DEF TotalsMatchTheCohorts
      <3>5. NoCohortYet' /\ CompletedCellsArePaired'
        BY <2>1, <3>1, <3>2 DEF NoCohortYet, CompletedCellsArePaired
      <3>6. ErrorsExplainTheStatus' /\ CompletedMatrixIsPaired'
        BY <3>2 DEF ErrorsExplainTheStatus, CompletedMatrixIsPaired
      <3>7. QED
        BY <2>1, <2>2, <3>4, <3>5, <3>6 DEF TypeOK
    <2>4. CASE /\ saved # NoState /\ saved'.status = "running" /\ saved'.usage = saved.usage
               /\ \A c \in CellIds :
                      saved'.cells[c] \in {saved.cells[c], [status |-> "running", error |-> FALSE]}
      <3>1. TotalsMatchTheCohorts' /\ NoCohortYet'
        BY <2>1, <2>2, <2>4 DEF TotalsMatchTheCohorts, NoCohortYet
      <3>2. CompletedCellsArePaired'
        <4> SUFFICES ASSUME NEW c \in CellIds, saved'.cells[c].status = "completed"
                     PROVE  IsPaired(c)'
          BY DEF CompletedCellsArePaired
        <4>1. saved'.cells[c] = saved.cells[c]
          BY <2>4
        <4>2. QED
          BY <2>1, <2>4, <4>1 DEF CompletedCellsArePaired
      <3>3. ErrorsExplainTheStatus' /\ CompletedMatrixIsPaired'
        BY <2>4 DEF ErrorsExplainTheStatus, CompletedMatrixIsPaired
      <3>4. QED
        BY <2>1, <2>2, <3>1, <3>2, <3>3 DEF TypeOK
    <2>5. QED
      BY <1>3, <2>3, <2>4 DEF Notes
  <1>4. CASE \E s : Recalculates(s)
    <2>1. PICK s : Recalculates(s)
      BY <1>4
    <2>2. /\ Existing' = Existing /\ InCohorts' = InCohorts
          /\ AccountsAreSound' /\ \A c : IsPaired(c)' <=> IsPaired(c)
          /\ cohort' = cohort /\ saved # NoState /\ saved' = Recalculated(s) /\ s \in MatrixState
      BY <2>1, SameCohorts DEF Recalculates
    <2>3. /\ saved' \in MatrixState /\ saved' # NoState
          /\ saved'.status = s.status /\ saved'.usage = InCohorts
          /\ \A c \in CellIds :
                 /\ saved'.cells[c].error = s.cells[c].error
                 /\ saved'.cells[c].status =
                        IF c \in Existing THEN cohort[c].status ELSE s.cells[c].status
      BY <2>2, RecalculatedFacts, MatrixFacts
    <2>4. TotalsMatchTheCohorts'
      <3>1. \A u \in Units : InCohorts.total[u] \in Nat
        BY TotalsFacts DEF Amount
      <3>2. \A u \in Units : saved'.usage.total[u] <= InCohorts'.total[u]
        BY <2>2, <2>3, <3>1
      <3>3. QED
        BY <2>2, <2>3, <3>2 DEF TotalsMatchTheCohorts
    <2>5. NoCohortYet'
      BY <2>1, <2>3 DEF NoCohortYet, Recalculates
    <2>6. CompletedCellsArePaired'
      <3> SUFFICES ASSUME NEW c \in CellIds, saved'.cells[c].status = "completed"
                   PROVE  IsPaired(c)
        BY <2>2 DEF CompletedCellsArePaired
      <3>1. CASE c \in Existing
        BY <2>3, <3>1 DEF AccountsAreSound, Sound, IsPaired
      <3>2. CASE c \notin Existing
        BY <2>1, <2>3, <3>2 DEF Recalculates
      <3>3. QED
        BY <3>1, <3>2
    <2>7. ErrorsExplainTheStatus'
      BY <2>1, <2>3 DEF ErrorsExplainTheStatus, Recalculates
    <2>8. CompletedMatrixIsPaired'
      BY <2>1, <2>2, <2>3 DEF CompletedMatrixIsPaired, Recalculates, IsPaired, Existing
    <2>9. QED
      BY <2>2, <2>3, <2>4, <2>5, <2>6, <2>7, <2>8 DEF TypeOK
  <1>5. QED
    BY <1>1, <1>2, <1>3, <1>4
-----------------------------------------------------------------------------
(***************************************************************************)
(* The actions: what each does to matrix.json and the cohorts, and to the  *)
(* control of the coordinator and of the direct run.                       *)
(***************************************************************************)
Control ==
    /\ pc \in {"down", "begin", "next", "enter", "resume", "cell", "returned"}
    /\ pc = "down" => state = NoState
    /\ next \in 1 .. Len(Cells) + 1 /\ todo \in 0 .. TaskCount
    /\ starts \in 0 .. MaxStarts
    /\ direct \in CellIds \cup {Nobody}
    /\ directTodo \in 0 .. TaskCount /\ directRuns \in 0 .. MaxDirect
    /\ touched \in BOOLEAN
    /\ OneRunsACohort /\ WorksOnSaved /\ ErrorsCleared

Kind == Moves \/ Stays \/ Notes \/ \E s : Recalculates(s)

\* The control is part of the invariant, and with the record it is all of it.
LEMMA ControlFacts ==
    /\ Inv => Control
    /\ pc # "down" /\ Inv => saved \in MatrixState /\ state = saved
    /\ Inv /\ AtCell => Current \in CellIds /\ next \in 1 .. Len(Cells) /\ saved.status = "running"
  <1>1. Inv => Control
    BY DEF Inv, Control, TypeOK
  <1>2. pc # "down" /\ Inv => saved \in MatrixState /\ state = saved
    BY DEF Inv, TypeOK, WorksOnSaved
  <1>3. Inv /\ AtCell => Current \in CellIds /\ next \in 1 .. Len(Cells) /\ saved.status = "running"
    BY CellFacts DEF Inv, TypeOK, WorksOnSaved, OneRunsACohort, AtCell, Current
  <1>4. QED
    BY <1>1, <1>2, <1>3

\* Who comes to a cell starts with the first.
LEMMA StartStep ==
    ASSUME Inv, Start
    PROVE  Kind /\ Control'
  <1>1. Kind
    <2>1. InitialState \in MatrixState
      BY AmountFacts DEF InitialState, MatrixState, Cell
    <2>2. CASE saved = NoState
      BY <2>1, <2>2 DEF Start, Save, Kind, Notes
    <2>3. CASE saved # NoState
      BY <2>3 DEF Start, Kind, Stays
    <2>4. QED
      BY <2>2, <2>3
  <1>2. saved' # NoState /\ state' = saved'
    <2>1. CASE saved = NoState
      <3>1. InitialState # NoState
        BY DEF InitialState, NoState
      <3>2. QED
        BY <2>1, <3>1 DEF Start, Save
    <2>2. CASE saved # NoState
      BY <2>2 DEF Start
    <2>3. QED
      BY <2>1, <2>2
  <1>3. starts' \in 0 .. MaxStarts
    BY ConfigAssumption DEF Start, Inv, TypeOK
  <1>4. WorksOnSaved' /\ ErrorsCleared'
    BY <1>2 DEF Start, Inv, WorksOnSaved, ErrorsCleared
  <1>5. OneRunsACohort'
    BY DEF Start, Inv, OneRunsACohort, AtCell, Existing, direction
  <1>6. QED
    BY <1>1, <1>3, <1>4, <1>5, ControlFacts DEF Control, Start, direction

\* run_matrix marks the matrix running before it comes to a cell.
LEMMA BeginStep ==
    ASSUME Inv, Begin
    PROVE  Kind /\ Control'
  <1>1. saved \in MatrixState /\ state = saved /\ saved # NoState /\ next = 1
    BY ControlFacts, MatrixFacts DEF Begin, Inv, WorksOnSaved
  <1>2. /\ saved' = [saved EXCEPT !.status = "running"] /\ state' = saved'
    BY <1>1 DEF Begin, Save
  <1>3. /\ saved' \in MatrixState /\ saved'.status = "running" /\ saved'.usage = saved.usage
        /\ saved'.cells = saved.cells
    BY <1>1, <1>2 DEF MatrixState
  <1>4. Kind
    BY <1>1, <1>3 DEF Begin, Kind, Notes
  <1>5. saved' # NoState
    BY <1>3, MatrixFacts
  <1>6. WorksOnSaved'
    BY <1>2, <1>3, <1>5 DEF Begin, WorksOnSaved
  <1>7. ErrorsCleared'
    BY <1>1, CellFacts DEF Begin, ErrorsCleared, AtCell
  <1>8. OneRunsACohort'
    BY DEF Begin, Inv, OneRunsACohort, AtCell, Existing, direction
  <1>9. QED
    BY <1>4, <1>6, <1>7, <1>8, ControlFacts DEF Control, Begin, direction

\* The coordinator comes to a cell, marks it running and clears its error.
LEMMA EnterCellStep ==
    ASSUME Inv, EnterCell
    PROVE  Kind /\ Control'
  <1> DEFINE k == [status |-> "running", error |-> FALSE]
  <1>1. /\ saved \in MatrixState /\ state = saved /\ saved # NoState
        /\ saved.status = "running" /\ next \in 1 .. Len(Cells)
    BY CellFacts, ControlFacts, MatrixFacts DEF EnterCell, Inv, WorksOnSaved, TypeOK
  <1>2. Current \in CellIds
    BY <1>1, CellFacts DEF Current
  <1>3. saved' = [saved EXCEPT !.cells[Current] = k] /\ state' = saved'
    BY <1>1 DEF EnterCell, Save
  <1>4. k \in Cell /\ k.error = FALSE
    BY DEF Cell
  <1> HIDE DEF k
  <1>5. /\ saved' \in MatrixState /\ saved'.status = "running" /\ saved'.usage = saved.usage
        /\ saved'.cells[Current] = k
        /\ \A c \in CellIds : c # Current => saved'.cells[c] = saved.cells[c]
    BY <1>1, <1>2, <1>3, <1>4 DEF MatrixState
  <1>6. Kind
    BY <1>1, <1>5 DEF EnterCell, Kind, Notes, k
  <1>7. saved' # NoState
    BY <1>5, MatrixFacts
  <1>8. ErrorsCleared'
    <2> SUFFICES ASSUME NEW i \in 1 .. Len(Cells), i < next \/ i = next
                 PROVE  ~saved'.cells[Cells[i]].error
      BY DEF EnterCell, ErrorsCleared
    <2>1. CASE Cells[i] = Current
      BY <1>4, <1>5, <2>1
    <2>2. CASE Cells[i] # Current
      <3>1. i < next /\ Cells[i] \in CellIds
        BY <2>2, CellFacts DEF Current
      <3>2. ~saved.cells[Cells[i]].error
        BY <3>1 DEF EnterCell, Inv, ErrorsCleared
      <3>3. QED
        BY <1>5, <2>2, <3>1, <3>2
    <2>3. QED
      BY <2>1, <2>2
  <1>9. OneRunsACohort' /\ WorksOnSaved'
    BY <1>1, <1>3, <1>5, <1>7
       DEF EnterCell, Inv, OneRunsACohort, WorksOnSaved, AtCell, Existing, direction
  <1>10. QED
    BY <1>6, <1>8, <1>9, ControlFacts DEF Control, EnterCell, direction

\* A step within a cell, or beside the coordinator, leaves the record it works on.
LEMMA SameRecord ==
    ASSUME Inv, saved' = saved, state' = state, next' = next,
           pc' = pc \/ (AtCell /\ AtCell')
    PROVE  WorksOnSaved' /\ ErrorsCleared'
  BY DEF Inv, WorksOnSaved, ErrorsCleared, AtCell

\* The cell's cohort is made, or found, and its lock taken.
LEMMA EnterCohortStep ==
    ASSUME Inv, EnterCohort
    PROVE  Kind /\ Control'
  <1>1. Current \in CellIds /\ saved.status = "running" /\ next \in 1 .. Len(Cells)
        /\ saved # NoState
    BY ControlFacts DEF EnterCohort, AtCell, Inv, WorksOnSaved
  <1>2. TypeOK /\ AccountsAreSound
    BY DEF Inv
  <1>3. WorksOnSaved' /\ ErrorsCleared'
    BY SameRecord DEF EnterCohort, AtCell
  <1>4. Kind /\ OneRunsACohort'
    <2>1. CASE cohort[Current] = NoAccount
      <3>1. Evolves(Current)
        BY <2>1, FreshSound DEF EnterCohort, Evolves, Existing, Sound
      <3>2. Existing' = Existing \cup {Current}
            /\ \A d \in CellIds : d # Current => cohort'[d] = cohort[d]
        BY <1>1, <1>2, <3>1, EvolvesFacts
      <3>3. Kind
        BY <1>1, <2>1, <3>1 DEF EnterCohort, Kind, Moves
      <3>4. OneRunsACohort'
        BY <1>1, <3>2 DEF EnterCohort, Inv, OneRunsACohort, AtCell, Current, Existing, direction
      <3>5. QED
        BY <3>3, <3>4
    <2>2. CASE cohort[Current] # NoAccount
      <3>1. cohort' = cohort /\ Existing' = Existing /\ Current \in Existing
        BY <1>1, <2>2 DEF EnterCohort, Existing
      <3>2. Kind
        BY <3>1 DEF EnterCohort, Kind, Stays
      <3>3. OneRunsACohort'
        BY <1>1, <3>1 DEF EnterCohort, Inv, OneRunsACohort, AtCell, Current, direction
      <3>4. QED
        BY <3>2, <3>3
    <2>3. QED
      BY <2>1, <2>2
  <1>5. QED
    BY <1>3, <1>4, ControlFacts DEF Control, EnterCohort, direction

\* Where a step of run_cohort by the coordinator leaves the two who run cohorts.
LEMMA CohortMoves ==
    ASSUME Inv, AtCell, Evolves(Current), saved' = saved, touched' = touched,
           next' = next, AtCell', direction' = direction,
           pc \in {"resume", "cell"},
           pc' = "cell" => Fits(cohort'[Current], todo')
    PROVE  Kind /\ OneRunsACohort'
  <1>1. Current \in CellIds /\ saved.status = "running" /\ next \in 1 .. Len(Cells)
        /\ saved # NoState
    BY ControlFacts DEF AtCell, Inv, WorksOnSaved
  <1>2. TypeOK /\ AccountsAreSound /\ OneRunsACohort
    BY DEF Inv
  <1>3. Existing' = Existing \cup {Current}
        /\ \A d \in CellIds : d # Current => cohort'[d] = cohort[d]
    BY <1>1, <1>2, EvolvesFacts
  <1>4. Kind
    BY <1>1 DEF Kind, Moves
  <1>5. Current' = Current
    BY DEF Current
  <1>6. direct' = direct /\ directTodo' = directTodo
    BY DEF direction
  <1>7. direct # Nobody => direct # Current /\ direct \in Existing /\ direct \in CellIds
                           /\ Fits(cohort[direct], directTodo)
    BY <1>2 DEF OneRunsACohort, Existing
  <1>8. direct # Nobody => Fits(cohort'[direct], directTodo)
    BY <1>3, <1>7
  <1>9. OneRunsACohort'
    BY <1>1, <1>3, <1>5, <1>6, <1>7, <1>8 DEF OneRunsACohort
  <1>10. QED
    BY <1>4, <1>9

\* The cell's cohort reconciles and starts with its incomplete tasks.
LEMMA CohortResumesStep ==
    ASSUME Inv, CohortResumes
    PROVE  Kind /\ Control'
  <1>1. Current \in CellIds /\ TypeOK /\ AccountsAreSound /\ Resumes(Current) /\ AtCell
        /\ pc = "resume" /\ pc' = "cell" /\ todo' = Attemptable(Current)
    BY ControlFacts DEF CohortResumes, AtCell, Inv
  <1>2. Evolves(Current) /\ todo' \in 0 .. TaskCount /\ Fits(cohort'[Current], todo')
    BY <1>1, ResumesFacts
  <1>3. Kind /\ OneRunsACohort'
    BY <1>1, <1>2, CohortMoves DEF CohortResumes, AtCell
  <1>4. WorksOnSaved' /\ ErrorsCleared'
    BY SameRecord DEF CohortResumes, AtCell
  <1>5. QED
    BY <1>2, <1>3, <1>4, ControlFacts DEF Control, CohortResumes, direction

\* The cell's cohort starts an attempt.
LEMMA CohortReservesStep ==
    ASSUME Inv, CohortReserves
    PROVE  Kind /\ Control'
  <1>1. TypeOK /\ AccountsAreSound /\ Reserves(Current, todo) /\ AtCell
        /\ pc = "cell" /\ pc' = pc /\ todo' = todo - 1
        /\ Current \in Existing /\ Fits(cohort[Current], todo) /\ todo \in 0 .. TaskCount
    BY DEF CohortReserves, AtCell, Inv, OneRunsACohort, TypeOK
  <1>2. Evolves(Current) /\ todo' \in 0 .. TaskCount /\ Fits(cohort'[Current], todo')
    BY <1>1, ReservesFacts
  <1>3. Kind /\ OneRunsACohort'
    BY <1>1, <1>2, CohortMoves DEF CohortReserves, AtCell
  <1>4. WorksOnSaved' /\ ErrorsCleared'
    BY SameRecord DEF CohortReserves
  <1>5. QED
    BY <1>2, <1>3, <1>4, ControlFacts DEF Control, CohortReserves, direction

\* The cell's cohort records how an attempt ended.
LEMMA CohortSettlesStep ==
    ASSUME Inv, CohortSettles
    PROVE  Kind /\ Control'
  <1>1. TypeOK /\ AccountsAreSound /\ Settles(Current) /\ AtCell
        /\ pc = "cell" /\ pc' = pc /\ todo' = todo
        /\ Current \in Existing /\ Fits(cohort[Current], todo) /\ todo \in 0 .. TaskCount
    BY DEF CohortSettles, AtCell, Inv, OneRunsACohort, TypeOK, process
  <1>2. Evolves(Current) /\ Fits(cohort'[Current], todo')
    BY <1>1, SettlesFacts
  <1>3. Kind /\ OneRunsACohort'
    BY <1>1, <1>2, CohortMoves DEF CohortSettles, AtCell, process
  <1>4. WorksOnSaved' /\ ErrorsCleared'
    BY SameRecord DEF CohortSettles, process
  <1>5. QED
    BY <1>3, <1>4, ControlFacts DEF Control, CohortSettles, direction, process

\* The cell's cohort is done and run_cohort returns.
LEMMA CohortEndsStep ==
    ASSUME Inv, CohortEnds
    PROVE  Kind /\ Control'
  <1>1. TypeOK /\ AccountsAreSound /\ Ends(Current, todo) /\ AtCell
        /\ pc = "cell" /\ pc' = "returned" /\ Current \in Existing
    BY DEF CohortEnds, AtCell, Inv, OneRunsACohort
  <1>2. Evolves(Current)
    BY <1>1, EndsFacts
  <1>3. Kind /\ OneRunsACohort'
    BY <1>1, <1>2, CohortMoves DEF CohortEnds, AtCell
  <1>4. WorksOnSaved' /\ ErrorsCleared'
    BY SameRecord DEF CohortEnds, AtCell
  <1>5. todo' \in 0 .. TaskCount
    BY AmountFacts DEF CohortEnds
  <1>6. QED
    BY <1>3, <1>4, <1>5, ControlFacts DEF Control, CohortEnds, direction

\* After a cell its errors stay cleared, and the next one is not come to yet.
LEMMA CellReturnsStep ==
    ASSUME Inv, CellReturns
    PROVE  Kind /\ Control'
  <1>1. /\ saved \in MatrixState /\ state = saved /\ saved # NoState
        /\ saved.status = "running" /\ next \in 1 .. Len(Cells)
    BY ControlFacts, MatrixFacts DEF CellReturns, AtCell
  <1>2. TypeOK /\ CompletedCellsArePaired /\ ErrorsCleared
    BY DEF Inv
  <1>3. saved' = Recalculated(saved) /\ state' = saved' /\ cohort' = cohort /\ touched' = FALSE
    BY <1>1 DEF CellReturns, Save
  <1>4. /\ saved' \in MatrixState /\ saved'.status = "running" /\ saved' # NoState
        /\ \A c \in CellIds : saved'.cells[c].error = saved.cells[c].error
    BY <1>1, <1>2, <1>3, RecalculatedFacts, MatrixFacts
  <1>5. Kind
    <2>1. Recalculates(saved)
      BY <1>1, <1>2, <1>3 DEF Recalculates, CompletedCellsArePaired
    <2>2. QED
      BY <2>1 DEF Kind
  <1>6. WorksOnSaved'
    BY <1>3, <1>4 DEF CellReturns, WorksOnSaved
  <1>7. ErrorsCleared'
    <2>1. \A i \in 1 .. Len(Cells) : i < next + 1 => ~saved.cells[Cells[i]].error
      BY <1>1, <1>2, CellFacts DEF CellReturns, ErrorsCleared, AtCell
    <2>2. \A i \in 1 .. Len(Cells) : i < next + 1 => ~saved'.cells[Cells[i]].error
      BY <1>4, <2>1, CellFacts
    <2>3. QED
      BY <2>2 DEF CellReturns, ErrorsCleared, AtCell
  <1>8. OneRunsACohort'
    BY <1>3 DEF CellReturns, Inv, OneRunsACohort, AtCell, Existing, direction
  <1>9. next' \in 1 .. Len(Cells) + 1
    BY <1>1, CellFacts DEF CellReturns
  <1>10. QED
    BY <1>5, <1>6, <1>7, <1>8, <1>9, ControlFacts DEF Control, CellReturns, direction

\* A coordinator that has left runs nothing and works on nothing.
LEMMA LeaveStep ==
    ASSUME Inv, Leave, cohort' = cohort, direction' = direction, starts' = starts,
           touched' \in BOOLEAN
    PROVE  Control'
  <1>1. WorksOnSaved' /\ ErrorsCleared'
    BY DEF Leave, WorksOnSaved, ErrorsCleared
  <1>2. OneRunsACohort'
    BY DEF Leave, Inv, OneRunsACohort, AtCell, Existing, direction
  <1>3. next' \in 1 .. Len(Cells) + 1 /\ todo' \in 0 .. TaskCount
    BY CellFacts, AmountFacts DEF Leave
  <1>4. QED
    BY <1>1, <1>2, <1>3, ControlFacts DEF Control, Leave, direction

\* The cell at which a matrix fails keeps the error, whatever its status becomes.
LEMMA CohortRaisesStep ==
    ASSUME Inv, CohortRaises
    PROVE  Kind /\ Control'
  <1> DEFINE k == [status |-> "orchestration_error", error |-> TRUE]
             s == [state EXCEPT !.status = "failed", !.cells[Current] = k]
  <1>1. /\ saved \in MatrixState /\ state = saved /\ saved # NoState /\ Current \in CellIds
    BY ControlFacts, MatrixFacts DEF CohortRaises, AtCell
  <1>2. k \in Cell /\ k.error = TRUE /\ k.status # "completed"
    BY DEF Cell
  <1>3. saved' = Recalculated(s) /\ cohort' = cohort /\ touched' = FALSE
    BY DEF CohortRaises
  <1> HIDE DEF k
  <1>4. /\ s \in MatrixState /\ s.status = "failed" /\ s.cells[Current] = k
        /\ \A c \in CellIds : c # Current => s.cells[c] = saved.cells[c]
    BY <1>1, <1>2 DEF MatrixState
  <1> HIDE DEF s
  <1>5. \A c \in CellIds : s.cells[c].status = "completed" => IsPaired(c)
    BY <1>1, <1>2, <1>4 DEF Inv, CompletedCellsArePaired
  <1>6. Recalculates(s)
    BY <1>1, <1>2, <1>3, <1>4, <1>5 DEF Recalculates
  <1>7. Control'
    BY LeaveStep DEF CohortRaises
  <1>8. QED
    BY <1>6, <1>7 DEF Kind

\* Past the last cell no cell carries an error, and those completed are paired.
LEMMA FinishStep ==
    ASSUME Inv, Finish
    PROVE  Kind /\ Control'
  <1> DEFINE st == IF \A c \in CellIds : state.cells[c].status = "completed"
                   THEN "completed" ELSE "partial"
             s == [state EXCEPT !.status = st]
  <1>1. /\ saved \in MatrixState /\ state = saved /\ saved # NoState
        /\ next > Len(Cells) /\ pc = "next" /\ next \in 1 .. Len(Cells) + 1
    BY ControlFacts, MatrixFacts DEF Finish, Inv, TypeOK
  <1>2. \A c \in CellIds : ~saved.cells[c].error
    <2> SUFFICES ASSUME NEW c \in CellIds PROVE ~saved.cells[c].error
      OBVIOUS
    <2>1. PICK i \in 1 .. Len(Cells) : Cells[i] = c
      BY CellFacts
    <2>2. i < next
      BY <1>1, <2>1, CellFacts
    <2>3. QED
      BY <1>1, <2>1, <2>2 DEF Inv, ErrorsCleared
  <1>3. \A c \in CellIds : saved.cells[c].status = "completed" => IsPaired(c)
    BY <1>1 DEF Inv, CompletedCellsArePaired
  <1>4. /\ st \in {"completed", "partial"}
        /\ st = "completed" => \A c \in CellIds : IsPaired(c)
    BY <1>1, <1>3
  <1>5. saved' = Recalculated(s) /\ cohort' = cohort /\ touched' = FALSE
    BY DEF Finish
  <1> HIDE DEF st
  <1>6. s \in MatrixState /\ s.status = st /\ s.cells = saved.cells
    BY <1>1, <1>4 DEF MatrixState
  <1> HIDE DEF s
  <1>7. Recalculates(s)
    BY <1>1, <1>2, <1>3, <1>4, <1>5, <1>6 DEF Recalculates
  <1>8. Control'
    BY LeaveStep DEF Finish
  <1>9. QED
    BY <1>7, <1>8 DEF Kind

\* A kill loses what is in memory and nothing on disk.
LEMMA CrashStep ==
    ASSUME Inv, Crash
    PROVE  Kind /\ Control'
  <1>1. Kind
    BY DEF Crash, Kind, Stays
  <1>2. Control'
    BY LeaveStep DEF Crash, Inv, TypeOK
  <1>3. QED
    BY <1>1, <1>2

\* Where a step of a direct run leaves the two who run cohorts.
LEMMA DirectMoves ==
    ASSUME Inv, NEW c \in Existing, Evolves(c),
           pc \in {"resume", "cell"} => c # Current,
           saved' = saved, process' = process, touched' = TRUE, starts' = starts,
           direct' \in {c, Nobody}, directTodo' \in 0 .. TaskCount,
           directRuns' \in 0 .. MaxDirect,
           direct' = c => Fits(cohort'[c], directTodo')
    PROVE  Kind /\ Control'
  <1>1. TypeOK /\ AccountsAreSound /\ OneRunsACohort /\ c \in CellIds
    BY DEF Inv, Existing
  <1>2. Existing' = Existing \cup {c} /\ \A d \in CellIds : d # c => cohort'[d] = cohort[d]
    BY <1>1, EvolvesFacts
  <1>3. saved # NoState
    BY DEF Inv, NoCohortYet
  <1>4. Kind
    BY <1>1, <1>3 DEF Kind, Moves
  <1>5. pc' = pc /\ state' = state /\ next' = next /\ todo' = todo /\ Current' = Current
    BY DEF process, Current
  <1>6. WorksOnSaved' /\ ErrorsCleared'
    BY <1>5, SameRecord
  <1>7. pc \in {"resume", "cell"} => Current \in CellIds /\ cohort'[Current] = cohort[Current]
    BY <1>2, ControlFacts DEF AtCell
  <1>8. /\ AtCell' => next' <= Len(Cells)
        /\ pc' \in {"resume", "cell"} => Current' \in Existing'
        /\ pc' = "cell" => Fits(cohort[Current], todo)
    BY <1>1, <1>2, <1>5 DEF OneRunsACohort, AtCell
  <1>9. pc' = "cell" => Fits(cohort'[Current'], todo')
    BY <1>5, <1>7, <1>8
  <1>10. direct' # Nobody => direct' \in Existing' /\ Fits(cohort'[direct'], directTodo')
    BY <1>2
  <1>11. pc' \in {"resume", "cell"} /\ direct' # Nobody => direct' # Current'
    BY <1>5
  <1>12. OneRunsACohort'
    BY <1>8, <1>9, <1>10, <1>11 DEF OneRunsACohort
  <1>13. QED
    BY <1>1, <1>4, <1>5, <1>6, <1>12, ControlFacts DEF Control

\* Somebody runs a cell's cohort beside the matrix.
LEMMA DirectStartsStep ==
    ASSUME Inv, NEW c \in CellIds, DirectStarts(c)
    PROVE  Kind /\ Control'
  <1>1. TypeOK /\ AccountsAreSound /\ Resumes(c)
    BY DEF Inv, DirectStarts
  <1>2. /\ Evolves(c) /\ c \in Existing /\ directTodo' \in 0 .. TaskCount
        /\ Fits(cohort'[c], directTodo')
    BY <1>1, ResumesFacts DEF DirectStarts
  <1>3. directRuns' \in 0 .. MaxDirect
    BY <1>1, ConfigAssumption DEF DirectStarts, TypeOK
  <1>4. QED
    BY <1>2, <1>3, DirectMoves DEF DirectStarts, LockHeld

\* What is known of a direct run under way.
LEMMA DirectFacts ==
    ASSUME Inv, direct # Nobody
    PROVE  /\ TypeOK /\ AccountsAreSound /\ direct \in Existing
           /\ directTodo \in 0 .. TaskCount /\ Fits(cohort[direct], directTodo)
           /\ pc \in {"resume", "cell"} => direct # Current
           /\ directRuns \in 0 .. MaxDirect
  BY DEF Inv, TypeOK, OneRunsACohort

\* The direct run starts an attempt.
LEMMA DirectReservesStep ==
    ASSUME Inv, DirectReserves
    PROVE  Kind /\ Control'
  <1>1. direct # Nobody /\ Reserves(direct, directTodo) /\ directTodo' = directTodo - 1
    BY DEF DirectReserves
  <1>2. /\ Evolves(direct) /\ directTodo' \in 0 .. TaskCount
        /\ Fits(cohort'[direct], directTodo')
    BY <1>1, DirectFacts, ReservesFacts
  <1>3. QED
    BY <1>1, <1>2, DirectFacts, DirectMoves DEF DirectReserves

\* The direct run records how an attempt ended.
LEMMA DirectSettlesStep ==
    ASSUME Inv, DirectSettles
    PROVE  Kind /\ Control'
  <1>1. direct # Nobody /\ Settles(direct) /\ directTodo' = directTodo /\ direct' = direct
        /\ directRuns' = directRuns
    BY DEF DirectSettles, direction
  <1>2. Evolves(direct) /\ Fits(cohort'[direct], directTodo')
    BY <1>1, DirectFacts, SettlesFacts
  <1>3. QED
    BY <1>1, <1>2, DirectFacts, DirectMoves DEF DirectSettles

\* The direct run is done.
LEMMA DirectEndsStep ==
    ASSUME Inv, DirectEnds
    PROVE  Kind /\ Control'
  <1>1. direct # Nobody /\ Ends(direct, directTodo)
    BY DEF DirectEnds
  <1>2. Evolves(direct)
    BY <1>1, DirectFacts, EndsFacts
  <1>3. direct' = Nobody /\ directTodo' \in 0 .. TaskCount /\ direct \in CellIds
    BY <1>1, DirectFacts, AmountFacts DEF DirectEnds, Existing
  <1>4. QED
    BY <1>1, <1>2, <1>3, DirectFacts, DirectMoves DEF DirectEnds

\* The direct run is killed or raises.
LEMMA DirectLeavesStep ==
    ASSUME Inv, DirectLeaves
    PROVE  Kind /\ Control'
  <1>1. Kind
    BY DEF DirectLeaves, Kind, Stays
  <1>2. WorksOnSaved' /\ ErrorsCleared'
    BY SameRecord DEF DirectLeaves, process
  <1>3. OneRunsACohort'
    BY DEF DirectLeaves, Inv, OneRunsACohort, AtCell, Existing, Current, process
  <1>4. QED
    BY <1>1, <1>2, <1>3, ControlFacts, AmountFacts DEF Control, DirectLeaves, process
-----------------------------------------------------------------------------
(***************************************************************************)
(* The invariant holds, and with it the safety properties.                 *)
(***************************************************************************)

\* The invariant but for the control.
Record ==
    /\ saved = NoState \/ saved \in MatrixState
    /\ cohort \in [CellIds -> Account \cup {NoAccount}]
    /\ AccountsAreSound /\ NoCohortYet /\ CompletedCellsArePaired
    /\ TotalsMatchTheCohorts /\ ErrorsExplainTheStatus /\ CompletedMatrixIsPaired

\* The record and the control are all of the invariant.
LEMMA InvFromParts == Control /\ Record => Inv
  <1> SUFFICES ASSUME Control, Record PROVE Inv
    OBVIOUS
  <1>1. IF pc = "down" THEN state = NoState ELSE state \in MatrixState
    BY DEF Control, Record, WorksOnSaved
  <1>2. TypeOK
    BY <1>1 DEF Control, Record, TypeOK
  <1>3. QED
    BY <1>2 DEF Control, Record, Inv

\* The same of the state after a step.
LEMMA InvFromPartsNext == Control' /\ Record' => Inv'
  BY InvFromParts, PTL

\* There is neither matrix.json nor a cohort at first.
LEMMA InitInv == Init => Inv
  <1> SUFFICES ASSUME Init PROVE Inv
    OBVIOUS
  <1>1. Existing = {} /\ saved = NoState
    BY DEF Init, Existing
  <1>2. /\ AccountsAreSound /\ NoCohortYet /\ CompletedCellsArePaired
        /\ TotalsMatchTheCohorts /\ ErrorsExplainTheStatus /\ CompletedMatrixIsPaired
    BY <1>1 DEF AccountsAreSound, NoCohortYet, CompletedCellsArePaired,
                TotalsMatchTheCohorts, ErrorsExplainTheStatus, CompletedMatrixIsPaired
  <1>3. OneRunsACohort /\ WorksOnSaved /\ ErrorsCleared
    BY DEF Init, OneRunsACohort, WorksOnSaved, ErrorsCleared, AtCell
  <1>4. MaxStarts \in Nat /\ MaxDirect \in Nat
    BY ConfigAssumption
  <1>5. Control
    <2>1. /\ next \in 1 .. Len(Cells) + 1 /\ todo \in 0 .. TaskCount
          /\ starts \in 0 .. MaxStarts
          /\ directTodo \in 0 .. TaskCount /\ directRuns \in 0 .. MaxDirect
      BY <1>4, CellFacts, AmountFacts DEF Init
    <2>2. touched \in BOOLEAN
      BY DEF Init
    <2>3. QED
      BY <1>3, <2>1, <2>2 DEF Init, Control
  <1>6. cohort \in [CellIds -> Account \cup {NoAccount}]
    BY DEF Init
  <1>7. QED
    BY <1>1, <1>2, <1>5, <1>6, InvFromParts DEF Record

\* Every step is one of the four kinds, and keeps the control.
LEMMA StepKind == Inv /\ Next => Kind /\ Control'
  <1> SUFFICES ASSUME Inv, Next PROVE Kind /\ Control'
    OBVIOUS
  <1>1. CASE Start
    BY <1>1, StartStep
  <1>2. CASE Begin
    BY <1>2, BeginStep
  <1>3. CASE EnterCell
    BY <1>3, EnterCellStep
  <1>4. CASE EnterCohort
    BY <1>4, EnterCohortStep
  <1>5. CASE CohortResumes
    BY <1>5, CohortResumesStep
  <1>6. CASE CohortReserves
    BY <1>6, CohortReservesStep
  <1>7. CASE CohortSettles
    BY <1>7, CohortSettlesStep
  <1>8. CASE CohortEnds
    BY <1>8, CohortEndsStep
  <1>9. CASE CellReturns
    BY <1>9, CellReturnsStep
  <1>10. CASE CohortRaises
    BY <1>10, CohortRaisesStep
  <1>11. CASE Finish
    BY <1>11, FinishStep
  <1>12. CASE Crash
    BY <1>12, CrashStep
  <1>13. CASE \E c \in CellIds : DirectStarts(c)
    BY <1>13, DirectStartsStep
  <1>14. CASE DirectReserves
    BY <1>14, DirectReservesStep
  <1>15. CASE DirectSettles
    BY <1>15, DirectSettlesStep
  <1>16. CASE DirectEnds
    BY <1>16, DirectEndsStep
  <1>17. CASE DirectLeaves
    BY <1>17, DirectLeavesStep
  <1>18. QED
    BY <1>1, <1>2, <1>3, <1>4, <1>5, <1>6, <1>7, <1>8, <1>9, <1>10, <1>11, <1>12, <1>13,
       <1>14, <1>15, <1>16, <1>17 DEF Next

\* The invariant with its parts unchanged.
LEMMA StutterInv == Inv /\ UNCHANGED vars => Inv'
  <1> SUFFICES ASSUME Inv, UNCHANGED vars PROVE Inv'
    OBVIOUS
  <1>1. /\ saved' = saved /\ cohort' = cohort /\ touched' = touched /\ starts' = starts
        /\ pc' = pc /\ state' = state /\ next' = next /\ todo' = todo
        /\ direct' = direct /\ directTodo' = directTodo /\ directRuns' = directRuns
    BY DEF vars, process, direction
  <1>2. Kind
    BY <1>1 DEF Kind, Stays
  <1>3. WorksOnSaved' /\ ErrorsCleared'
    BY <1>1, SameRecord
  <1>4. OneRunsACohort'
    BY <1>1 DEF Inv, OneRunsACohort, AtCell, Existing, Current
  <1>5. Control'
    BY <1>1, <1>3, <1>4, ControlFacts DEF Control
  <1>6. Record'
    BY <1>2, RecordStep DEF Kind, Record
  <1>7. QED
    BY <1>5, <1>6, InvFromPartsNext

\* Every behaviour of the coordinator, its crashes and the direct runs beside it
\* included, keeps the invariant.
THEOREM MatrixInvariantHolds == Spec => []Inv
  <1>1. Init => Inv
    BY InitInv
  <1>2. Inv /\ [Next]_vars => Inv'
    <2>1. CASE Inv /\ Next
      <3>1. Kind /\ Control'
        BY <2>1, StepKind
      <3>2. Record'
        BY <2>1, <3>1, RecordStep DEF Kind, Record
      <3>3. QED
        BY <3>1, <3>2, InvFromPartsNext
    <2>2. CASE Inv /\ UNCHANGED vars
      BY <2>2, StutterInv
    <2>3. QED
      BY <2>1, <2>2
  <1>3. QED
    BY <1>1, <1>2, PTL DEF Spec

\* What is on disk and in memory is always well-formed: no more tasks completed
\* or left to do than a cohort has, no amount below zero (_load_state, _recalculate).
THEOREM MatrixTypeCorrect == Spec => []TypeOK
  <1>1. Inv => TypeOK
    BY DEF Inv
  <1>2. QED
    BY <1>1, MatrixInvariantHolds, PTL

\* The totals of matrix.json never run ahead of the cohorts, and are theirs when
\* run_matrix has returned or raised (_recalculate, before every such save).
THEOREM MatrixTotalsMatch == Spec => []TotalsMatchTheCohorts
  <1>1. Inv => TotalsMatchTheCohorts
    BY DEF Inv
  <1>2. QED
    BY <1>1, MatrixInvariantHolds, PTL

\* A failed matrix names a cell with its error, and one that ends otherwise
\* carries none of an earlier start (run_matrix clears a cell's error as it comes
\* to it).
THEOREM MatrixErrorsExplained == Spec => []ErrorsExplainTheStatus
  <1>1. Inv => ErrorsExplainTheStatus
    BY DEF Inv
  <1>2. QED
    BY <1>1, MatrixInvariantHolds, PTL

\* A completed matrix has every task of every cell completed, whatever was run,
\* stopped or killed before, by the coordinator or beside it.
THEOREM MatrixPairedWhenCompleted == Spec => []CompletedMatrixIsPaired
  <1>1. Inv => CompletedMatrixIsPaired
    BY DEF Inv
  <1>2. QED
    BY <1>1, MatrixInvariantHolds, PTL
-----------------------------------------------------------------------------
(***************************************************************************)
(* Every step leaves each cohort as it is or takes it one step further, as *)
(* the abstract account has it.                                            *)
(***************************************************************************)
Kept == \A c \in CellIds : cohort'[c] = cohort[c] \/ AccountStep(cohort[c], cohort'[c])

\* A save of one cohort leaves the others alone.
LEMMA OneAccount ==
    ASSUME TypeOK, NEW c \in CellIds, NEW b, NowIs(c, b), AccountStep(cohort[c], b)
    PROVE  Kept
  <1>1. cohort \in [CellIds -> Account \cup {NoAccount}]
    BY DEF TypeOK
  <1>2. cohort'[c] = b /\ \A d \in CellIds : d # c => cohort'[d] = cohort[d]
    BY <1>1 DEF NowIs
  <1>3. QED
    BY <1>2 DEF Kept

\* The same of what run_cohort does with the cohort of c, by whoever runs it.
LEMMA RunKeeps ==
    ASSUME TypeOK, AccountsAreSound, NEW c \in Existing, NEW left \in 0 .. TaskCount,
           \/ Resumes(c)
           \/ Fits(cohort[c], left) /\ (Reserves(c, left) \/ Settles(c) \/ Ends(c, left))
    PROVE  Kept
  <1> DEFINE a == cohort[c]
  <1>1. c \in CellIds /\ a # NoAccount /\ Sound(a)
    BY DEF Existing, AccountsAreSound
  <1>2. a.completed \in Nat /\ left \in Nat /\ TaskCount \in Nat
    BY <1>1, AccountFacts, AmountFacts DEF Sound
  <1>3. CASE Resumes(c)
    <2>1. PICK report \in Reports : NowIs(c, Begun(a, report))
      BY <1>3 DEF Resumes
    <2>2. AccountStep(a, Begun(a, report))
      BY <1>1 DEF AccountStep
    <2>3. QED
      BY <1>1, <2>1, <2>2, OneAccount
  <1>4. CASE Fits(a, left) /\ Reserves(c, left)
    <2>1. a.status = "running" /\ ~a.open /\ Refusing(a) = {} /\ NowIs(c, Reserved(a))
      BY <1>4 DEF Fits, Reserves
    <2>2. a.completed < TaskCount
      BY <1>2, <1>4 DEF Fits, Reserves
    <2>3. AccountStep(a, Reserved(a))
      BY <1>1, <2>1, <2>2 DEF AccountStep
    <2>4. QED
      BY <1>1, <2>1, <2>3, OneAccount
  <1>5. CASE Fits(a, left) /\ Settles(c)
    <2>1. PICK report \in Reports, done \in BOOLEAN : NowIs(c, Settled(a, report, done))
      BY <1>5 DEF Settles
    <2>2. a.status = "running" /\ a.open
      BY <1>5 DEF Fits, Settles
    <2>3. AccountStep(a, Settled(a, report, done))
      BY <1>1, <2>2 DEF AccountStep
    <2>4. QED
      BY <1>1, <2>1, <2>3, OneAccount
  <1>6. CASE Fits(a, left) /\ Ends(c, left)
    <2> DEFINE st == IF left > 0 THEN "stopped"
                     ELSE IF a.completed = TaskCount THEN "completed" ELSE "partial"
    <2>1. /\ a.status = "running" /\ ~a.open /\ NowIs(c, Ended(a, st))
          /\ left = 0 \/ Refusing(a) # {}
      BY <1>6 DEF Fits, Ends
    <2>2. left > 0 => a.completed # TaskCount
      BY <1>2, <1>6, <2>1 DEF Fits
    <2>3. st \in EndStatus(a)
      BY <1>2, <2>1, <2>2 DEF EndStatus
    <2> HIDE DEF st
    <2>4. AccountStep(a, Ended(a, st))
      BY <1>1, <2>1, <2>3 DEF AccountStep
    <2>5. QED
      BY <1>1, <2>1, <2>4, OneAccount
  <1>7. QED
    BY <1>3, <1>4, <1>5, <1>6

\* Each action of the coordinator or of the direct run is one of these, or
\* leaves the cohorts alone.
LEMMA StepKeeps == Inv /\ [Next]_vars => Kept
  <1> SUFFICES ASSUME Inv, [Next]_vars PROVE Kept
    OBVIOUS
  <1>1. TypeOK /\ AccountsAreSound
    BY DEF Inv
  <1>2. CASE cohort' = cohort
    BY <1>2 DEF Kept
  <1>3. CASE EnterCohort
    <2>1. CASE cohort[Current] = NoAccount
      <3>1. NowIs(Current, Fresh) /\ AccountStep(cohort[Current], Fresh)
        BY <1>3, <2>1 DEF EnterCohort, AccountStep
      <3>2. Current \in CellIds
        BY <1>3, ControlFacts DEF EnterCohort, AtCell
      <3>3. QED
        BY <1>1, <3>1, <3>2, OneAccount
    <2>2. CASE cohort[Current] # NoAccount
      BY <1>2, <1>3, <2>2 DEF EnterCohort
    <2>3. QED
      BY <2>1, <2>2
  <1>4. CASE CohortResumes
    <2>1. Resumes(Current) /\ Current \in Existing
      BY <1>4 DEF CohortResumes, Inv, OneRunsACohort
    <2>2. 0 \in 0 .. TaskCount
      BY AmountFacts
    <2>3. QED
      BY <1>1, <2>1, <2>2, RunKeeps
  <1>5. CASE CohortReserves \/ CohortSettles \/ CohortEnds
    <2>1. /\ Reserves(Current, todo) \/ Settles(Current) \/ Ends(Current, todo)
          /\ Current \in Existing /\ Fits(cohort[Current], todo) /\ todo \in 0 .. TaskCount
      BY <1>5 DEF CohortReserves, CohortSettles, CohortEnds, Inv, OneRunsACohort, TypeOK
    <2>2. QED
      BY <1>1, <2>1, RunKeeps
  <1>6. CASE \E c \in CellIds : DirectStarts(c)
    <2>1. PICK c \in CellIds : Resumes(c)
      BY <1>6 DEF DirectStarts
    <2>2. c \in Existing /\ 0 \in 0 .. TaskCount
      BY <2>1, AmountFacts DEF Resumes, Existing
    <2>3. QED
      BY <1>1, <2>1, <2>2, RunKeeps
  <1>7. CASE DirectReserves \/ DirectSettles \/ DirectEnds
    <2>1. /\ direct # Nobody
          /\ Reserves(direct, directTodo) \/ Settles(direct) \/ Ends(direct, directTodo)
      BY <1>7 DEF DirectReserves, DirectSettles, DirectEnds
    <2>2. QED
      BY <2>1, DirectFacts, RunKeeps
  <1>8. CASE Start \/ Begin \/ EnterCell \/ CellReturns \/ CohortRaises \/ Finish \/ Crash
             \/ DirectLeaves \/ UNCHANGED vars
    BY <1>2, <1>8 DEF Start, Begin, EnterCell, CellReturns, CohortRaises, Finish, Crash,
                      DirectLeaves, vars
  <1>9. QED
    BY <1>3, <1>4, <1>5, <1>6, <1>7, <1>8 DEF Next

\* Whatever the coordinator and somebody beside it do, crashes and restarts
\* included, the cohort of a cell only takes the steps of the account that
\* CohortScheduler is proved to implement.
THEOREM MatrixKeepsTheAccounts == Spec => CohortsKeepTheirAccounts
  <1>1. Inv /\ [Next]_vars =>
            [\A c \in CellIds : cohort'[c] = cohort[c]
                                 \/ AccountStep(cohort[c], cohort'[c])]_vars
    BY StepKeeps DEF Kept
  <1>2. QED
    BY <1>1, MatrixInvariantHolds, PTL DEF Spec, CohortsKeepTheirAccounts
=============================================================================

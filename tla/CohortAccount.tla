--------------------------- MODULE CohortAccount ---------------------------
(***************************************************************************)
(* A cohort as others see it in its cohort.json: its status, how many of   *)
(* its tasks are completed, what was used, what is debited, and whether an *)
(* attempt is on record as running.                                        *)
(*                                                                         *)
(* AccountStep is the abstract specification of CohortScheduler, which is  *)
(* shown to implement it (ImplementsAccount there); MatrixCoordinator is   *)
(* built from the same operators, one account for each of its cells.       *)
(***************************************************************************)
EXTENDS Integers

CONSTANTS
    TaskCount,      \* fixtures of the cohort
    Reservation,    \* the cap of an attempt, in each unit
    Budget,         \* the cohort's budget, in each unit
    Reports         \* what an attempt may be found to have used, or NoReport

Units == {"token", "cost"}
Amount == [Units -> Nat]
Nothing == [u \in Units |-> 0]
NoReport == [u \in {} |-> 0]

Plus(x, y) == [u \in Units |-> x[u] + y[u]]
UsedIn(report) == IF report = NoReport THEN Nothing ELSE report

NoAccount == [status |-> "none"]

Account == [status : {"ready", "running", "completed", "partial", "stopped"},
            completed : 0 .. TaskCount,
            used : Amount, debited : Amount,
            open : BOOLEAN]

\* The very first state.
Fresh == [status |-> "ready", completed |-> 0,
          used |-> Nothing, debited |-> Nothing, open |-> FALSE]

\* A start closes the attempt that a crash left running: what it is found to
\* have used is added, its reservation stays debited.
Begun(a, report) ==
    [a EXCEPT !.status = "running", !.open = FALSE,
              !.used = IF a.open THEN Plus(@, UsedIn(report)) ELSE @]

\* The units in which another attempt would exceed the budget.
Refusing(a) == {u \in Units : a.debited[u] + Reservation[u] > Budget[u]}

Reserved(a) == [a EXCEPT !.open = TRUE, !.debited = Plus(@, Reservation)]

\* An attempt with a report is debited what it reports.
Settled(a, report, done) ==
    [a EXCEPT !.open = FALSE,
              !.completed = IF done THEN @ + 1 ELSE @,
              !.used = Plus(@, UsedIn(report)),
              !.debited = IF report = NoReport THEN @
                          ELSE [u \in Units |-> @[u] - Reservation[u] + report[u]]]

EndStatus(a) ==
    IF a.completed = TaskCount THEN {"completed"}
    ELSE IF Refusing(a) = {} THEN {"partial"} ELSE {"partial", "stopped"}

Ended(a, status) == [a EXCEPT !.status = status]

\* One save of cohort.json.
AccountStep(a, b) ==
    \/ a = NoAccount /\ b = Fresh
    \/ /\ a # NoAccount
       /\ \E report \in Reports : b = Begun(a, report)
    \/ /\ a # NoAccount /\ a.status = "running" /\ ~a.open
       /\ \/ a.completed < TaskCount /\ Refusing(a) = {} /\ b = Reserved(a)
          \/ \E status \in EndStatus(a) : b = Ended(a, status)
    \/ /\ a # NoAccount /\ a.status = "running" /\ a.open
       /\ \E report \in Reports, done \in BOOLEAN : b = Settled(a, report, done)
=============================================================================

----------------------------- MODULE BatchPlan -----------------------------
(***************************************************************************)
(* The planner of batch_plan.py: complexity bands, batch capacities, the   *)
(* greedy assignment of tasks to batches, and what a plan is made from and *)
(* bound to.                                                               *)
(*                                                                         *)
(* Tasks are numbers in the order of their ids.  A dataset maps a task to  *)
(* its family, its complexity score (a number here, computed from file     *)
(* sizes and words in the code), and its files, of which the fingerprint   *)
(* sees the sizes.  A hash stands for what is hashed.                      *)
(***************************************************************************)
EXTENDS Integers, RunVerification, Functions, Sums

Bands == <<"simple", "moderate", "complex">>

\* Strings in the order in which Python sorts them.
Sorted == <<"complex", "editing", "generation", "moderate", "simple">>
Rank(string) == CHOOSE i \in DOMAIN Sorted : Sorted[i] = string

\* Tuples of numbers in Python's order.
LexLess(x, y) ==
    \E i \in DOMAIN x : x[i] < y[i] /\ \A j \in 1 .. i - 1 : x[j] = y[j]

\* min(set, key = key), and the first of the set sorted by it.
Least(set, key) == CHOOSE x \in set : \A y \in set \ {x} : LexLess(key[x], key[y])

\* The place of a task in its family, by score, gives its band.
Band(dataset, t) ==
    LET members == {s \in DOMAIN dataset : dataset[s].family = dataset[t].family}
        below   == {s \in members : LexLess(<<dataset[s].score, s>>, <<dataset[t].score, t>>)}
        index   == (Cardinality(below) * Len(Bands)) \div Cardinality(members)
    IN  Bands[1 + (IF index < Len(Bands) THEN index ELSE Len(Bands) - 1)]

Profiles(dataset) ==
    [t \in DOMAIN dataset |-> [family |-> dataset[t].family, score |-> dataset[t].score,
                               band |-> Band(dataset, t)]]

\* The fingerprint: every task with the names and sizes of its files.
Fingerprint(dataset) == [t \in DOMAIN dataset |-> dataset[t].sizes]

\* Faulty variant: batches as large as the target, and the rest in the last.
BatchCapacitiesUneven(count, target) ==
    LET batches == (count + target - 1) \div target
    IN  [b \in 1 .. batches |-> IF b < batches THEN target ELSE count - target * (batches - 1)]

BatchCapacities(count, target) ==
    LET batches == (count + target - 1) \div target
    IN  [b \in 1 .. batches |-> count \div batches + (IF b <= count % batches THEN 1 ELSE 0)]

Stratum(profiles, t) == <<profiles[t].family, profiles[t].band>>

\* Small strata first, then by name; in a stratum the hardest task first.
StratumKey(profiles, stratum) ==
    <<Cardinality({t \in DOMAIN profiles : Stratum(profiles, t) = stratum}),
      Rank(stratum[1]), Rank(stratum[2])>>

TaskKey(profiles, t) ==
    StratumKey(profiles, Stratum(profiles, t)) \o <<-profiles[t].score, t>>

StratumIndex(profiles, stratum) ==
    Cardinality({other \in {Stratum(profiles, t) : t \in DOMAIN profiles} :
                    LexLess(StratumKey(profiles, other), StratumKey(profiles, stratum))})

\* What batch b shares with t: the batch with the least of it gets the task.
Similarity(profiles, batches, t, b) ==
    LET batch  == batches[b]
        family == {i \in DOMAIN batch : profiles[batch[i]].family = profiles[t].family}
        band   == {i \in DOMAIN batch : profiles[batch[i]].band = profiles[t].band}
    IN  <<Cardinality(family \cap band), Cardinality(family), Cardinality(band), Len(batch),
          SumSeq([i \in 1 .. Len(batch) |-> profiles[batch[i]].score]),
          (b - 1 - StratumIndex(profiles, Stratum(profiles, t))) % Len(batches)>>

Assigned(batches) == UNION {Range(batches[b]) : b \in DOMAIN batches}

\* The next task goes to the batch that is chosen for it.
WithTask(profiles, capacities, batches) ==
    LET left     == DOMAIN profiles \ Assigned(batches)
        t        == Least(left, [s \in left |-> TaskKey(profiles, s)])
        eligible == {b \in DOMAIN batches : Len(batches[b]) < capacities[b]}
        selected == Least(eligible, [b \in eligible |-> Similarity(profiles, batches, t, b)])
    IN  [batches EXCEPT ![selected] = Append(@, t)]

AssignBatches(profiles, capacities) ==
    LET after[n \in 0 .. Cardinality(DOMAIN profiles)] ==
            IF n = 0 THEN [b \in DOMAIN capacities |-> << >>]
            ELSE WithTask(profiles, capacities, after[n - 1])
    IN  after[Cardinality(DOMAIN profiles)]

\* _verified_completed: each task directory has the candidate that the
\* report found valid, and there is one for each of those.
Evidenced(run) ==
    /\ Passed(run.report) /\ run.report.sanity_checked
    /\ DOMAIN run.tasks = {t \in DOMAIN run.report.tasks : run.report.tasks[t].status = "valid"}
    /\ \A t \in DOMAIN run.tasks :
        /\ "output.step" \in DOMAIN run.tasks[t]
        /\ run.tasks[t]["output.step"] = run.report.tasks[t].sha256

Remaining(dataset, completed) == DOMAIN dataset \ DOMAIN completed.tasks

\* create_batch_plan refuses.
PlanRefused(dataset, completed) ==
    \/ ~Evidenced(completed)
    \/ ~(DOMAIN completed.tasks \subseteq DOMAIN dataset)
    \/ Remaining(dataset, completed) = {}

\* The plan, with all that its id is the hash of.
BatchPlan(dataset, completed, target) ==
    LET remaining  == Remaining(dataset, completed)
        all        == Profiles(dataset)
        profiles   == [t \in remaining |-> all[t]]
        capacities == BatchCapacities(Cardinality(remaining), target)
        batches    == AssignBatches(profiles, capacities)
    IN  [fingerprint |-> Fingerprint(dataset),
         completed   |-> [t \in DOMAIN completed.tasks |-> completed.report.tasks[t].sha256],
         profiles    |-> profiles,
         batches     |-> [b \in DOMAIN batches |-> Range(batches[b])]]
=============================================================================

---------------------------- MODULE Production -----------------------------
(***************************************************************************)
(* The way from a verified run to a submission: a batch plan for the tasks *)
(* that are left (batch_plan.py), a cohort for each batch (scheduler.py),  *)
(* the composition of runs into one (compose.py) and its package           *)
(* (package.py).  Planning, composing and packaging are programs of their  *)
(* own with no lock between them: cohorts publish, people replace          *)
(* candidates, datasets and plans change between any two of their steps.   *)
(*                                                                         *)
(* A cohort is seen here as the tasks it publishes while it runs, each     *)
(* once; CohortScheduler is about how.  Composing reads all sources, then  *)
(* copies all candidates; packaging checks all candidates, then writes     *)
(* all: in the code they go task by task, which differs only in the order  *)
(* of what is done to different tasks.                                     *)
(***************************************************************************)
EXTENDS BatchPlan

CONSTANTS
    Published,      \* the dataset
    Datasets,       \* what it may become
    Cohorts,        \* the directories that batches are run in
    Base,           \* the directory of the run that is verified already
    BaseTasks,      \* its tasks
    Composed,       \* the directory a composition is made in
    Completed,      \* the directories that plans are made from
    Sources,        \* the sets of directories that are composed
    Packages,       \* the directories that are packaged
    PackageOptions, \* and how: allow_incomplete, dataset_dir given, sanity_script found
    TargetSize,     \* target_batch_size
    Retried,        \* bound: cohorts that are run again when they ended incomplete
    Tampered,       \* bound: directories somebody changes candidates in
    Contents,       \* candidate files
    Sound,          \* those the official checker accepts
    MaxChanges      \* bound: things changed behind the programs' backs

VARIABLES
    dataset,        \* the dataset
    plan,           \* the plan file: its contents and the id, the hash of what may be edited;
                    \* history: the dataset it was made of
    runs,           \* the run directories
    active,         \* cohorts that are running
    composer,       \* the local state of compose_runs
    packager,       \* the local state of package_run
    archive,        \* the submission
    changes,        \* how much was changed
    raced,          \* history: tasks whose candidate changed after it was read
    steady,         \* history: the dataset has not changed
    planned         \* history: the plans and the batches of them each cohort was run for

vars == <<dataset, plan, runs, active, composer, packager, archive, changes, raced, steady,
          planned>>

Names == {Base, Composed} \cup Cohorts

NoTasks == [t \in {} |-> NoFile]
Idle == [phase |-> "idle"]

Accepted(run) == {t \in Candidates(run) : Candidate(run.tasks[t]) \in Sound}

\* The checker sees every candidate, or times out.
Verdict(run, timeout) == IF timeout THEN {} ELSE Accepted(run)

-----------------------------------------------------------------------------
(***************************************************************************)
(* What is taken for granted.                                              *)
(***************************************************************************)
AllDatasets == {Published} \cup Datasets
Tasks == UNION {DOMAIN d : d \in AllDatasets}

\* A dataset has tasks, of two families; their ids and scores can be compared.
ASSUME DatasetsAssumption ==
    \A d \in AllDatasets :
        /\ DOMAIN d # {} /\ IsFiniteSet(DOMAIN d) /\ DOMAIN d \subseteq Nat
        /\ \A t \in DOMAIN d : d[t].family \in {"editing", "generation"} /\ d[t].score \in Nat

\* __post_init__ of the planner's configuration.
ASSUME TargetAssumption == TargetSize \in Nat /\ TargetSize >= 3

\* Cohorts are not started in the directories of other runs: the scheduler
\* refuses one that holds something else than a cohort.
ASSUME DirectoriesAssumption ==
    /\ Base # Composed /\ Cohorts \cap {Base, Composed} = {}
    /\ Completed \cup Packages \cup Tampered \subseteq Names
    /\ \A sources \in Sources : sources \subseteq Names
    /\ BaseTasks \subseteq Tasks

ASSUME ContentsAssumption == Sound \subseteq Contents /\ Contents \cap Unusable = {}

\* package_run's switches.
ASSUME OptionsAssumption ==
    PackageOptions \subseteq [incomplete : BOOLEAN, given : BOOLEAN, checked : BOOLEAN]

\* What the files may say; much of it is by task.
PerTask(of) == UNION {[tasks -> of] : tasks \in SUBSET Tasks}

TaskDirs == {OneCandidate(content) : content \in Contents} \cup {NoTasks}
ReportedTask == [status : {"missing", "present", "valid", "invalid"},
                 sha256 : Contents \cup {NoFile}]
Report == [scope : {"all", "partial"}, sanity_checked : BOOLEAN, complete : BOOLEAN,
           passed : BOOLEAN, tasks : PerTask(ReportedTask)]
RunManifest == [all : BOOLEAN, fixtures : SUBSET Tasks]
RunDirectory == [params : (SUBSET Tasks) \cup {NoFile}, manifest : RunManifest \cup {NoFile},
                 config : (SUBSET Tasks) \cup {NoFile}, report : Report \cup {NoFile},
                 tasks : PerTask(TaskDirs)]
Profile == [family : {"editing", "generation"}, score : Nat, band : Range(Bands)]
PlanContents == [fingerprint : {Fingerprint(d) : d \in AllDatasets},
                 completed : PerTask(Contents \cup {NoFile}), profiles : PerTask(Profile),
                 batches : Seq(SUBSET Tasks)]
Plan == [contents : PlanContents, id : Seq(SUBSET Tasks), of : AllDatasets]

ASSUME FilesAssumption ==
    /\ NoFile \notin Contents /\ \A tasks \in SUBSET Tasks : NoFile # tasks
    /\ NoFile \notin Report /\ NoFile \notin RunManifest /\ NoFile \notin RunDirectory
    /\ NoFile \notin Plan

-----------------------------------------------------------------------------
Verified(run) == [run EXCEPT !.report = VerifyRun(run, DOMAIN run.tasks, Accepted(run))]

BaseRun(content) ==
    Verified([params |-> BaseTasks, manifest |-> NoFile, config |-> NoFile, report |-> NoFile,
              tasks |-> [t \in BaseTasks |-> OneCandidate(content)]])

Init ==
    /\ dataset = Published
    /\ plan = NoFile
    /\ \E content \in Sound :
           runs = [r \in Names |-> IF r = Base THEN BaseRun(content) ELSE NoFile]
    /\ active = {}
    /\ composer = Idle /\ packager = Idle
    /\ archive = NoFile
    /\ changes = 0 /\ raced = {} /\ steady = TRUE
    /\ planned = [dir \in Cohorts |-> {}]

programs == <<composer, packager, archive>>
history == <<changes, raced, steady, planned>>

-----------------------------------------------------------------------------
(***************************************************************************)
(* Planning and running batches.                                           *)
(***************************************************************************)

\* Faulty variant: the id is not recomputed.
LoadableUnchecked == plan # NoFile

\* _load_plan returns a plan.
Loadable == plan # NoFile /\ plan.id = plan.contents.batches

\* The plan file is what planning for this run would make of it again.
Planned(completed) ==
    /\ Loadable /\ plan.of = dataset
    /\ DOMAIN runs[completed].tasks = DOMAIN plan.contents.completed

CreatePlan(completed) ==
    /\ runs[completed] # NoFile
    /\ ~Planned(completed)
    /\ ~PlanRefused(dataset, runs[completed])
    /\ \E contents \in {BatchPlan(dataset, runs[completed], TargetSize)} :
        plan' = [contents |-> contents, id |-> contents.batches, of |-> dataset]
    /\ UNCHANGED <<dataset, runs, active, programs, history>>

Batches == IF plan = NoFile THEN {} ELSE DOMAIN plan.contents.batches

\* _load_state of the scheduler: a directory belongs to one configuration.
Admits(run, fixtures) == run # NoFile => run.config = fixtures

\* A batch has a directory of its own by default, but any can be named: the
\* same batch can be run in two, and a directory be named for another batch.
RunBatch(b, dir) ==
    /\ Loadable
    /\ Fingerprint(dataset) = plan.contents.fingerprint
    /\ LET fixtures == plan.contents.batches[b] IN
       /\ dir \notin active
       /\ Admits(runs[dir], fixtures)
       /\ runs[dir] # NoFile => dir \in Retried /\ fixtures # DOMAIN runs[dir].tasks
       /\ active' = active \cup {dir}
       /\ runs' = [runs EXCEPT ![dir] =
                     IF @ # NoFile THEN [@ EXCEPT !.config = fixtures]
                     ELSE [params |-> NoFile, manifest |-> NoFile, config |-> fixtures,
                           report |-> NoFile, tasks |-> NoTasks]]
    /\ planned' = [planned EXCEPT ![dir] =
                      @ \cup {[id |-> plan.id, completed |-> DOMAIN plan.contents.completed,
                               batch |-> b]}]
    /\ UNCHANGED <<dataset, plan, programs, changes, raced, steady>>

Publish(dir, t, content) ==
    /\ dir \in active
    /\ t \in runs[dir].config \ DOMAIN runs[dir].tasks
    /\ runs' = [runs EXCEPT ![dir].tasks =
                  [s \in DOMAIN @ \cup {t} |-> IF s = t THEN OneCandidate(content) ELSE @[s]]]
    /\ UNCHANGED <<dataset, plan, active, programs, history>>

\* The cohort writes its metadata and verifies itself.  One that is killed
\* and resumed looks like one that has not ended yet.
CohortEnds(dir) ==
    /\ dir \in active
    /\ active' = active \ {dir}
    /\ LET fixtures == runs[dir].config
           told == [runs[dir] EXCEPT
                      !.params = fixtures,
                      !.manifest = [all |-> fixtures = DOMAIN dataset, fixtures |-> fixtures]]
       IN  runs' = [runs EXCEPT ![dir] =
                      [told EXCEPT !.report = VerifyRun(told, fixtures, Accepted(told))]]
    /\ UNCHANGED <<dataset, plan, programs, history>>

-----------------------------------------------------------------------------
(***************************************************************************)
(* compose_runs.                                                           *)
(***************************************************************************)

Offering(sources, t) == {s \in sources : t \in Candidates(runs[s])}
Digest(s, t) == Candidate(runs[s].tasks[t])
Offered(sources) == UNION {Candidates(runs[s]) : s \in sources}

Conflict(sources) ==
    \E t \in Offered(sources) : \E r, s \in Offering(sources, t) : Digest(r, t) # Digest(s, t)

\* The candidates are chosen by the digests of all sources.
Select(sources) ==
    /\ composer.phase = "idle"
    /\ runs[Composed] = NoFile
    /\ \A s \in sources : runs[s] # NoFile
    /\ Offered(sources) # {} /\ ~Conflict(sources)
    /\ \E chosen \in [Offered(sources) -> sources] :
        /\ \A t \in DOMAIN chosen : chosen[t] \in Offering(sources, t)
        /\ composer' = [phase |-> "copy", from |-> chosen,
                        digest |-> [t \in DOMAIN chosen |-> Digest(chosen[t], t)]]
    /\ UNCHANGED <<dataset, plan, runs, active, packager, archive, history>>

\* The staged run, of what is there to be copied now; the copies are all
\* named output.step.
Staged(given) ==
    LET tasks == DOMAIN composer.from
    IN  [params |-> tasks, config |-> NoFile, report |-> NoFile,
         manifest |-> [all |-> given /\ tasks = DOMAIN dataset, fixtures |-> tasks],
         tasks |-> [t \in tasks |-> OneCandidate(Digest(composer.from[t], t))]]

\* Faulty variant: the staged copy is renamed without being verified.
PublishCompositionUnverified(given, timeout) ==
    /\ composer.phase = "copy"
    /\ \A t \in DOMAIN composer.from : t \in Candidates(runs[composer.from[t]])
    /\ runs' = [runs EXCEPT ![Composed] = Staged(given)]
    /\ composer' = [phase |-> "again"]
    /\ UNCHANGED <<dataset, plan, active, packager, archive, history>>

\* The candidates are copied, the staged copy is verified strictly and renamed
\* into place.  A source that is gone, or a verification that fails, removes it.
PublishComposition(given, timeout) ==
    /\ composer.phase = "copy"
    /\ LET gone   == \E t \in DOMAIN composer.from : t \notin Candidates(runs[composer.from[t]])
           staged == Staged(given)
           report == VerifyRun(staged, staged.params, Verdict(staged, timeout))
       IN  IF ~gone /\ report.passed
           THEN /\ runs' = [runs EXCEPT ![Composed] = [staged EXCEPT !.report = report]]
                /\ composer' = [phase |-> "again"]
           ELSE composer' = Idle /\ UNCHANGED runs
    /\ UNCHANGED <<dataset, plan, active, packager, archive, history>>

\* It is verified again where it is now; what that finds is returned, not judged.
VerifyAgain(timeout) ==
    /\ composer.phase = "again"
    /\ runs' = [runs EXCEPT ![Composed].report =
                  VerifyRun(runs[Composed], runs[Composed].params, Verdict(runs[Composed], timeout))]
    /\ composer' = Idle
    /\ UNCHANGED <<dataset, plan, active, packager, archive, history>>

-----------------------------------------------------------------------------
(***************************************************************************)
(* package_run.                                                            *)
(***************************************************************************)

\* Bound: one archive.
\* The run is verified again, and refused unless it is all there.
VerifyForPackage(r, options) ==
    /\ packager.phase = "idle" /\ runs[r] # NoFile /\ archive = NoFile
    /\ LET incomplete == options.incomplete
           sound    == IF options.checked THEN Accepted(runs[r]) ELSE NoFile
           expected == ExpectedTasks(runs[r], IF options.given THEN DOMAIN dataset ELSE {}, {})
           report   == VerifyRun(runs[r], expected, sound)
       IN  /\ ~VerifyRefuses(expected, sound, ~incomplete)
           /\ runs' = [runs EXCEPT ![r].report = report]
           /\ packager' = IF incomplete \/ (report.passed /\ report.scope = "all")
                          THEN [phase |-> "check", run |-> r, report |-> report,
                                incomplete |-> incomplete]
                          ELSE Idle
    /\ UNCHANGED <<dataset, plan, active, composer, archive, history>>

\* Faulty variant: the candidates are not hashed again.
UnchangedUnhashed(run, report) == TRUE

\* Every candidate that is there has the hash that was verified, if one was.
Unchanged(run, report) ==
    \A t \in DOMAIN report.tasks :
        t \in Candidates(run) /\ report.tasks[t].sha256 # NoFile =>
            Candidate(run.tasks[t]) = report.tasks[t].sha256

Recheck ==
    /\ packager.phase = "check"
    /\ LET run == runs[packager.run] IN
       packager' = IF Unchanged(run, packager.report)
                   THEN [packager EXCEPT !.phase = "write"] ELSE Idle
    /\ UNCHANGED <<dataset, plan, runs, active, composer, archive, history>>

\* The candidates are archived as they are now, and the archive replaces an older one.
WriteArchive ==
    /\ packager.phase = "write"
    /\ LET run == runs[packager.run]  report == packager.report IN
       archive' = [tasks |-> DOMAIN report.tasks, incomplete |-> packager.incomplete,
                   entries |-> [t \in DOMAIN report.tasks \cap Candidates(run) |->
                                  Candidate(run.tasks[t])]]
    /\ packager' = Idle
    /\ UNCHANGED <<dataset, plan, runs, active, composer, history>>

-----------------------------------------------------------------------------
(***************************************************************************)
(* What else happens.                                                      *)
(***************************************************************************)

\* Tasks of r that a program has looked at and will use.
InUse(r) ==
    (IF composer.phase = "copy" THEN {t \in DOMAIN composer.from : composer.from[t] = r} ELSE {})
    \cup (IF packager.phase = "write" /\ packager.run = r THEN DOMAIN packager.report.tasks ELSE {})

\* Somebody replaces a candidate or removes it.
Tamper(r, t, dir) ==
    /\ changes < MaxChanges
    /\ runs[r] # NoFile /\ t \in DOMAIN runs[r].tasks
    /\ runs[r].tasks[t] # dir
    /\ runs' = [runs EXCEPT ![r].tasks[t] = dir]
    /\ changes' = changes + 1
    /\ raced' = raced \cup (InUse(r) \cap {t})
    /\ UNCHANGED <<dataset, plan, active, programs, steady, planned>>

ChangeDataset(new) ==
    /\ changes < MaxChanges /\ new # dataset
    /\ dataset' = new
    /\ changes' = changes + 1
    /\ steady' = FALSE
    /\ UNCHANGED <<plan, runs, active, programs, raced, planned>>

\* Somebody writes all the tasks into one batch of the plan file.
EditPlan(b) ==
    /\ changes < MaxChanges
    /\ plan' = [plan EXCEPT !.contents.batches[b] = DOMAIN plan.contents.profiles]
    /\ changes' = changes + 1
    /\ UNCHANGED <<dataset, runs, active, programs, raced, steady, planned>>

Next ==
    \/ \E r \in Completed : CreatePlan(r)
    \/ \E b \in Batches, dir \in Cohorts : RunBatch(b, dir)
    \/ \E dir \in Cohorts, t \in DOMAIN dataset, content \in Sound : Publish(dir, t, content)
    \/ \E dir \in Cohorts : CohortEnds(dir)
    \/ \E sources \in Sources : Select(sources)
    \/ \E given, timeout \in BOOLEAN : PublishComposition(given, timeout)
    \/ \E timeout \in BOOLEAN : VerifyAgain(timeout)
    \/ \E r \in Packages, options \in PackageOptions : VerifyForPackage(r, options)
    \/ Recheck
    \/ WriteArchive
    \/ \E r \in Tampered, t \in DOMAIN dataset,
          dir \in {OneCandidate(content) : content \in Contents} \cup {NoTasks} : Tamper(r, t, dir)
    \/ \E new \in Datasets : ChangeDataset(new)
    \/ \E b \in Batches : EditPlan(b)

Spec == Init /\ [][Next]_vars

-----------------------------------------------------------------------------
(***************************************************************************)
(* Properties.                                                             *)
(***************************************************************************)

\* An issued plan puts every task that is left in exactly one batch, none
\* above the target size, and no two sizes apart by more than one ("distributes
\* ... across small batches", README.md).
BatchesPartitionTheRest ==
    plan # NoFile /\ plan.id = plan.contents.batches =>
        LET p == plan.contents IN
        /\ UNION {p.batches[b] : b \in DOMAIN p.batches} = DOMAIN p.profiles
        /\ DOMAIN p.profiles = DOMAIN p.fingerprint \ DOMAIN p.completed
        /\ \A b, c \in DOMAIN p.batches :
            /\ b # c => p.batches[b] \cap p.batches[c] = {}
            /\ Cardinality(p.batches[b]) \in 1 .. TargetSize
            /\ Cardinality(p.batches[b]) <= Cardinality(p.batches[c]) + 1

\* Whatever directories batches are run in, by default or by hand, and however
\* plans are made again or edited and datasets changed in between: a cohort
\* pays for nothing its plan counts as completed, and for nothing another
\* batch of its plan pays for, here or in another directory.
BatchesAreKeptApart ==
    \A r, s \in Cohorts : \A x \in planned[r], y \in planned[s] :
        /\ runs[r].config \cap x.completed = {}
        /\ x.id = y.id /\ x.completed = y.completed /\ x.batch # y.batch =>
               runs[r].config \cap runs[s].config = {}

\* What a composition publishes was accepted by the official checker as it
\* was copied, and is what its provenance says unless the source changed
\* between its digest and its copy.
CompositionsAreVerified ==
    [][runs[Composed] = NoFile /\ runs'[Composed] # NoFile =>
         /\ DOMAIN runs'[Composed].tasks \subseteq Accepted(runs'[Composed])
         /\ \A t \in DOMAIN composer.digest \ raced :
                Candidate(runs'[Composed].tasks[t]) = composer.digest[t]]_vars

\* What a production archive holds was accepted by the official checker, and
\* it has a directory for every task of the dataset, unless a candidate changed
\* between its last hash and its being written, or the dataset changed.
ArchivesAreVerified ==
    archive # NoFile /\ ~archive.incomplete =>
        /\ steady => archive.tasks = DOMAIN dataset
        /\ \A t \in DOMAIN archive.entries \ raced : archive.entries[t] \in Sound

\* What a reader of "refuses partial runs by default" (README.md) expects: a
\* production archive has a candidate for every task.  A candidate that is
\* removed between the verification and its own turn in the loop that hashes
\* and writes is passed over, with an empty directory in its place: this does
\* not hold (README, disagreements).
ProductionArchivesAreFull ==
    archive # NoFile /\ ~archive.incomplete => DOMAIN archive.entries = archive.tasks
=============================================================================

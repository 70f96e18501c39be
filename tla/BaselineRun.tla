---------------------------- MODULE BaselineRun ----------------------------
(***************************************************************************)
(* run_official_baseline of runner.py: invocations of the official command *)
(* line that share an output root.  Each starts a child, and finds the     *)
(* run directory the child made by comparing the root's directories before *)
(* and after; no lock keeps invocations apart, and a child lives on when   *)
(* its runner is killed or fails (it has a session of its own).            *)
(*                                                                         *)
(* A run directory is named by the invocation whose child made it.  One    *)
(* action is one effect on the disk, with the local code before it.  The   *)
(* child is external: it makes its directory, writes params.json, then a   *)
(* directory for each fixture, and may exit at any point with any code.    *)
(***************************************************************************)
EXTENDS RunVerification

CONSTANTS
    Invocations,    \* calls of run_official_baseline on one output root
    Dataset,        \* the tasks of the dataset
    Requests,       \* what invocations may ask for: [all, fixtures]
    Outcomes        \* what a child may make of a task: [dir, valid]

ASSUME RequestsAssumption ==
    \A request \in Requests : /\ request.all \in BOOLEAN
                              /\ request.all <=> request.fixtures = {}

\* What the files in a run directory may say.  An invocation ends in one way,
\* which its manifest and its record tell.
Ends == {"interrupted", "failed", "completed", "partial"}
FixtureSets == {request.fixtures : request \in Requests}
Manifest == [by : Invocations, status : Ends, all : BOOLEAN, fixtures : FixtureSets]
Record == [by : Invocations, status : Ends]
TaskDirectories == UNION {[tasks -> {outcome.dir : outcome \in Outcomes}] :
                             tasks \in SUBSET Dataset}
Run == [params : FixtureSets \cup {Dataset, NoFile}, tasks : TaskDirectories,
        invalid : SUBSET Dataset, manifest : Manifest \cup {NoFile},
        record : Record \cup {NoFile}]

ASSUME NoFileAssumption == NoFile \notin Run /\ NoFile # Dataset

VARIABLES
    call,           \* the local state of each invocation
    child,          \* its child: "none", "running", or the exit code
    dirs,           \* the run directory of each child, or NoFile
    newer,          \* modification times: pairs of run directories, the newer one first
    disturbed       \* history: another child's directory appeared while this one looked

runnerVars == <<call, child, dirs, newer, disturbed>>

-----------------------------------------------------------------------------
NotCalled == [phase |-> "idle", request |-> NoFile, before |-> {}, exit |-> NoFile,
              found |-> NoFile, record |-> NoFile]

Emptied == [params |-> NoFile, tasks |-> [t \in {} |-> NoFile], invalid |-> {},
            manifest |-> NoFile, record |-> NoFile]

RunnerInit ==
    /\ call = [i \in Invocations |-> NotCalled]
    /\ child = [i \in Invocations |-> "none"]
    /\ dirs = [i \in Invocations |-> NoFile]
    /\ newer = {}
    /\ disturbed = {}

RunDirectories == {r \in Invocations : dirs[r] # NoFile}

\* The modification time of r changes: an entry was made or replaced in it.
Touched(r) == {pair \in newer : r \notin {pair[1], pair[2]}}
                  \cup {<<r, s>> : s \in RunDirectories \ {r}}

Newest(runs) == CHOOSE r \in runs : \A s \in runs \ {r} : <<r, s>> \in newer

\* An invocation is over: its local variables are gone, its request is the child's.
Over(i, phase, record) ==
    call' = [call EXCEPT ![i] = [NotCalled EXCEPT !.phase = phase, !.request = call[i].request,
                                                  !.record = record]]

\* Faulty variant: directories that were there before count as well.
LocatedAnywhere(i) ==
    LET with_params == {r \in RunDirectories : dirs[r].params # NoFile}
    IN  IF RunDirectories = {} THEN NoFile
        ELSE Newest(IF with_params # {} THEN with_params ELSE RunDirectories)

Located(i) ==
    LET created     == RunDirectories \ call[i].before
        with_params == {r \in created : dirs[r].params # NoFile}
    IN  IF created = {} THEN NoFile
        ELSE Newest(IF with_params # {} THEN with_params ELSE created)

\* Faulty variant: results that say invalid are not looked at.
RunCompleteUnjudged(run) ==
    run.params \notin {NoFile, {}} /\ run.params \subseteq Candidates(run)

\* _completion_summary.
RunComplete(run) ==
    /\ run.params \notin {NoFile, {}}
    /\ run.params \subseteq Candidates(run) \ run.invalid

Status(i) ==
    CASE call[i].exit = "interrupt" -> "interrupted"
      [] call[i].exit = "failure" -> "failed"
      [] OTHER -> IF RunComplete(dirs[call[i].found]) THEN "completed" ELSE "partial"

-----------------------------------------------------------------------------
(***************************************************************************)
(* The runner.                                                             *)
(***************************************************************************)

\* The directories are listed, and the invocation is on record as running.
Invoke(i, request) ==
    /\ call[i].phase = "idle"
    /\ call' = [call EXCEPT ![i] = [@ EXCEPT !.phase = "starting", !.request = request,
                                             !.before = RunDirectories, !.record = "running"]]
    /\ UNCHANGED <<child, dirs, newer, disturbed>>

Launch(i) ==
    /\ call[i].phase = "starting"
    /\ child' = [child EXCEPT ![i] = "running"]
    /\ call' = [call EXCEPT ![i].phase = "waiting"]
    /\ UNCHANGED <<dirs, newer, disturbed>>

\* An OSError is reported as a child that could not start, whether Popen
\* raised it or the log did after the child was started.
StreamFails(i) ==
    /\ call[i].phase \in {"starting", "waiting"}
    /\ Over(i, "done", "failed")
    /\ UNCHANGED <<child, dirs, newer, disturbed>>

\* The keyboard interrupt ends the child before anything else.
Interrupt(i) ==
    /\ call[i].phase = "waiting"
    /\ child' = [child EXCEPT ![i] = IF @ = "running" THEN "failure" ELSE @]
    /\ call' = [call EXCEPT ![i].phase = "locating", ![i].exit = "interrupt"]
    /\ UNCHANGED <<dirs, newer, disturbed>>

ChildReturns(i) ==
    /\ call[i].phase = "waiting" /\ child[i] # "running"
    /\ call' = [call EXCEPT ![i].phase = "locating", ![i].exit = child[i]]
    /\ UNCHANGED <<child, dirs, newer, disturbed>>

Locate(i) ==
    /\ call[i].phase = "locating"
    /\ IF Located(i) # NoFile
       THEN call' = [call EXCEPT ![i].phase = "manifest", ![i].found = Located(i)]
       ELSE Over(i, "done", IF call[i].exit = "interrupt" THEN "interrupted" ELSE "failed")
    /\ UNCHANGED <<child, dirs, newer, disturbed>>

WriteManifest(i) ==
    /\ call[i].phase = "manifest"
    /\ LET r == call[i].found IN
       /\ dirs' = [dirs EXCEPT ![r].manifest =
                     [by |-> i, status |-> Status(i), all |-> call[i].request.all,
                      fixtures |-> call[i].request.fixtures]]
       /\ newer' = Touched(r)
       /\ call' = [call EXCEPT ![i].phase = "record", ![i].record = Status(i)]
    /\ UNCHANGED <<child, disturbed>>

\* The invocation's record moves into the run directory, and the log with it.
MoveRecord(i) ==
    /\ call[i].phase = "record"
    /\ LET r == call[i].found IN
       /\ dirs' = [dirs EXCEPT ![r].record = [by |-> i, status |-> call[i].record]]
       /\ newer' = Touched(r)
       /\ Over(i, "done", NoFile)
    /\ UNCHANGED <<child, disturbed>>

Kill(i) ==
    /\ call[i].phase \notin {"idle", "done", "killed"}
    /\ Over(i, "killed", call[i].record)
    /\ UNCHANGED <<child, dirs, newer, disturbed>>

-----------------------------------------------------------------------------
(***************************************************************************)
(* The child.                                                              *)
(***************************************************************************)

\* The invocations that have listed the directories and will again.
Looking == {j \in Invocations : call[j].phase \in {"starting", "waiting", "locating"}}

MakeDirectory(i) ==
    /\ child[i] = "running" /\ dirs[i] = NoFile
    /\ dirs' = [dirs EXCEPT ![i] = Emptied]
    /\ newer' = Touched(i)
    /\ disturbed' = disturbed \cup (Looking \ {i})
    /\ UNCHANGED <<call, child>>

Change(i, run) ==
    /\ child[i] = "running" /\ dirs[i] # NoFile
    /\ dirs' = [dirs EXCEPT ![i] = run]
    /\ newer' = Touched(i)
    /\ UNCHANGED <<call, child, disturbed>>

WriteParams(i) ==
    /\ dirs[i] # NoFile /\ dirs[i].params = NoFile
    /\ Change(i, [dirs[i] EXCEPT !.params = IF call[i].request.all THEN Dataset
                                            ELSE call[i].request.fixtures])

\* One fixture: what the attempt leaves there, and the result beside it.
WorkOn(i, t, outcome) ==
    /\ dirs[i] # NoFile /\ dirs[i].params # NoFile
    /\ t \in dirs[i].params \ DOMAIN dirs[i].tasks
    /\ Change(i, [dirs[i] EXCEPT !.tasks =
                      [s \in DOMAIN @ \cup {t} |-> IF s = t THEN outcome.dir ELSE @[s]],
                                 !.invalid = IF outcome.valid THEN @ ELSE @ \cup {t}])

ChildExits(i, code) ==
    /\ child[i] = "running"
    /\ child' = [child EXCEPT ![i] = code]
    /\ UNCHANGED <<call, dirs, newer, disturbed>>

RunnerNext ==
    \E i \in Invocations :
        \/ \E request \in Requests : Invoke(i, request)
        \/ Launch(i) \/ StreamFails(i) \/ Interrupt(i) \/ ChildReturns(i)
        \/ Locate(i) \/ WriteManifest(i) \/ MoveRecord(i) \/ Kill(i)
        \/ MakeDirectory(i) \/ WriteParams(i)
        \/ \E t \in Dataset, outcome \in Outcomes : WorkOn(i, t, outcome)
        \/ \E code \in {"success", "failure"} : ChildExits(i, code)

RunnerSpec == RunnerInit /\ [][RunnerNext]_runnerVars

-----------------------------------------------------------------------------
(***************************************************************************)
(* Properties.                                                             *)
(***************************************************************************)

\* A manifest and an invocation record are in the run directory of their own
\* child, unless another child made a directory while the invocation was
\* looking, be it another invocation's or the orphan of a killed runner.
OwnRunUnlessDisturbed ==
    \A r \in RunDirectories : \A file \in {dirs[r].manifest, dirs[r].record} :
        file # NoFile /\ file.by # r => file.by \in disturbed

\* A run that verifies in scope "all", which is what packaging asks for, is a
\* run of the whole dataset with a candidate for every task, whatever died,
\* failed or was interrupted, unless its manifest is by a disturbed invocation.
AllMeansAll ==
    \A r \in RunDirectories, given \in {{}, Dataset} :
        LET expected == ExpectedTasks(dirs[r], given, {})
            report   == VerifyRun(dirs[r], expected, Dataset)
        IN  /\ ~VerifyRefuses(expected, Dataset, TRUE)
            /\ report.passed /\ report.scope = "all"
            /\ dirs[r].manifest.by \notin disturbed
            => expected = Dataset /\ Dataset \subseteq Candidates(dirs[r])

\* A run whose own invocation recorded it as completed is complete, and stays
\* so: its child is gone and no result says invalid.
CompletedRunsAreComplete ==
    \A r \in RunDirectories :
        dirs[r].manifest # NoFile /\ dirs[r].manifest.by = r
            /\ dirs[r].manifest.status = "completed" =>
                /\ child[r] = "success"
                /\ dirs[r].params = DOMAIN dirs[r].tasks \ dirs[r].invalid
                /\ dirs[r].params \subseteq Candidates(dirs[r])
=============================================================================

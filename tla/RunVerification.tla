-------------------------- MODULE RunVerification --------------------------
(***************************************************************************)
(* What the benchmark code reads off a run directory (common.py,           *)
(* dataset.py and sanity.py): the candidate of a task, the tasks a run is  *)
(* held to, and the report of verify_run.                                  *)
(*                                                                         *)
(* A run directory has params and a manifest, each NoFile or what it says, *)
(* and tasks, a function from its task directories to what they hold under *)
(* the two candidate names.  The official checker is external: `sound` is  *)
(* the set of tasks whose candidate it accepts this time (it may time      *)
(* out), or NoFile when there is no checker.                               *)
(***************************************************************************)
EXTENDS Naturals, FiniteSets

CONSTANTS
    Unusable,       \* what is under a candidate name and is no candidate: links, empty files
    NoFile

CandidateNames == {"output.step", "output.stp"}

HasCandidate(dir) ==
    \E name \in CandidateNames : DOMAIN dir = {name} /\ dir[name] \notin Unusable

Candidate(dir) == dir[CHOOSE name \in DOMAIN dir : TRUE]

Candidates(run) == {t \in DOMAIN run.tasks : HasCandidate(run.tasks[t])}

\* A task directory with this candidate and nothing else under the names.
OneCandidate(content) == [name \in {"output.step"} |-> content]

\* The tasks a run is held to, in decreasing priority; {} is a list that is
\* missing, empty, or not asked for.
ExpectedTasks(run, dataset, explicit) ==
    CASE explicit # {} -> explicit
      [] explicit = {} /\ run.params \notin {NoFile, {}} -> run.params
      [] explicit = {} /\ run.params \in {NoFile, {}} ->
           CASE run.manifest # NoFile /\ run.manifest.fixtures # {} -> run.manifest.fixtures
             [] OTHER -> IF dataset # {} THEN dataset ELSE DOMAIN run.tasks

Scope(run) == IF run.manifest # NoFile /\ run.manifest.all THEN "all" ELSE "partial"

TaskStatus(run, t, sound) ==
    CASE t \notin Candidates(run) -> "missing"
      [] t \in Candidates(run) /\ sound = NoFile -> "present"
      [] OTHER -> IF t \in sound THEN "valid" ELSE "invalid"

\* verify_run raises, and writes no report.
VerifyRefuses(expected, sound, require_sanity) ==
    expected = {} \/ (require_sanity /\ sound = NoFile)

\* Faulty variant: a task without a candidate does not count.
VerifyRunLenient(run, expected, sound) ==
    LET held == expected \cap Candidates(run)
    IN  [scope |-> Scope(run), sanity_checked |-> sound # NoFile,
         complete |-> TRUE, passed |-> \A t \in held : TaskStatus(run, t, sound) # "invalid",
         tasks |-> [t \in held |-> [status |-> TaskStatus(run, t, sound),
                                    sha256 |-> IF sound = NoFile THEN NoFile
                                               ELSE Candidate(run.tasks[t])]]]

\* The report of verify_run, with require_sanity met.
VerifyRun(run, expected, sound) ==
    LET status(t) == TaskStatus(run, t, sound)
        complete  == \A t \in expected : status(t) # "missing"
    IN  [scope |-> Scope(run), sanity_checked |-> sound # NoFile,
         complete |-> complete,
         passed |-> complete /\ \A t \in expected : status(t) # "invalid",
         tasks |-> [t \in expected |->
                      [status |-> status(t),
                       sha256 |-> IF status(t) \in {"valid", "invalid"}
                                  THEN Candidate(run.tasks[t]) ELSE NoFile]]]

Passed(report) == report # NoFile /\ report.passed
=============================================================================

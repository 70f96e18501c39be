------------------------------ MODULE Episodes ------------------------------
(***************************************************************************)
(* What is kept of a run: native_agent._finish captures the document of a  *)
(* committed run and hands the run to the episode store (episodes.py),     *)
(* which stages a directory and renames it into place; a run that could    *)
(* not observe or compile is recorded as a failure.  Users of the document *)
(* go on meanwhile.  A caller may hand a returned run to the store again.  *)
(*                                                                         *)
(* The memory adapter captures nothing itself: capturing is that of the    *)
(* FreeCAD adapter, of the document as it is, and may fail, which leaves a *)
(* capture without files.                                                  *)
(***************************************************************************)
EXTENDS NativeAgent

CONSTANT Nothing    \* no capture, and no episode

\* What is kept of a run: its outcome, and the document it left, if it is captured.
Episode == [status : RunStatuses, capture : Contents \cup {Absent, Nothing}]

ASSUME NothingAssumption ==
    Nothing \notin Contents /\ Nothing # Absent /\ Nothing \notin Episode

VARIABLES
    recorder,   \* the local state of recording each run
    episodes,   \* the directories under the name of each run
    staging     \* the runs that have a staging directory

recordVars == <<recorder, episodes, staging>>

-----------------------------------------------------------------------------
NotRecorded == [phase |-> "idle", capture |-> Nothing, error |-> FALSE, tries |-> 0]

RecordedInit ==
    /\ AgentInit
    /\ recorder = [a \in Agents |-> NotRecorded]
    /\ episodes = [a \in Agents |-> Nothing]
    /\ staging = {}

Turn(a, fields) ==
    recorder' = [recorder EXCEPT ![a] = [f \in DOMAIN @ |->
                                            IF f \in DOMAIN fields THEN fields[f] ELSE @[f]]]

\* EpisodeStoreError: the run is returned with episode_error.  (A failed run
\* raises what failed it instead, which no property distinguishes.)
Refuse(a) == Turn(a, [phase |-> "returned", error |-> TRUE])

\* Is there an episode of this name?  If not, its directories are to be made.
Admit(a, fields) ==
    Turn(a, [f \in DOMAIN fields \cup {"phase", "error", "tries"} |->
               CASE f = "phase" -> IF episodes[a] = Nothing THEN "stage" ELSE "returned"
                 [] f = "error" -> episodes[a] # Nothing
                 [] f = "tries" -> recorder[a].tries + 1
                 [] OTHER -> fields[f]])

\* What the FreeCAD adapter exports shows the document as it is by now.  Each
\* export may fail; when all do, or the document is gone, there are no files.
CaptureArtifacts(d) == {documents[d].features, Absent}

\* The engine's: an adapter that cannot, or that raises, leaves no files.
EngineCaptures(d) == CaptureArtifacts(d) \cup {Absent}

\* _finish, or _record_failure: only a committed run's document is captured.
Capture(a, files) ==
    /\ recorder[a].phase = "idle" /\ run[a].phase = "done"
    /\ files \in (IF run[a].status # "committed" THEN {Nothing}
                  ELSE EngineCaptures(run[a].document_id))
    /\ Admit(a, [capture |-> files])
    /\ UNCHANGED <<agentVars, episodes, staging>>

\* Faulty variant: the episode is written in its place.
StageInPlace(a) ==
    /\ recorder[a].phase = "stage"
    /\ Turn(a, [phase |-> "write"])
    /\ episodes' = [episodes EXCEPT ![a] = [status |-> "none", capture |-> Nothing]]
    /\ UNCHANGED <<agentVars, staging>>

Stage(a) ==
    /\ recorder[a].phase = "stage"
    /\ Turn(a, [phase |-> "write"])
    /\ staging' = staging \cup {a}
    /\ UNCHANGED <<agentVars, episodes>>

\* The directories are made outside the try block: an OSError escapes, and the
\* caller never gets the run.
StageFails(a) ==
    /\ recorder[a].phase = "stage"
    /\ Turn(a, [phase |-> "raised"])
    /\ UNCHANGED <<agentVars, episodes, staging>>

\* The captured files are there until _finish returns: not for a caller's try.
Writable(a) == recorder[a].capture \in {Nothing, Absent} \/ recorder[a].tries = 1

\* Everything is written and hashed, then renamed into place.
Write(a) ==
    /\ recorder[a].phase = "write" /\ Writable(a)
    /\ Turn(a, [phase |-> "move"])
    /\ UNCHANGED <<agentVars, episodes, staging>>

Move(a) ==
    /\ recorder[a].phase = "move"
    /\ episodes' = [episodes EXCEPT ![a] =
                      [status |-> run[a].status, capture |-> recorder[a].capture]]
    /\ staging' = staging \ {a}
    /\ Turn(a, [phase |-> "returned", error |-> FALSE])
    /\ UNCHANGED agentVars

\* Writing or renaming fails: what was staged is removed.
RecordFails(a) ==
    /\ recorder[a].phase \in {"write", "move"}
    /\ staging' = staging \ {a}
    /\ Refuse(a)
    /\ UNCHANGED <<agentVars, episodes>>

RecordStep(a) ==
    \/ \E files \in Contents \cup {Nothing, Absent} : Capture(a, files)
    \/ Stage(a)
    \/ StageFails(a)
    \/ Write(a)
    \/ Move(a)
    \/ RecordFails(a)

\* A caller hands the run to the store (bound: once).
RecordAgain(a) ==
    /\ recorder[a].phase = "returned" /\ recorder[a].tries = 1
    /\ Admit(a, << >>)
    /\ UNCHANGED <<agentVars, episodes, staging>>

\* The process is killed while it records.
Kill(a) ==
    /\ recorder[a].phase \in {"stage", "write", "move"}
    /\ Turn(a, [phase |-> "killed"])
    /\ UNCHANGED <<agentVars, episodes, staging>>

RecordedNext ==
    \/ \E a \in Agents : AgentStep(a) /\ UNCHANGED recordVars
    \/ \E u \in Users : UserStep(u) /\ UNCHANGED recordVars
    \/ \E a \in Agents : RecordStep(a)
    \/ \E a \in Agents : RecordAgain(a)
    \/ \E a \in Agents : Kill(a)

recordedVars == <<agentVars, recordVars>>

\* A run and its recording are sequential code: they take their next step.
RecordedSpec ==
    /\ RecordedInit /\ [][RecordedNext]_recordedVars
    /\ \A a \in Agents : WF_recordedVars(AgentStep(a) /\ UNCHANGED recordVars)
    /\ \A a \in Agents : WF_recordedVars(RecordStep(a))

-----------------------------------------------------------------------------
\* Whatever is under an episode's name is the whole episode of that run's
\* outcome, captures only committed documents, and is what the returned run
\* says of it; a staging directory is left by a kill and by nothing else; and
\* a run that was decided is returned unless the directories could not be made
\* ("staged and atomically moved", "cannot change the verifier's CAD
\* decision", docs/DATASET_GUIDE.md).
EpisodesTellTheOutcome ==
    \A a \in Agents :
        /\ episodes[a] # Nothing =>
              /\ episodes[a].status = run[a].status
              /\ episodes[a].capture # Nothing <=> run[a].status = "committed"
              /\ episodes[a].capture = recorder[a].capture
        /\ recorder[a].phase = "returned" /\ ~recorder[a].error => episodes[a] # Nothing
        /\ a \in staging => recorder[a].phase \in {"write", "move", "killed"}

\* Every run ends, recorded or not: the repair loop is bounded, and no other
\* run or user can keep it going or block it.
EveryRunEnds == \A a \in Agents : <>(recorder[a].phase \in {"returned", "raised", "killed"})
=============================================================================

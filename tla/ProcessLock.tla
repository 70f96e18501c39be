---------------------------- MODULE ProcessLock ----------------------------
(***************************************************************************)
(* exclusive_process_lock of                                               *)
(* src/src/cadrig/benchmarks/cadgenbench/common.py: processes of one host  *)
(* that exclude each other with a lock file, created with O_CREAT|O_EXCL   *)
(* and holding its owner's pid; a file whose owner is dead is reclaimed.   *)
(*                                                                         *)
(* One action is one system call: the open, the read of the owner's pid,   *)
(* the signal-0 probe, the unlink, the second open, the write of the own   *)
(* pid.  Any other process may act between two of them.                    *)
(*                                                                         *)
(* A process is identified with its pid.  It may try again after it        *)
(* released the lock or was refused, and it ends for good at any point of  *)
(* EndPoints: at "idle" it exits normally, elsewhere it crashes.  The      *)
(* operating system may then give its pid to an unrelated process.         *)
(***************************************************************************)
EXTENDS FiniteSets

CONSTANTS
    Processes,      \* pids of the processes that use the lock
    EndPoints       \* where a process may end

Phases == {"idle", "open", "read", "probe", "unlink", "reopen", "write", "in", "ended"}

ASSUME EndPointsAssumption == EndPoints \subseteq Phases

NoFile == "no file"
Nobody == "nobody"

ASSUME ProcessesAssumption == NoFile \notin Processes /\ Nobody \notin Processes

VARIABLES
    pc,         \* where each process is in exclusive_process_lock
    owner,      \* the process that created the lock file, or NoFile
    written,    \* the file holds its owner's pid, not nothing yet
    seen,       \* the pid each process read from the file it found
    recycled,   \* pids of ended processes now held by unrelated ones
    usurped     \* history: a reclaim removed the file of a living process

lockVars == <<pc, owner, written, seen, recycled, usurped>>

Init ==
    /\ pc = [p \in Processes |-> "idle"]
    /\ owner = NoFile
    /\ written = FALSE
    /\ seen = [p \in Processes |-> Nobody]
    /\ recycled = {}
    /\ usurped = FALSE

-----------------------------------------------------------------------------
\* _pid_is_alive: any process with that pid counts.
PidIsAlive(p) == pc[p] # "ended" \/ p \in recycled

GoTo(p, phase) == pc' = [pc EXCEPT ![p] = phase]

Enter(p) ==
    /\ pc[p] = "idle"
    /\ GoTo(p, "open")
    /\ UNCHANGED <<owner, written, seen, recycled, usurped>>

\* Faulty variant: opens without O_EXCL, over a file that is there.
CreateOverAnother(p) ==
    /\ owner' = p
    /\ written' = FALSE
    /\ GoTo(p, "write")
    /\ UNCHANGED <<seen, recycled, usurped>>

\* os.open with O_EXCL succeeded: the file exists and is empty.
Create(p) ==
    /\ owner = NoFile
    /\ owner' = p
    /\ written' = FALSE
    /\ GoTo(p, "write")
    /\ UNCHANGED <<seen, recycled, usurped>>

Open(p) ==
    /\ pc[p] = "open"
    /\ \/ Create(p)
       \/ /\ owner # NoFile
          /\ GoTo(p, "read")
          /\ UNCHANGED <<owner, written, seen, recycled, usurped>>

\* No pid in the file, or no file any more: refused.
Read(p) ==
    /\ pc[p] = "read"
    /\ IF owner # NoFile /\ written
       THEN seen' = [seen EXCEPT ![p] = owner] /\ GoTo(p, "probe")
       ELSE GoTo(p, "idle") /\ UNCHANGED seen
    /\ UNCHANGED <<owner, written, recycled, usurped>>

\* Faulty variant: refuses the file of a dead owner as well.
ProbeRefusing(p) ==
    /\ pc[p] = "probe"
    /\ GoTo(p, "idle")
    /\ seen' = [seen EXCEPT ![p] = Nobody]
    /\ UNCHANGED <<owner, written, recycled, usurped>>

\* The process with that pid is alive: refused.
Probe(p) ==
    /\ pc[p] = "probe"
    /\ GoTo(p, IF PidIsAlive(seen[p]) THEN "idle" ELSE "unlink")
    /\ seen' = [seen EXCEPT ![p] = IF PidIsAlive(@) THEN Nobody ELSE @]
    /\ UNCHANGED <<owner, written, recycled, usurped>>

\* Whatever file is there now is removed; none there is an error.
Unlink(p) ==
    /\ pc[p] = "unlink"
    /\ GoTo(p, IF owner = NoFile THEN "idle" ELSE "reopen")
    /\ usurped' = (usurped \/ (owner # NoFile /\ pc[owner] # "ended"))
    /\ owner' = NoFile
    /\ written' = FALSE
    /\ seen' = [seen EXCEPT ![p] = Nobody]
    /\ UNCHANGED recycled

\* Somebody else was faster: refused.
Reopen(p) ==
    /\ pc[p] = "reopen"
    /\ \/ Create(p)
       \/ /\ owner # NoFile
          /\ GoTo(p, "idle")
          /\ UNCHANGED <<owner, written, seen, recycled, usurped>>

\* The pid goes to the file the process created, at the path or removed.
WritePid(p) ==
    /\ pc[p] = "write"
    /\ written' = (written \/ owner = p)
    /\ GoTo(p, "in")
    /\ UNCHANGED <<owner, seen, recycled, usurped>>

\* Faulty variant: an error of the write leaves the file there.
ReleaseOnlyFromInside(p) ==
    /\ pc[p] \in {"write", "in"}
    /\ owner' = IF pc[p] = "in" THEN NoFile ELSE owner
    /\ written' = (written /\ pc[p] # "in")
    /\ GoTo(p, "idle")
    /\ UNCHANGED <<seen, recycled, usurped>>

\* The finally clause, on return, on an error of the body or of the write:
\* unlink(missing_ok=True) of whatever is at the path.
Release(p) ==
    /\ pc[p] \in {"write", "in"}
    /\ owner' = NoFile
    /\ written' = FALSE
    /\ GoTo(p, "idle")
    /\ UNCHANGED <<seen, recycled, usurped>>

\* The process exits or is killed: no finally clause runs.
End(p) ==
    /\ pc[p] \in EndPoints \ {"ended"}
    /\ GoTo(p, "ended")
    /\ seen' = [seen EXCEPT ![p] = Nobody]
    /\ UNCHANGED <<owner, written, recycled, usurped>>

\* An unrelated process gets the pid, and ends.
Recycle(p) ==
    /\ pc[p] = "ended"
    /\ recycled' = IF p \in recycled THEN recycled \ {p} ELSE recycled \cup {p}
    /\ UNCHANGED <<pc, owner, written, seen, usurped>>

\* The statements of exclusive_process_lock, from the first open on.
Step(p) ==
    Open(p) \/ Read(p) \/ Probe(p) \/ Unlink(p) \/ Reopen(p) \/ WritePid(p)

Next == \E p \in Processes : Enter(p) \/ Step(p) \/ Release(p) \/ End(p) \/ Recycle(p)

\* A process inside the function goes on until it is in, refused or ended.
Spec == Init /\ [][Next]_lockVars /\ \A p \in Processes : WF_lockVars(Step(p))
-----------------------------------------------------------------------------
(***************************************************************************)
(* Properties.                                                             *)
(***************************************************************************)
Holders == {p \in Processes : pc[p] = "in"}

\* Every variable stays in its type; a file at the path has an owner that
\* could still write to it.
TypeOK ==
    /\ pc \in [Processes -> Phases]
    /\ owner \in Processes \cup {NoFile}
    /\ written \in BOOLEAN
    /\ seen \in [Processes -> Processes \cup {Nobody}]
    /\ recycled \subseteq Processes
    /\ usurped \in BOOLEAN

\* Who holds the lock, or is about to, owns the file: creating the file
\* exclusively is what excludes.
HoldersOwnTheFile == \A p \in Processes : pc[p] \in {"write", "in"} => owner = p

\* At most one process is inside, whatever dies where, as long as no reclaim
\* ever removed a file whose owner was alive: that one race, between the probe
\* of a pid and the unlink of whatever file is there then, is the only way
\* exclusion is lost (scheduler.py, run_cohort: "exclusive cross-process lock").
ExclusiveUnlessUsurped ==
    ~usurped => HoldersOwnTheFile /\ \A p, q \in Holders : p = q

\* A file that stays behind was left by a death: no return, refusal, error or
\* lost race leaks it, usurped or not.
NoLeakedFile ==
    owner # NoFile => pc[owner] \in {"write", "in", "ended"}

\* The file of a dead owner whose pid was written and is nobody's.
Stale(q) == owner = q /\ written /\ pc[q] = "ended" /\ q \notin recycled

\* "Crash-recoverable" (docstring of exclusive_process_lock): an attempt that
\* finds a stale file removes it, unless the process making it dies, somebody
\* else removes it first, or the dead owner's pid comes back.
StaleFileIsReclaimed ==
    \A p, q \in Processes :
        pc[p] = "open" /\ Stale(q) ~> pc[p] = "ended" \/ ~Stale(q)

\* What "exclusive process lock" and "exclusive cross-process lock" say, with no
\* reservation: at most one process is inside.
MutualExclusion == \A p, q \in Holders : p = q
=============================================================================

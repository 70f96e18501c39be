----------------------------- MODULE RunProofs -----------------------------
(***************************************************************************)
(* Proofs about BaselineRun and Production, the two ways to runs and what  *)
(* becomes of them.                                                        *)
(*                                                                         *)
(* About BaselineRun, for any invocations, dataset, requests and results   *)
(* of the child: the invariant says where an invocation may have found     *)
(* what it writes to, and what the files in a run directory say of the     *)
(* invocation they are by.                                                 *)
(*                                                                         *)
(* About Production, for any datasets, tasks, batches, candidates and      *)
(* target size: what the planner makes is a partition, and it stays the    *)
(* one that cohorts, compositions and archives rest on.                    *)
(***************************************************************************)
EXTENDS BaselineRun, Production, SumTheorems, FiniteSetTheorems, SequenceTheorems, TLAPS

Phases == {"idle", "starting", "waiting", "locating", "manifest", "record", "done", "killed"}

Call == [phase : Phases, request : Requests \cup {NoFile}, before : SUBSET Invocations,
         exit : {NoFile, "interrupt", "success", "failure"},
         found : Invocations \cup {NoFile}, record : Ends \cup {NoFile, "running"}]

Typed ==
    /\ call \in [Invocations -> Call]
    /\ child \in [Invocations -> {"none", "running", "success", "failure"}]
    /\ dirs \in [Invocations -> Run \cup {NoFile}]
    /\ disturbed \subseteq Invocations

\* Of any run directories one is the newest.
OneIsNewest ==
    \A some \in SUBSET RunDirectories :
        some # {} => \E r \in some : \A s \in some \ {r} : <<r, s>> \in newer

\* Run directory r is invocation i's child's, or i was disturbed.
OwnOrDisturbed(i, r) == r = i \/ i \in disturbed

\* The local state of invocation i, and its child.
Invocation(i) ==
    /\ call[i].phase # "idle" => call[i].request \in Requests
    /\ call[i].phase \in {"idle", "starting"} => child[i] = "none"
    /\ call[i].phase = "waiting" => child[i] # "none"
    /\ call[i].phase \in {"starting", "waiting", "locating"} =>
           \A r \in RunDirectories \ call[i].before : OwnOrDisturbed(i, r)
    /\ call[i].phase \in {"locating", "manifest"}
           /\ call[i].exit \notin {"interrupt", "failure"} => child[i] = "success"
    /\ call[i].phase \in {"manifest", "record"} =>
           /\ call[i].found \in Invocations /\ dirs[call[i].found] \in Run
           /\ OwnOrDisturbed(i, call[i].found)
    /\ call[i].phase = "record" => call[i].record \in Ends

\* What invocation i asked its child for.
Wanted(i) == IF call[i].request.all THEN Dataset ELSE call[i].request.fixtures

\* The files in a run directory.
Directory(r) ==
    /\ child[r] # "none"
    /\ \/ dirs[r].params = NoFile /\ DOMAIN dirs[r].tasks = {}
       \/ dirs[r].params = Wanted(r) /\ DOMAIN dirs[r].tasks \subseteq Wanted(r)
    /\ dirs[r].manifest # NoFile =>
           LET by == dirs[r].manifest.by IN
           /\ OwnOrDisturbed(by, r) /\ call[by].phase # "idle"
           /\ dirs[r].manifest.all = call[by].request.all
           /\ dirs[r].manifest.fixtures = call[by].request.fixtures
           /\ by = r /\ dirs[r].manifest.status = "completed" =>
                  child[r] = "success" /\ RunComplete(dirs[r])
    /\ dirs[r].record # NoFile => OwnOrDisturbed(dirs[r].record.by, r)

BaselineInv ==
    /\ Typed /\ OneIsNewest
    /\ \A i \in Invocations : Invocation(i)
    /\ \A r \in RunDirectories : Directory(r)
-----------------------------------------------------------------------------
(***************************************************************************)
(* The newest directory.                                                   *)
(***************************************************************************)

\* max over the created directories, by modification time, is one of them.
LEMMA NewestIsThere ==
    ASSUME OneIsNewest, NEW some, some \subseteq RunDirectories, some # {}
    PROVE  Newest(some) \in some
  <1>1. \E r \in some : \A s \in some \ {r} : <<r, s>> \in newer
    BY DEF OneIsNewest
  <1>2. QED
    BY <1>1 DEF Newest

\* _locate_created_run returns a directory that was not there before.
LEMMA LocatedIsNew ==
    ASSUME OneIsNewest, NEW i \in Invocations, Located(i) # NoFile
    PROVE  Located(i) \in RunDirectories \ call[i].before
  <1> DEFINE created == RunDirectories \ call[i].before
             with_params == {r \in created : dirs[r].params # NoFile}
  <1>1. created # {}
    BY DEF Located
  <1>2. Located(i) = Newest(IF with_params # {} THEN with_params ELSE created)
    BY <1>1 DEF Located
  <1>3. created \subseteq RunDirectories /\ with_params \subseteq created
    OBVIOUS
  <1> HIDE DEF created, with_params
  <1>4. CASE with_params # {}
    BY <1>2, <1>3, <1>4, NewestIsThere DEF created
  <1>5. CASE with_params = {}
    BY <1>1, <1>2, <1>3, <1>5, NewestIsThere DEF created
  <1>6. QED
    BY <1>4, <1>5

\* Making an entry in a directory makes it the newest.
LEMMA TouchedIsNewest ==
    ASSUME OneIsNewest, NEW r \in Invocations, newer' = Touched(r),
           RunDirectories' \subseteq RunDirectories \cup {r}
    PROVE  OneIsNewest'
  <1> SUFFICES ASSUME NEW some \in SUBSET RunDirectories', some # {}
               PROVE  \E n \in some : \A s \in some \ {n} : <<n, s>> \in newer'
    BY DEF OneIsNewest
  <1>1. CASE r \in some
    <2>1. \A s \in some \ {r} : <<r, s>> \in newer'
      BY DEF Touched
    <2>2. QED
      BY <1>1, <2>1
  <1>2. CASE r \notin some
    <2>1. some \in SUBSET RunDirectories
      BY <1>2
    <2>2. PICK n \in some : \A s \in some \ {n} : <<n, s>> \in newer
      BY <2>1 DEF OneIsNewest
    <2>3. ASSUME NEW s \in some \ {n}
          PROVE  <<n, s>> \in newer'
      BY <1>2, <2>2, <2>3 DEF Touched
    <2>4. QED
      BY <2>3
  <1>3. QED
    BY <1>1, <1>2
-----------------------------------------------------------------------------
(***************************************************************************)
(* Steps that write nothing to a run directory.                            *)
(***************************************************************************)

\* What an invocation, its child and its directory are made of.
LEMMA Facts ==
    ASSUME BaselineInv, NEW i \in Invocations
    PROVE  /\ call \in [Invocations -> Call] /\ call[i] \in Call
           /\ call[i].phase \in Phases /\ call[i].request \in Requests \cup {NoFile}
           /\ call[i].before \subseteq Invocations
           /\ call[i].exit \in {NoFile, "interrupt", "success", "failure"}
           /\ call[i].found \in Invocations \cup {NoFile}
           /\ call[i].record \in Ends \cup {NoFile, "running"}
           /\ child \in [Invocations -> {"none", "running", "success", "failure"}]
           /\ dirs \in [Invocations -> Run \cup {NoFile}]
           /\ RunDirectories \subseteq Invocations /\ disturbed \subseteq Invocations
           /\ Invocation(i) /\ (i \in RunDirectories => Directory(i) /\ dirs[i] \in Run)
  <1>1. call \in [Invocations -> Call] /\ call[i] \in Call
    BY DEF BaselineInv, Typed
  <1>2. QED
    BY <1>1 DEF BaselineInv, Typed, Call, RunDirectories

\* An invocation asks once, for one thing.
RequestsKept ==
    \A j \in Invocations : call[j].phase # "idle" =>
        call'[j].phase # "idle" /\ call'[j].request = call[j].request

\* A child that was started stays started, and its success is final.
ChildrenKept ==
    \A j \in Invocations : /\ child[j] # "none" => child'[j] # "none"
                           /\ child[j] = "success" => child'[j] = "success"

\* A directory nobody wrote to says what it said.
LEMMA DirectoryKept ==
    ASSUME BaselineInv, NEW r \in RunDirectories, dirs'[r] = dirs[r],
           RequestsKept, ChildrenKept, disturbed \subseteq disturbed'
    PROVE  Directory(r)'
  <1>1. Directory(r) /\ r \in Invocations /\ dirs[r] \in Run
    BY Facts DEF RunDirectories
  <1>2. dirs[r].manifest # NoFile => dirs[r].manifest.by \in Invocations
    BY <1>1 DEF Run, Manifest
  <1>3. call[r].phase # "idle"
    BY <1>1, Facts DEF Directory, Invocation
  <1>4. Wanted(r)' = Wanted(r)
    BY <1>1, <1>3 DEF RequestsKept, Wanted
  <1>5. /\ child'[r] # "none"
        /\ dirs[r].record # NoFile => OwnOrDisturbed(dirs[r].record.by, r)'
    BY <1>1 DEF Directory, ChildrenKept, OwnOrDisturbed
  <1>6. ASSUME dirs[r].manifest # NoFile
        PROVE  LET by == dirs[r].manifest.by IN
               /\ OwnOrDisturbed(by, r)' /\ call'[by].phase # "idle"
               /\ dirs[r].manifest.all = call'[by].request.all
               /\ dirs[r].manifest.fixtures = call'[by].request.fixtures
               /\ by = r /\ dirs[r].manifest.status = "completed" =>
                      child'[r] = "success" /\ RunComplete(dirs[r])
    BY <1>1, <1>2, <1>6 DEF Directory, RequestsKept, ChildrenKept, OwnOrDisturbed
  <1>7. QED
    BY <1>1, <1>4, <1>5, <1>6 DEF Directory, RunComplete, Candidates

\* A step of one invocation or its child that writes nothing to a directory.
LEMMA LocalStep ==
    ASSUME BaselineInv, NEW i \in Invocations, UNCHANGED <<dirs, newer, disturbed>>,
           \A j \in Invocations : j # i => call'[j] = call[j] /\ child'[j] = child[j],
           call' \in [Invocations -> Call],
           child' \in [Invocations -> {"none", "running", "success", "failure"}],
           RequestsKept, ChildrenKept, Invocation(i)'
    PROVE  BaselineInv'
  <1>1. Typed' /\ OneIsNewest' /\ RunDirectories' = RunDirectories
    BY DEF BaselineInv, Typed, OneIsNewest, RunDirectories
  <1>2. \A j \in Invocations : j # i => Invocation(j)'
    BY <1>1 DEF BaselineInv, Invocation, OwnOrDisturbed
  <1>3. \A r \in RunDirectories' : Directory(r)'
    BY <1>1, DirectoryKept
  <1>4. QED
    BY <1>1, <1>2, <1>3 DEF BaselineInv

\* The directories are listed: none is new yet.
LEMMA InvokeStep ==
    ASSUME BaselineInv, NEW i \in Invocations, NEW request \in Requests, Invoke(i, request)
    PROVE  BaselineInv'
  <1> DEFINE next == [call[i] EXCEPT !.phase = "starting", !.request = request,
                                     !.before = RunDirectories, !.record = "running"]
  <1>1. /\ call[i].phase = "idle" /\ call' = [call EXCEPT ![i] = next]
        /\ UNCHANGED <<child, dirs, newer, disturbed>>
    BY DEF Invoke
  <1>2. /\ next \in Call /\ next.phase = "starting" /\ next.request = request
        /\ next.before = RunDirectories /\ child[i] = "none"
    BY <1>1, Facts DEF Call, Phases, Invocation
  <1> HIDE DEF next
  <1>3. /\ call' \in [Invocations -> Call] /\ call'[i] = next
        /\ \A j \in Invocations : j # i => call'[j] = call[j]
    BY <1>1, <1>2, Facts
  <1>4. RunDirectories' = RunDirectories
    BY <1>1 DEF RunDirectories
  <1>5. Invocation(i)'
    BY <1>1, <1>2, <1>3, <1>4 DEF Invocation
  <1>6. RequestsKept /\ ChildrenKept
    BY <1>1, <1>3 DEF RequestsKept, ChildrenKept
  <1>7. QED
    BY <1>1, <1>3, <1>5, <1>6, LocalStep, Facts

\* The child is started.
LEMMA LaunchStep ==
    ASSUME BaselineInv, NEW i \in Invocations, Launch(i)
    PROVE  BaselineInv'
  <1> DEFINE next == [call[i] EXCEPT !.phase = "waiting"]
  <1>1. /\ call[i].phase = "starting" /\ call' = [call EXCEPT ![i] = next]
        /\ child' = [child EXCEPT ![i] = "running"] /\ UNCHANGED <<dirs, newer, disturbed>>
    BY DEF Launch
  <1>2. /\ next \in Call /\ next.phase = "waiting" /\ next.request = call[i].request
        /\ next.before = call[i].before /\ child[i] = "none"
    BY <1>1, Facts DEF Call, Phases, Invocation
  <1> HIDE DEF next
  <1>3. /\ call' \in [Invocations -> Call] /\ call'[i] = next
        /\ child' \in [Invocations -> {"none", "running", "success", "failure"}]
        /\ child'[i] = "running"
        /\ \A j \in Invocations : j # i => call'[j] = call[j] /\ child'[j] = child[j]
    BY <1>1, <1>2, Facts
  <1>4. RunDirectories' = RunDirectories
    BY <1>1 DEF RunDirectories
  <1>5. Invocation(i)'
    BY <1>1, <1>2, <1>3, <1>4, Facts DEF Invocation, OwnOrDisturbed
  <1>6. RequestsKept /\ ChildrenKept
    BY <1>1, <1>2, <1>3 DEF RequestsKept, ChildrenKept
  <1>7. QED
    BY <1>1, <1>3, <1>5, <1>6, LocalStep

\* An invocation that is over claims nothing more.
LEMMA OverStep ==
    ASSUME BaselineInv, NEW i \in Invocations, NEW phase \in {"done", "killed"},
           NEW record \in Ends \cup {NoFile, "running"}, Over(i, phase, record),
           call[i].phase # "idle", UNCHANGED <<child, dirs, newer, disturbed>>
    PROVE  BaselineInv'
  <1> DEFINE next == [NotCalled EXCEPT !.phase = phase, !.request = call[i].request,
                                  !.record = record]
  <1>1. call' = [call EXCEPT ![i] = next]
    BY DEF Over
  <1>2. next \in Call /\ next.phase = phase /\ next.request = call[i].request
    BY Facts DEF NotCalled, Call, Phases
  <1> HIDE DEF next
  <1>3. /\ call' \in [Invocations -> Call] /\ call'[i] = next
        /\ \A j \in Invocations : j # i => call'[j] = call[j]
    BY <1>1, <1>2, Facts
  <1>4. Invocation(i)'
    BY <1>2, <1>3, Facts DEF Invocation
  <1>5. RequestsKept /\ ChildrenKept
    BY <1>2, <1>3 DEF RequestsKept, ChildrenKept
  <1>6. QED
    BY <1>3, <1>4, <1>5, LocalStep, Facts

\* The wait ends, by an interrupt or with the child.
LEMMA WaitEndsStep ==
    ASSUME BaselineInv, NEW i \in Invocations, Interrupt(i) \/ ChildReturns(i)
    PROVE  BaselineInv'
  <1>1. PICK exit \in {"interrupt", "success", "failure"} :
           /\ call[i].phase = "waiting"
           /\ call' = [call EXCEPT ![i] = [@ EXCEPT !.phase = "locating", !.exit = exit]]
           /\ UNCHANGED <<dirs, newer, disturbed>>
           /\ exit = "success" => child' = child /\ child[i] = "success"
           /\ child' = child \/ child' = [child EXCEPT ![i] = IF @ = "running" THEN "failure"
                                                             ELSE @]
    <2>1. CASE Interrupt(i)
      BY <2>1 DEF Interrupt
    <2>2. CASE ChildReturns(i)
      <3>1. child[i] \in {"success", "failure"}
        BY <2>2, Facts DEF ChildReturns, Invocation
      <3>2. QED
        BY <2>2, <3>1 DEF ChildReturns
    <2>3. QED
      BY <2>1, <2>2
  <1> DEFINE next == [call[i] EXCEPT !.phase = "locating", !.exit = exit]
  <1>2. /\ next \in Call /\ next.phase = "locating" /\ next.request = call[i].request
        /\ next.before = call[i].before /\ next.exit = exit
    BY <1>1, Facts DEF Call, Phases
  <1> HIDE DEF next
  <1>3. /\ call' \in [Invocations -> Call] /\ call'[i] = next
        /\ \A j \in Invocations : j # i => call'[j] = call[j]
    BY <1>1, <1>2, Facts DEF next
  <1>4. /\ child' \in [Invocations -> {"none", "running", "success", "failure"}]
        /\ \A j \in Invocations : j # i => child'[j] = child[j]
        /\ child'[i] = child[i] \/ (child[i] = "running" /\ child'[i] = "failure")
    BY <1>1, Facts
  <1>5. RunDirectories' = RunDirectories
    BY <1>1 DEF RunDirectories
  <1>6. Invocation(i)'
    BY <1>1, <1>2, <1>3, <1>4, <1>5, Facts DEF Invocation, OwnOrDisturbed
  <1>7. RequestsKept /\ ChildrenKept
    BY <1>1, <1>2, <1>3, <1>4 DEF RequestsKept, ChildrenKept
  <1>8. QED
    BY <1>1, <1>3, <1>4, <1>6, <1>7, LocalStep

\* What is located was not there before: it is the own child's, or another
\* child made it while this invocation was looking.
LEMMA LocateStep ==
    ASSUME BaselineInv, NEW i \in Invocations, Locate(i)
    PROVE  BaselineInv'
  <1>1. call[i].phase = "locating" /\ UNCHANGED <<child, dirs, newer, disturbed>>
    BY DEF Locate
  <1>2. CASE Located(i) = NoFile
    <2>1. Over(i, "done", IF call[i].exit = "interrupt" THEN "interrupted" ELSE "failed")
      BY <1>2 DEF Locate
    <2>2. (IF call[i].exit = "interrupt" THEN "interrupted" ELSE "failed") \in Ends
      BY DEF Ends
    <2>3. QED
      BY <1>1, <2>1, <2>2, OverStep
  <1>3. CASE Located(i) # NoFile
    <2> DEFINE next == [call[i] EXCEPT !.phase = "manifest", !.found = Located(i)]
    <2>1. call' = [call EXCEPT ![i] = next]
      BY <1>3 DEF Locate
    <2>2. Located(i) \in RunDirectories \ call[i].before
      BY <1>3, LocatedIsNew DEF BaselineInv
    <2>3. Located(i) \in Invocations /\ dirs[Located(i)] \in Run
          /\ OwnOrDisturbed(i, Located(i))
      BY <1>1, <2>2, Facts DEF RunDirectories, Invocation
    <2>4. /\ next \in Call /\ next.phase = "manifest" /\ next.request = call[i].request
          /\ next.exit = call[i].exit /\ next.found = Located(i)
      BY <2>3, Facts DEF Call, Phases
    <2> HIDE DEF next
    <2>5. /\ call' \in [Invocations -> Call] /\ call'[i] = next
          /\ \A j \in Invocations : j # i => call'[j] = call[j]
      BY <2>1, <2>4, Facts
    <2>6. Invocation(i)'
      BY <1>1, <2>3, <2>4, <2>5, Facts DEF Invocation, OwnOrDisturbed
    <2>7. RequestsKept /\ ChildrenKept
      BY <1>1, <2>4, <2>5 DEF RequestsKept, ChildrenKept
    <2>8. QED
      BY <1>1, <2>5, <2>6, <2>7, LocalStep, Facts
  <1>4. QED
    BY <1>2, <1>3

\* The child's exit is its last word.
LEMMA ChildExitsStep ==
    ASSUME BaselineInv, NEW i \in Invocations, NEW code \in {"success", "failure"},
           ChildExits(i, code)
    PROVE  BaselineInv'
  <1>1. /\ child[i] = "running" /\ child' = [child EXCEPT ![i] = code]
        /\ UNCHANGED <<call, dirs, newer, disturbed>>
    BY DEF ChildExits
  <1>2. /\ child' \in [Invocations -> {"none", "running", "success", "failure"}]
        /\ child'[i] = code /\ \A j \in Invocations : j # i => child'[j] = child[j]
    BY <1>1, Facts
  <1>3. RunDirectories' = RunDirectories
    BY <1>1 DEF RunDirectories
  <1>4. Invocation(i)'
    BY <1>1, <1>2, <1>3, Facts DEF Invocation, OwnOrDisturbed
  <1>5. RequestsKept /\ ChildrenKept
    BY <1>1, <1>2 DEF RequestsKept, ChildrenKept
  <1>6. QED
    BY <1>1, <1>2, <1>4, <1>5, LocalStep, Facts
-----------------------------------------------------------------------------
(***************************************************************************)
(* Steps that write to a run directory.                                    *)
(***************************************************************************)

\* After run directory r is made or written to, the invariant is what it is for
\* r and for the invocation that moved; whoever did not see a new directory
\* coming is disturbed.
LEMMA WriteStep ==
    ASSUME BaselineInv, NEW r \in Invocations, NEW run \in Run,
           dirs' = [dirs EXCEPT ![r] = run], newer' = Touched(r), UNCHANGED child,
           call' \in [Invocations -> Call], RequestsKept,
           disturbed \subseteq disturbed', disturbed' \subseteq Invocations,
           \A j \in Invocations : call'[j] = call[j] \/ Invocation(j)',
           r \in RunDirectories \/ Looking \ {r} \subseteq disturbed',
           Directory(r)'
    PROVE  BaselineInv'
  <1>1. Typed'
    BY Facts DEF Typed
  <1>2. /\ dirs'[r] = run /\ \A s \in Invocations : s # r => dirs'[s] = dirs[s]
        /\ RunDirectories' \subseteq RunDirectories \cup {r}
    BY Facts DEF RunDirectories
  <1>3. OneIsNewest'
    BY <1>2, TouchedIsNewest DEF BaselineInv
  <1>4. ASSUME NEW j \in Invocations, call'[j] = call[j]
        PROVE  Invocation(j)'
    <2>1. Invocation(j)
      BY Facts
    <2>2. \A s \in Invocations : dirs[s] \in Run => dirs'[s] \in Run
      BY <1>2
    <2>3. ASSUME call[j].phase \in {"starting", "waiting", "locating"},
                 NEW s \in RunDirectories' \ call[j].before
          PROVE  OwnOrDisturbed(j, s)'
      <3>1. CASE s \in RunDirectories
        BY <2>1, <2>3, <3>1 DEF Invocation, OwnOrDisturbed
      <3>2. CASE s \notin RunDirectories
        <4>1. s = r /\ j \in Looking
          BY <1>2, <2>3, <3>2 DEF Looking
        <4>2. QED
          BY <3>2, <4>1 DEF OwnOrDisturbed
      <3>3. QED
        BY <3>1, <3>2
    <2>4. QED
      BY <1>4, <2>1, <2>2, <2>3 DEF Invocation, OwnOrDisturbed
  <1>5. ChildrenKept
    BY DEF ChildrenKept
  <1>6. ASSUME NEW s \in RunDirectories'
        PROVE  Directory(s)'
    <2>1. CASE s = r
      BY <2>1
    <2>2. CASE s # r
      BY <1>2, <1>5, <2>2, DirectoryKept, Facts DEF RunDirectories
    <2>3. QED
      BY <2>1, <2>2
  <1>7. QED
    BY <1>1, <1>3, <1>4, <1>6 DEF BaselineInv

\* The child makes its directory, and disturbs everybody else who is looking.
LEMMA MakeDirectoryStep ==
    ASSUME BaselineInv, NEW i \in Invocations, MakeDirectory(i)
    PROVE  BaselineInv'
  <1>1. /\ child[i] = "running" /\ dirs' = [dirs EXCEPT ![i] = Emptied]
        /\ newer' = Touched(i) /\ disturbed' = disturbed \cup (Looking \ {i})
        /\ UNCHANGED <<call, child>>
    BY DEF MakeDirectory
  <1>2. /\ Emptied \in Run /\ Emptied.params = NoFile /\ DOMAIN Emptied.tasks = {}
        /\ Emptied.manifest = NoFile /\ Emptied.record = NoFile
    <2> DEFINE none == [t \in {} |-> NoFile]
    <2>1. none \in [{} -> {outcome.dir : outcome \in Outcomes}] /\ DOMAIN none = {}
      OBVIOUS
    <2>2. none \in TaskDirectories
      BY <2>1 DEF TaskDirectories
    <2>3. Emptied = [params |-> NoFile, tasks |-> none, invalid |-> {},
                     manifest |-> NoFile, record |-> NoFile]
      BY DEF Emptied
    <2> HIDE DEF none
    <2>4. QED
      BY <2>1, <2>2, <2>3 DEF Run
  <1>3. dirs'[i] = Emptied
    BY <1>1, Facts
  <1>4. Directory(i)'
    BY <1>1, <1>2, <1>3 DEF Directory
  <1>5. RequestsKept /\ disturbed \subseteq disturbed' /\ disturbed' \subseteq Invocations
        /\ Looking \ {i} \subseteq disturbed'
    BY <1>1, Facts DEF RequestsKept, Looking
  <1>6. QED
    BY <1>1, <1>2, <1>4, <1>5, WriteStep, Facts

\* The child writes into its directory, of the tasks it was asked for: what the
\* harness wrote there stays, and does not say completed.
LEMMA ChangeStep ==
    ASSUME BaselineInv, NEW i \in Invocations, NEW run \in Run, Change(i, run),
           run.params = Wanted(i), DOMAIN run.tasks \subseteq Wanted(i),
           run.manifest = dirs[i].manifest, run.record = dirs[i].record
    PROVE  BaselineInv'
  <1>1. /\ i \in RunDirectories /\ child[i] = "running"
        /\ dirs' = [dirs EXCEPT ![i] = run] /\ newer' = Touched(i)
        /\ UNCHANGED <<call, child, disturbed>>
    BY DEF Change, RunDirectories
  <1>2. Directory(i) /\ dirs[i] \in Run
    BY <1>1, Facts
  <1>3. dirs'[i] = run /\ Wanted(i)' = Wanted(i)
    BY <1>1, Facts DEF Wanted
  <1>4. ASSUME run.manifest # NoFile
        PROVE  LET by == run.manifest.by IN
               /\ OwnOrDisturbed(by, i)' /\ call'[by].phase # "idle"
               /\ run.manifest.all = call'[by].request.all
               /\ run.manifest.fixtures = call'[by].request.fixtures
               /\ ~(by = i /\ run.manifest.status = "completed")
    BY <1>1, <1>2, <1>4 DEF Directory, OwnOrDisturbed
  <1>5. run.record # NoFile => OwnOrDisturbed(run.record.by, i)'
    BY <1>1, <1>2 DEF Directory, OwnOrDisturbed
  <1>6. Directory(i)'
    BY <1>1, <1>3, <1>4, <1>5 DEF Directory
  <1>7. RequestsKept /\ disturbed \subseteq disturbed' /\ disturbed' \subseteq Invocations
    BY <1>1, Facts DEF RequestsKept
  <1>8. QED
    BY <1>1, <1>6, <1>7, WriteStep, Facts

\* The child writes its parameters: what it was asked for.
LEMMA WriteParamsStep ==
    ASSUME BaselineInv, NEW i \in Invocations, WriteParams(i)
    PROVE  BaselineInv'
  <1> DEFINE run == [dirs[i] EXCEPT !.params = Wanted(i)]
  <1>1. i \in RunDirectories /\ dirs[i].params = NoFile /\ Change(i, run) /\ child[i] = "running"
    BY DEF WriteParams, Wanted, RunDirectories, Change
  <1>2. Directory(i) /\ dirs[i] \in Run /\ call[i].request \in Requests
    BY <1>1, Facts DEF Invocation
  <1>3. Wanted(i) \in FixtureSets \cup {Dataset}
    BY <1>2 DEF Wanted, FixtureSets
  <1>4. /\ run \in Run /\ run.params = Wanted(i) /\ run.tasks = dirs[i].tasks
        /\ run.manifest = dirs[i].manifest /\ run.record = dirs[i].record
    BY <1>2, <1>3 DEF Run
  <1> HIDE DEF run
  <1>5. DOMAIN run.tasks \subseteq Wanted(i)
    BY <1>1, <1>2, <1>4 DEF Directory
  <1>6. QED
    BY <1>1, <1>4, <1>5, ChangeStep

\* One fixture is done: one more of those that were asked for.
LEMMA WorkOnStep ==
    ASSUME BaselineInv, NEW i \in Invocations, NEW t \in Dataset, NEW outcome \in Outcomes,
           WorkOn(i, t, outcome)
    PROVE  BaselineInv'
  <1> DEFINE dir == dirs[i]
             tasks == [s \in DOMAIN dir.tasks \cup {t} |->
                          IF s = t THEN outcome.dir ELSE dir.tasks[s]]
             invalid == IF outcome.valid THEN dir.invalid ELSE dir.invalid \cup {t}
             run == [dir EXCEPT !.tasks = tasks, !.invalid = invalid]
  <1>1. /\ i \in RunDirectories /\ dir.params # NoFile /\ t \in dir.params
        /\ Change(i, run)
    BY DEF WorkOn, RunDirectories
  <1>2. Directory(i) /\ dir \in Run
    BY <1>1, Facts
  <1>3. tasks \in TaskDirectories
    <2>1. PICK S \in SUBSET Dataset : dir.tasks \in [S -> {o.dir : o \in Outcomes}]
      BY <1>2 DEF Run, TaskDirectories
    <2>2. tasks \in [S \cup {t} -> {o.dir : o \in Outcomes}]
      BY <2>1
    <2>3. S \cup {t} \in SUBSET Dataset
      OBVIOUS
    <2>4. QED
      BY <2>2, <2>3 DEF TaskDirectories
  <1>4. invalid \in SUBSET Dataset
    BY <1>2 DEF Run
  <1>5. DOMAIN tasks = DOMAIN dir.tasks \cup {t}
    OBVIOUS
  <1> HIDE DEF tasks, invalid
  <1>6. /\ run \in Run /\ run.params = dir.params /\ run.tasks = tasks
        /\ run.manifest = dir.manifest /\ run.record = dir.record
    BY <1>2, <1>3, <1>4 DEF Run
  <1>7. run.params = Wanted(i) /\ DOMAIN run.tasks \subseteq Wanted(i)
    BY <1>1, <1>2, <1>5, <1>6 DEF Directory
  <1> HIDE DEF run
  <1>8. QED
    BY <1>1, <1>6, <1>7, ChangeStep

\* The manifest goes where the invocation found its run, and says completed of
\* the own child's only once that has succeeded and left everything.
LEMMA WriteManifestStep ==
    ASSUME BaselineInv, NEW i \in Invocations, WriteManifest(i)
    PROVE  BaselineInv'
  <1>1. call[i].phase = "manifest" /\ call[i].request \in Requests
    BY Facts DEF WriteManifest, Invocation
  <1>2. PICK r \in Invocations : r = call[i].found
    BY <1>1, Facts DEF Invocation
  <1> DEFINE status == Status(i)
             manifest == [by |-> i, status |-> status, all |-> call[i].request.all,
                          fixtures |-> call[i].request.fixtures]
             run == [dirs[r] EXCEPT !.manifest = manifest]
             next == [call[i] EXCEPT !.phase = "record", !.record = status]
  <1>3. /\ dirs' = [dirs EXCEPT ![r] = run] /\ newer' = Touched(r)
        /\ call' = [call EXCEPT ![i] = next] /\ UNCHANGED <<child, disturbed>>
    BY <1>2 DEF WriteManifest
  <1>4. dirs[r] \in Run /\ OwnOrDisturbed(i, r)
    BY <1>1, <1>2, Facts DEF Invocation
  <1>5. /\ status \in Ends
        /\ status = "completed" => child[i] = "success" /\ RunComplete(dirs[r])
    BY <1>1, <1>2, Facts DEF Status, Ends, Invocation
  <1>6. /\ manifest \in Manifest /\ manifest.by = i /\ manifest.status = status
        /\ manifest.all = call[i].request.all
        /\ manifest.fixtures = call[i].request.fixtures
    BY <1>1, <1>5, RequestsAssumption DEF Manifest, FixtureSets
  <1> HIDE DEF manifest, status
  <1>7. /\ run \in Run /\ run.params = dirs[r].params /\ run.tasks = dirs[r].tasks
        /\ run.invalid = dirs[r].invalid /\ run.manifest = manifest
        /\ run.record = dirs[r].record
    BY <1>4, <1>6 DEF Run
  <1>8. /\ next \in Call /\ next.phase = "record" /\ next.request = call[i].request
        /\ next.found = r /\ next.record = status
    BY <1>2, <1>5, Facts DEF Call, Phases
  <1> HIDE DEF run, next
  <1>9. /\ call' \in [Invocations -> Call] /\ call'[i] = next /\ dirs'[r] = run
        /\ \A j \in Invocations : j # i => call'[j] = call[j]
    BY <1>3, <1>8, Facts
  <1>10. RequestsKept
    BY <1>8, <1>9 DEF RequestsKept
  <1>11. Invocation(i)'
    BY <1>1, <1>3, <1>4, <1>5, <1>7, <1>8, <1>9, Facts DEF Invocation, OwnOrDisturbed
  <1>12. r \in RunDirectories
    BY <1>4, NoFileAssumption DEF RunDirectories
  <1>13. /\ OwnOrDisturbed(i, r)' /\ Wanted(r)' = Wanted(r) /\ child'[r] # "none"
         /\ dirs[r].record # NoFile => OwnOrDisturbed(dirs[r].record.by, r)
         /\ dirs[r].params = run.params /\ dirs[r].tasks = run.tasks /\ Directory(r)
    <2>1. Directory(r) /\ call[r].phase # "idle"
      BY <1>12, Facts DEF Directory, Invocation
    <2>2. Wanted(r)' = Wanted(r)
      BY <1>10, <2>1 DEF Wanted, RequestsKept
    <2>3. QED
      BY <1>3, <1>4, <1>7, <2>1, <2>2 DEF Directory, OwnOrDisturbed
  <1>14. RunComplete(dirs[r]) => RunComplete(run)
    BY <1>7 DEF RunComplete, Candidates
  <1>15. Directory(r)'
    <2>1. \/ run.params = NoFile /\ DOMAIN run.tasks = {}
          \/ run.params = Wanted(r) /\ DOMAIN run.tasks \subseteq Wanted(r)
      BY <1>13 DEF Directory
    <2>2. run.record # NoFile => run.record.by = r \/ run.record.by \in disturbed'
      BY <1>3, <1>7, <1>13 DEF OwnOrDisturbed
    <2>3. /\ i = r \/ i \in disturbed'
          /\ call'[i].phase # "idle" /\ manifest.by = i
          /\ manifest.all = call'[i].request.all
          /\ manifest.fixtures = call'[i].request.fixtures
          /\ i = r /\ manifest.status = "completed" => child'[r] = "success" /\ RunComplete(run)
      BY <1>3, <1>4, <1>5, <1>6, <1>8, <1>9, <1>14 DEF OwnOrDisturbed
    <2>4. QED
      BY <1>7, <1>9, <1>13, <2>1, <2>2, <2>3 DEF Directory, OwnOrDisturbed
  <1>16. \A j \in Invocations : call'[j] = call[j] \/ Invocation(j)'
    BY <1>9, <1>11
  <1>17. disturbed' = disturbed /\ disturbed \subseteq Invocations
    BY <1>3, Facts
  <1>18. QED
    BY <1>3, <1>7, <1>9, <1>10, <1>12, <1>15, <1>16, <1>17, WriteStep

\* The invocation's record follows its manifest.
LEMMA MoveRecordStep ==
    ASSUME BaselineInv, NEW i \in Invocations, MoveRecord(i)
    PROVE  BaselineInv'
  <1>1. call[i].phase = "record" /\ call[i].record \in Ends
    BY Facts DEF MoveRecord, Invocation
  <1>2. PICK r \in Invocations : r = call[i].found
    BY <1>1, Facts DEF Invocation
  <1> DEFINE record == [by |-> i, status |-> call[i].record]
             run == [dirs[r] EXCEPT !.record = record]
             next == [NotCalled EXCEPT !.phase = "done", !.request = call[i].request,
                                  !.record = NoFile]
  <1>3. /\ dirs' = [dirs EXCEPT ![r] = run] /\ newer' = Touched(r)
        /\ call' = [call EXCEPT ![i] = next] /\ UNCHANGED <<child, disturbed>>
    BY <1>2 DEF MoveRecord, Over
  <1>4. dirs[r] \in Run /\ OwnOrDisturbed(i, r)
    BY <1>1, <1>2, Facts DEF Invocation
  <1>5. record \in Record /\ record.by = i
    BY <1>1 DEF Record
  <1> HIDE DEF record
  <1>6. /\ run \in Run /\ run.params = dirs[r].params /\ run.tasks = dirs[r].tasks
        /\ run.invalid = dirs[r].invalid /\ run.manifest = dirs[r].manifest
        /\ run.record = record
    BY <1>4, <1>5 DEF Run
  <1>7. next \in Call /\ next.phase = "done" /\ next.request = call[i].request
    BY Facts DEF NotCalled, Call, Phases
  <1> HIDE DEF run, next
  <1>8. /\ call' \in [Invocations -> Call] /\ call'[i] = next /\ dirs'[r] = run
        /\ \A j \in Invocations : j # i => call'[j] = call[j]
    BY <1>3, <1>7, Facts
  <1>9. RequestsKept
    BY <1>7, <1>8 DEF RequestsKept
  <1>10. \A j \in Invocations : call'[j] = call[j] \/ Invocation(j)'
    BY <1>1, <1>7, <1>8, Facts DEF Invocation
  <1>11. r \in RunDirectories /\ Directory(r)
    BY <1>4, NoFileAssumption, Facts DEF RunDirectories
  <1>12. Wanted(r)' = Wanted(r)
    BY <1>9, <1>11, Facts DEF Wanted, RequestsKept, Directory, Invocation
  <1>13. RunComplete(dirs[r]) => RunComplete(run)
    BY <1>6 DEF RunComplete, Candidates
  <1>14. Directory(r)'
    <2>1. /\ child'[r] # "none"
          /\ \/ run.params = NoFile /\ DOMAIN run.tasks = {}
             \/ run.params = Wanted(r) /\ DOMAIN run.tasks \subseteq Wanted(r)
      BY <1>3, <1>6, <1>11 DEF Directory
    <2>2. record.by = r \/ record.by \in disturbed'
      BY <1>3, <1>4, <1>5 DEF OwnOrDisturbed
    <2>3. ASSUME run.manifest # NoFile
          PROVE  /\ run.manifest.by = r \/ run.manifest.by \in disturbed'
                 /\ call'[run.manifest.by].phase # "idle"
                 /\ run.manifest.all = call'[run.manifest.by].request.all
                 /\ run.manifest.fixtures = call'[run.manifest.by].request.fixtures
                 /\ run.manifest.by = r /\ run.manifest.status = "completed" =>
                        child'[r] = "success" /\ RunComplete(run)
      <3>1. run.manifest.by \in Invocations
        BY <1>6, <2>3 DEF Run, Manifest
      <3>2. QED
        BY <1>3, <1>6, <1>9, <1>11, <1>13, <2>3, <3>1
           DEF Directory, RequestsKept, OwnOrDisturbed
    <2>4. QED
      BY <1>6, <1>8, <1>12, <2>1, <2>2, <2>3 DEF Directory, OwnOrDisturbed
  <1>15. disturbed' = disturbed /\ disturbed \subseteq Invocations
    BY <1>3, Facts
  <1>16. QED
    BY <1>3, <1>6, <1>8, <1>9, <1>10, <1>11, <1>14, <1>15, WriteStep
-----------------------------------------------------------------------------
(***************************************************************************)
(* The invariant holds, and with it what the files of a run say.           *)
(***************************************************************************)

\* Nobody has run anything.
LEMMA BaselineInit == RunnerInit => BaselineInv
  <1> SUFFICES ASSUME RunnerInit PROVE BaselineInv
    OBVIOUS
  <1>1. NotCalled \in Call /\ NotCalled.phase = "idle"
    BY DEF NotCalled, Call, Phases
  <1>2. /\ Typed /\ RunDirectories = {} /\ newer = {}
        /\ \A i \in Invocations : call[i] = NotCalled /\ child[i] = "none"
    BY <1>1 DEF RunnerInit, Typed, RunDirectories
  <1>3. QED
    BY <1>1, <1>2 DEF BaselineInv, OneIsNewest, Invocation

\* Each effect of a runner or of a child keeps the invariant.
LEMMA BaselineNext == BaselineInv /\ [RunnerNext]_runnerVars => BaselineInv'
  <1> SUFFICES ASSUME BaselineInv, [RunnerNext]_runnerVars PROVE BaselineInv'
    OBVIOUS
  <1>1. CASE UNCHANGED runnerVars
    BY <1>1 DEF runnerVars, BaselineInv, Typed, OneIsNewest, RunDirectories, Invocation, Directory,
                OwnOrDisturbed, Wanted
  <1>2. ASSUME NEW i \in Invocations, StreamFails(i)
        PROVE  BaselineInv'
    BY <1>2, OverStep DEF StreamFails, Ends
  <1>3. ASSUME NEW i \in Invocations, Kill(i)
        PROVE  BaselineInv'
    BY <1>3, OverStep, Facts DEF Kill
  <1>4. QED
    BY <1>1, <1>2, <1>3, Facts, InvokeStep, LaunchStep, WaitEndsStep, LocateStep,
       WriteManifestStep, MoveRecordStep, MakeDirectoryStep, WriteParamsStep, WorkOnStep,
       ChildExitsStep DEF RunnerNext

\* Runners and children of one output root, killed, interrupted or failing,
\* keep the invariant.
THEOREM BaselineInvariantHolds == RunnerSpec => []BaselineInv
  <1>1. QED
    BY BaselineInit, BaselineNext, PTL DEF RunnerSpec

\* What an invocation writes, it writes to the directory of its own child, unless
\* another child made a directory meanwhile: comparing the root's directories
\* before and after finds no older one, whatever the modification times.
THEOREM WritesToItsOwnRun == RunnerSpec => []OwnRunUnlessDisturbed
  <1>1. BaselineInv => OwnRunUnlessDisturbed
    BY DEF BaselineInv, OwnRunUnlessDisturbed, Directory, OwnOrDisturbed
  <1>2. QED
    BY <1>1, BaselineInvariantHolds, PTL

\* What its own invocation recorded as completed is complete and stays so.
THEOREM CompletedRunsStayComplete == RunnerSpec => []CompletedRunsAreComplete
  <1>1. BaselineInv => CompletedRunsAreComplete
    <2> SUFFICES ASSUME BaselineInv, NEW r \in RunDirectories, dirs[r].manifest # NoFile,
                        dirs[r].manifest.by = r, dirs[r].manifest.status = "completed"
                 PROVE  /\ child[r] = "success"
                        /\ dirs[r].params = DOMAIN dirs[r].tasks \ dirs[r].invalid
                        /\ dirs[r].params \subseteq Candidates(dirs[r])
      BY DEF CompletedRunsAreComplete
    <2>1. child[r] = "success" /\ RunComplete(dirs[r]) /\ Directory(r)
      BY DEF BaselineInv, Directory
    <2>2. dirs[r].params = Wanted(r) /\ DOMAIN dirs[r].tasks \subseteq Wanted(r)
      BY <2>1 DEF Directory, RunComplete
    <2>3. dirs[r].params \subseteq Candidates(dirs[r]) \ dirs[r].invalid
      BY <2>1 DEF RunComplete
    <2>4. Candidates(dirs[r]) \subseteq DOMAIN dirs[r].tasks
      BY DEF Candidates
    <2>5. QED
      BY <2>1, <2>2, <2>3, <2>4
  <1>2. QED
    BY <1>1, BaselineInvariantHolds, PTL

\* A run that verifies in scope "all" is one of the whole dataset with a candidate
\* for every task: its manifest is of the invocation that asked for everything,
\* so that whichever of its files names the expected tasks names them all.
THEOREM AllIsAll == RunnerSpec => []AllMeansAll
  <1>1. BaselineInv => AllMeansAll
    <2> SUFFICES ASSUME BaselineInv, NEW r \in RunDirectories, NEW given \in {{}, Dataset},
                        NEW expected, expected = ExpectedTasks(dirs[r], given, {}),
                        NEW report, report = VerifyRun(dirs[r], expected, Dataset),
                        ~VerifyRefuses(expected, Dataset, TRUE),
                        report.passed, report.scope = "all",
                        dirs[r].manifest.by \notin disturbed
                 PROVE  expected = Dataset /\ Dataset \subseteq Candidates(dirs[r])
      BY DEF AllMeansAll
    <2>1. Directory(r) /\ r \in Invocations /\ dirs[r] \in Run
      BY Facts DEF RunDirectories
    <2>2. dirs[r].manifest # NoFile /\ dirs[r].manifest.all
      BY DEF VerifyRun, Scope
    <2>3. /\ dirs[r].manifest.by = r /\ dirs[r].manifest.all = call[r].request.all
          /\ dirs[r].manifest.fixtures = call[r].request.fixtures
          /\ call[r].request \in Requests
      BY <2>1, <2>2, Facts DEF Directory, OwnOrDisturbed, Invocation
    <2>4. call[r].request.all /\ dirs[r].manifest.fixtures = {}
      BY <2>2, <2>3, RequestsAssumption
    <2>5. expected # {}
      BY DEF VerifyRefuses
    <2>6. expected = Dataset
      <3>1. CASE dirs[r].params \notin {NoFile, {}}
        BY <2>1, <2>4, <3>1 DEF ExpectedTasks, Directory, Wanted
      <3>2. CASE dirs[r].params \in {NoFile, {}}
        <4>1. expected = IF given # {} THEN given ELSE DOMAIN dirs[r].tasks
          BY <2>4, <3>2 DEF ExpectedTasks
        <4>2. DOMAIN dirs[r].tasks = {}
          BY <2>1, <2>4, <3>2, NoFileAssumption DEF Directory, Wanted
        <4>3. QED
          BY <2>5, <4>1, <4>2
      <3>3. QED
        BY <3>1, <3>2
    <2>7. \A t \in expected : TaskStatus(dirs[r], t, Dataset) # "missing"
      BY DEF VerifyRun
    <2>8. \A t \in expected : t \in Candidates(dirs[r])
      BY <2>7 DEF TaskStatus
    <2>9. QED
      BY <2>6, <2>8
  <1>2. QED
    BY <1>1, BaselineInvariantHolds, PTL

-----------------------------------------------------------------------------
(***************************************************************************)
(* Production.  The planner first: its tuples are ordered, so that the     *)
(* least task and the least batch are always one.                          *)
(***************************************************************************)

\* Tuples of numbers, profiles of tasks, and batches of them.
Numbers(k) == [1 .. k -> Int]
Profiled(T) == [T -> Profile]
Batched(T, n) == [1 .. n -> Seq(T)]
Counts(n) == [1 .. n -> Nat]

\* No tuple is below itself.
LEMMA LexIrreflexive ==
    ASSUME NEW L \in Nat, NEW x \in Numbers(L)
    PROVE  ~LexLess(x, x)
  BY DEF LexLess, Numbers

\* The order of tuples is transitive.
LEMMA LexTransitive ==
    ASSUME NEW L \in Nat, NEW x \in Numbers(L), NEW y \in Numbers(L),
           NEW z \in Numbers(L), LexLess(x, y), LexLess(y, z)
    PROVE  LexLess(x, z)
  <1> USE DEF Numbers
  <1>1. PICK i \in 1 .. L : x[i] < y[i] /\ \A k \in 1 .. i - 1 : x[k] = y[k]
    BY DEF LexLess
  <1>2. PICK j \in 1 .. L : y[j] < z[j] /\ \A k \in 1 .. j - 1 : y[k] = z[k]
    BY DEF LexLess
  <1>3. CASE i <= j
    <2>1. x[i] < z[i]
      <3>1. i < j => y[i] = z[i]
        BY <1>2
      <3>2. QED
        BY <1>1, <1>2, <1>3, <3>1
    <2>2. \A k \in 1 .. i - 1 : x[k] = z[k]
      BY <1>1, <1>2, <1>3
    <2>3. QED
      BY <2>1, <2>2 DEF LexLess
  <1>4. CASE j < i
    <2>1. x[j] < z[j]
      BY <1>1, <1>2, <1>4
    <2>2. \A k \in 1 .. j - 1 : x[k] = z[k]
      BY <1>1, <1>2, <1>4
    <2>3. QED
      BY <2>1, <2>2 DEF LexLess
  <1>5. QED
    BY <1>3, <1>4

\* Of two different tuples one is below the other.
LEMMA LexTotal ==
    ASSUME NEW L \in Nat, NEW x \in Numbers(L), NEW y \in Numbers(L), x # y
    PROVE  LexLess(x, y) \/ LexLess(y, x)
  <1> USE DEF Numbers
  <1> DEFINE D == {i \in 1 .. L : x[i] # y[i]}
  <1>1. D # {} /\ D \subseteq Nat
    OBVIOUS
  <1>2. PICK i \in D : \A j \in D : i <= j
    BY <1>1, LeastNumber
  <1>3. \A j \in 1 .. i - 1 : x[j] = y[j]
    BY <1>2
  <1>4. i \in 1 .. L /\ x[i] \in Int /\ y[i] \in Int /\ x[i] # y[i]
    BY <1>2
  <1>5. DOMAIN x = 1 .. L /\ DOMAIN y = 1 .. L
    OBVIOUS
  <1> HIDE DEF D
  <1>6. CASE x[i] < y[i]
    BY <1>3, <1>4, <1>5, <1>6 DEF LexLess
  <1>7. CASE y[i] < x[i]
    BY <1>3, <1>4, <1>5, <1>7 DEF LexLess
  <1>8. QED
    BY <1>4, <1>6, <1>7

\* Of a finite set whose keys differ one member is the least.
LEMMA LeastIsOne ==
    ASSUME NEW set, IsFiniteSet(set), set # {}, NEW L \in Nat, NEW key,
           \A x \in set : key[x] \in Numbers(L),
           \A x, y \in set : x # y => key[x] # key[y]
    PROVE  Least(set, key) \in set
  <1> DEFINE Below(x) == {y \in set : LexLess(key[y], key[x])}
             sizes == {Cardinality(Below(x)) : x \in set}
  <1>1. \A x \in set : IsFiniteSet(Below(x)) /\ Cardinality(Below(x)) \in Nat
    BY FS_Subset, FS_CardinalityType
  <1>2. sizes # {} /\ sizes \subseteq Nat
    BY <1>1
  <1>3. PICK n \in sizes : \A m \in sizes : n <= m
    <2> HIDE DEF sizes
    <2>1. QED
      BY <1>2, LeastNumber
  <1>4. PICK x \in set : n = Cardinality(Below(x))
    OBVIOUS
  <1>5. ASSUME NEW y \in set \ {x} PROVE LexLess(key[x], key[y])
    <2> SUFFICES ASSUME ~LexLess(key[x], key[y]) PROVE FALSE
      OBVIOUS
    <2>1. LexLess(key[y], key[x])
      BY LexTotal
    <2>2. \A z \in Below(y) : z \in Below(x)
      BY <2>1, LexTransitive
    <2>3. y \in Below(x) /\ y \notin Below(y)
      BY <2>1, LexIrreflexive
    <2>4. Cardinality(Below(y)) <= Cardinality(Below(x))
          /\ (Cardinality(Below(y)) = Cardinality(Below(x)) => Below(y) = Below(x))
      <3>1. Below(y) \subseteq Below(x) /\ IsFiniteSet(Below(x))
        BY <1>1, <2>2
      <3> HIDE DEF Below
      <3>2. QED
        BY <3>1, FS_Subset
    <2>5. Cardinality(Below(x)) <= Cardinality(Below(y))
      <3>1. Cardinality(Below(y)) \in sizes
        OBVIOUS
      <3>2. QED
        BY <1>3, <1>4, <3>1
    <2> HIDE DEF Below
    <2>6. QED
      BY <1>1, <2>3, <2>4, <2>5
  <1>6. QED
    BY <1>5 DEF Least

\* Quotient and remainder.
LEMMA DivMod ==
    ASSUME NEW n \in Nat, n > 0, NEW a \in Int
    PROVE  /\ a = n * (a \div n) + (a % n)
           /\ a % n \in 0 .. n - 1 /\ a \div n \in Int
  OBVIOUS

\* Multiples of a number that are less than it apart are the same.
LEMMA SameMultiple ==
    ASSUME NEW n \in Nat, NEW p \in Int, NEW q \in Int, NEW d \in Int,
           -n < d, d < n, d = n * p - n * q
    PROVE  d = 0
  <1>1. d = n * (p - q)
    OBVIOUS
  <1>2. CASE p - q >= 1
    <2>1. n * (p - q) >= n
      BY <1>2
    <2>2. QED
      BY <1>1, <2>1
  <1>3. CASE p - q <= -1
    <2>1. n * (p - q) <= -n
      BY <1>3
    <2>2. QED
      BY <1>1, <2>1
  <1>4. QED
    BY <1>1, <1>2, <1>3

\* A rotation by k gives every batch a place of its own.
LEMMA Rotated ==
    ASSUME NEW n \in Nat, n > 0, NEW b \in 1 .. n, NEW c \in 1 .. n, NEW k \in Nat,
           (b - 1 - k) % n = (c - 1 - k) % n
    PROVE  b = c
  <1> DEFINE p == (b - 1 - k) \div n
             q == (c - 1 - k) \div n
             r == (b - 1 - k) % n
  <1>1. p \in Int /\ q \in Int /\ r \in Int /\ b - 1 - k = n * p + r /\ c - 1 - k = n * q + r
    BY DivMod
  <1> HIDE DEF p, q, r
  <1>2. b - c = n * p - n * q
    BY <1>1
  <1>3. b - c = 0
    <2>1. b - c \in Int /\ -n < b - c /\ b - c < n
      OBVIOUS
    <2>2. QED
      BY <1>1, <1>2, <2>1, SameMultiple
  <1>4. QED
    BY <1>3

\* The order of the names of families and bands.
LEMMA RankType ==
    ASSUME NEW string \in {"complex", "editing", "generation", "moderate", "simple"}
    PROVE  Rank(string) \in Int
  <1>1. /\ DOMAIN Sorted = 1 .. 5
        /\ Sorted[1] = "complex" /\ Sorted[2] = "editing" /\ Sorted[3] = "generation"
        /\ Sorted[4] = "moderate" /\ Sorted[5] = "simple"
    BY DEF Sorted
  <1>2. \E i \in DOMAIN Sorted : Sorted[i] = string
    BY <1>1
  <1>3. Rank(string) \in DOMAIN Sorted
    BY <1>2 DEF Rank
  <1>4. QED
    BY <1>1, <1>3

\* The bands.
LEMMA BandsAre ==
    /\ DOMAIN Bands = 1 .. 3 /\ Len(Bands) = 3
    /\ Range(Bands) = {"simple", "moderate", "complex"}
  <1>1. /\ DOMAIN Bands = 1 .. 3 /\ Len(Bands) = 3
        /\ Bands[1] = "simple" /\ Bands[2] = "moderate" /\ Bands[3] = "complex"
    BY DEF Bands
  <1>2. QED
    BY <1>1 DEF Range

\* Every task of a dataset has a profile.
LEMMA ProfilesType ==
    ASSUME NEW d \in AllDatasets
    PROVE  Profiles(d) \in [DOMAIN d -> Profile]
  <1> SUFFICES ASSUME NEW t \in DOMAIN d
               PROVE  [family |-> d[t].family, score |-> d[t].score, band |-> Band(d, t)]
                        \in Profile
    BY DEF Profiles
  <1>1. d[t].family \in {"editing", "generation"} /\ d[t].score \in Nat
    BY DatasetsAssumption
  <1>2. Band(d, t) \in Range(Bands)
    <2> DEFINE members == {s \in DOMAIN d : d[s].family = d[t].family}
               below == {s \in members : LexLess(<<d[s].score, s>>, <<d[t].score, t>>)}
               index == (Cardinality(below) * 3) \div Cardinality(members)
    <2>1. IsFiniteSet(members) /\ IsFiniteSet(below) /\ members # {}
      BY DatasetsAssumption, FS_Subset
    <2>2. Cardinality(members) \in Nat /\ Cardinality(below) \in Nat /\ Cardinality(members) # 0
      <3> HIDE DEF members, below
      <3>1. QED
        BY <2>1, FS_CardinalityType, FS_EmptySet
    <2>3. index \in Nat
      <3> HIDE DEF members, below
      <3>1. QED
        BY <2>2
    <2>4. Band(d, t) = Bands[1 + (IF index < 3 THEN index ELSE 2)]
      BY BandsAre DEF Band
    <2> HIDE DEF index
    <2>5. 1 + (IF index < 3 THEN index ELSE 2) \in DOMAIN Bands
      BY <2>3, BandsAre
    <2>6. QED
      BY <2>4, <2>5 DEF Range
  <1>3. QED
    BY <1>1, <1>2 DEF Profile

\* A band, a family.
LEMMA StratumRanks ==
    ASSUME NEW profiles, NEW t \in DOMAIN profiles, profiles[t] \in Profile
    PROVE  /\ Stratum(profiles, t) = <<profiles[t].family, profiles[t].band>>
           /\ Rank(Stratum(profiles, t)[1]) \in Int /\ Rank(Stratum(profiles, t)[2]) \in Int
  <1>1. profiles[t].family \in {"editing", "generation"}
        /\ profiles[t].band \in {"simple", "moderate", "complex"}
    BY BandsAre DEF Profile
  <1>2. Rank(profiles[t].family) \in Int /\ Rank(profiles[t].band) \in Int
    BY <1>1, RankType
  <1>3. QED
    BY <1>2 DEF Stratum

\* Tuples of numbers.
LEMMA FiveNumbers ==
    ASSUME NEW a \in Int, NEW b \in Int, NEW c \in Int, NEW d \in Int, NEW e \in Int
    PROVE  <<a, b, c>> \o <<d, e>> \in Numbers(5) /\ (<<a, b, c>> \o <<d, e>>)[5] = e
  <1> DEFINE x == <<a, b, c>>
             y == <<d, e>>
             z == x \o y
  <1>1. x \in Seq(Int) /\ y \in Seq(Int) /\ Len(x) = 3 /\ Len(y) = 2 /\ y[2] = e
    OBVIOUS
  <1> HIDE DEF x, y
  <1>2. z \in Seq(Int) /\ Len(z) = 5 /\ z[5] = e
    <2>1. z \in Seq(Int) /\ Len(z) = Len(x) + Len(y)
      BY <1>1, ConcatProperties
    <2>2. \A i \in 1 .. Len(x) + Len(y) : z[i] = IF i <= Len(x) THEN x[i] ELSE y[i - Len(x)]
      BY <1>1, ConcatProperties
    <2> HIDE DEF z
    <2>3. QED
      BY <1>1, <2>1, <2>2
  <1> HIDE DEF z
  <1>3. z \in Numbers(5) /\ z[5] = e
    BY <1>2 DEF Numbers
  <1>4. QED
    BY <1>3 DEF x, y, z

\* The last of six numbers.
LEMMA SixNumbers ==
    ASSUME NEW a \in Int, NEW b \in Int, NEW c \in Int, NEW d \in Int, NEW e \in Int, NEW f \in Int
    PROVE  <<a, b, c, d, e, f>> \in Numbers(6) /\ <<a, b, c, d, e, f>>[6] = f
  BY DEF Numbers

\* The key by which the next task is chosen ends with the task.
LEMMA TaskKeysDiffer ==
    ASSUME NEW T, IsFiniteSet(T), T \subseteq Nat, NEW profiles \in Profiled(T), NEW t \in T
    PROVE  TaskKey(profiles, t) \in Numbers(5) /\ TaskKey(profiles, t)[5] = t
  <1> DEFINE size == Cardinality({s \in DOMAIN profiles :
                                     Stratum(profiles, s) = Stratum(profiles, t)})
             family == Rank(Stratum(profiles, t)[1])
             band == Rank(Stratum(profiles, t)[2])
             score == -profiles[t].score
  <1> USE DEF Profiled
  <1>1. size \in Int
    BY FS_Subset, FS_CardinalityType
  <1>2. family \in Int /\ band \in Int
    BY StratumRanks
  <1>3. score \in Int
    BY DEF Profile
  <1>4. TaskKey(profiles, t) = <<size, family, band>> \o <<score, t>>
    BY DEF TaskKey, StratumKey
  <1> HIDE DEF size, family, band, score
  <1>5. QED
    BY <1>1, <1>2, <1>3, <1>4, FiveNumbers

\* The place of a stratum is a number.
LEMMA StratumIndexType ==
    ASSUME NEW T, IsFiniteSet(T), NEW profiles \in Profiled(T), NEW stratum
    PROVE  StratumIndex(profiles, stratum) \in Nat
  <1> DEFINE S == {Stratum(profiles, t) : t \in DOMAIN profiles}
             f == [t \in T |-> Stratum(profiles, t)]
             B == {other \in S :
                     LexLess(StratumKey(profiles, other), StratumKey(profiles, stratum))}
  <1>1. f \in Surjection(T, S)
    BY DEF Surjection, Profiled
  <1>2. IsFiniteSet(S)
    <2> HIDE DEF f, S
    <2>1. QED
      BY <1>1, FS_Surjection
  <1>3. IsFiniteSet(B)
    <2>1. B \subseteq S
      OBVIOUS
    <2> HIDE DEF B, S
    <2>2. QED
      BY <1>2, <2>1, FS_Subset
  <1>4. Cardinality(B) \in Nat
    <2> HIDE DEF B
    <2>1. QED
      BY <1>3, FS_CardinalityType
  <1>5. QED
    BY <1>4 DEF StratumIndex

\* What a batch shares with a task ends with the batch's place after a rotation.
LEMMA SimilaritiesDiffer ==
    ASSUME NEW T, IsFiniteSet(T), NEW profiles \in Profiled(T), NEW n \in Nat, n > 0,
           NEW batches \in Batched(T, n), NEW t \in T, NEW b \in 1 .. n
    PROVE  /\ Similarity(profiles, batches, t, b) \in Numbers(6)
           /\ Similarity(profiles, batches, t, b)[6]
                = (b - 1 - StratumIndex(profiles, Stratum(profiles, t))) % n
  <1> DEFINE batch == batches[b]
             family == {i \in DOMAIN batch : profiles[batch[i]].family = profiles[t].family}
             band == {i \in DOMAIN batch : profiles[batch[i]].band = profiles[t].band}
             scores == [i \in 1 .. Len(batch) |-> profiles[batch[i]].score]
             index == StratumIndex(profiles, Stratum(profiles, t))
  <1>1. batch \in Seq(T)
    BY DEF Batched
  <1>2. Len(batches) = n
    BY DEF Batched
  <1>3. /\ Similarity(profiles, batches, t, b)
             = <<Cardinality(family \cap band), Cardinality(family), Cardinality(band), Len(batch),
                 SumSeq(scores), (b - 1 - index) % n>>
    BY <1>2 DEF Similarity
  <1>4. IsFiniteSet(family) /\ IsFiniteSet(band) /\ IsFiniteSet(family \cap band)
    <2>1. IsFiniteSet(1 .. Len(batch)) /\ DOMAIN batch = 1 .. Len(batch)
      BY <1>1, FS_Interval
    <2>2. family \subseteq 1 .. Len(batch) /\ band \subseteq 1 .. Len(batch)
          /\ family \cap band \subseteq 1 .. Len(batch)
      BY <2>1
    <2> HIDE DEF family, band
    <2>3. QED
      BY <2>1, <2>2, FS_Subset
  <1>5. /\ Cardinality(family) \in Nat /\ Cardinality(band) \in Nat
        /\ Cardinality(family \cap band) \in Nat
    <2> HIDE DEF family, band
    <2>1. QED
      BY <1>4, FS_CardinalityType
  <1>6. SumSeq(scores) \in Nat
    <2>1. \A i \in 1 .. Len(batch) : batch[i] \in T
      BY <1>1
    <2>2. \A i \in 1 .. Len(batch) : profiles[batch[i]].score \in Nat
      BY <2>1 DEF Profile, Profiled
    <2>3. scores \in [1 .. Len(batch) -> Nat] /\ Len(batch) \in Nat
      BY <1>1, <2>2
    <2> HIDE DEF scores
    <2>4. QED
      BY <2>3, NumbersInARow, SumSeqType
  <1>7. index \in Nat
    BY StratumIndexType
  <1>8. (b - 1 - index) % n \in Int
    <2> HIDE DEF index
    <2>1. QED
      BY <1>7, DivMod
  <1>9. Len(batch) \in Nat
    BY <1>1
  <1> DEFINE both == Cardinality(family \cap band)
             first == Cardinality(family)
             second == Cardinality(band)
             length == Len(batch)
             sum == SumSeq(scores)
             place == (b - 1 - index) % n
  <1>10. /\ both \in Int /\ first \in Int /\ second \in Int /\ length \in Int
         /\ sum \in Int /\ place \in Int
    BY <1>5, <1>6, <1>8, <1>9
  <1>11. Similarity(profiles, batches, t, b) = <<both, first, second, length, sum, place>>
    BY <1>3
  <1> HIDE DEF both, first, second, length, sum, place
  <1>12. /\ Similarity(profiles, batches, t, b) \in Numbers(6)
         /\ Similarity(profiles, batches, t, b)[6] = place
    <2>1. /\ <<both, first, second, length, sum, place>> \in Numbers(6)
          /\ <<both, first, second, length, sum, place>>[6] = place
      BY <1>10, SixNumbers
    <2>2. QED
      BY <1>11, <2>1
  <1>13. QED
    BY <1>12 DEF place, index

-----------------------------------------------------------------------------
(***************************************************************************)
(* Assigning the tasks: each step fills one batch by one task.             *)
(***************************************************************************)

\* After k tasks of T: each is at one place of one batch, and no batch is too full.
Filled(T, n, capacities, batches, k) ==
    /\ batches \in Batched(T, n)
    /\ \A b \in 1 .. n : Len(batches[b]) <= capacities[b]
    /\ \A b, c \in 1 .. n : \A i \in 1 .. Len(batches[b]), j \in 1 .. Len(batches[c]) :
           batches[b][i] = batches[c][j] => b = c /\ i = j
    /\ SumTo([b \in 1 .. n |-> Len(batches[b])], n) = k
    /\ Cardinality(Assigned(batches)) = k

\* What is assigned is at a place of a batch.
LEMMA OfAssigned ==
    ASSUME NEW T, NEW n \in Nat, NEW batches \in Batched(T, n)
    PROVE  /\ Assigned(batches) \subseteq T
           /\ \A t \in Assigned(batches) :
                  \E b \in 1 .. n : \E i \in 1 .. Len(batches[b]) : batches[b][i] = t
  <1>1. ASSUME NEW t \in Assigned(batches)
        PROVE  t \in T /\ \E b \in 1 .. n : \E i \in 1 .. Len(batches[b]) : batches[b][i] = t
    <2>1. PICK b \in 1 .. n : t \in Range(batches[b])
      BY DEF Assigned, Batched
    <2>2. batches[b] \in Seq(T)
      BY DEF Batched
    <2>3. PICK i \in 1 .. Len(batches[b]) : batches[b][i] = t
      BY <2>1, <2>2 DEF Range
    <2>4. batches[b][i] \in T
      BY <2>2
    <2>5. QED
      BY <2>3, <2>4
  <1>2. QED
    BY <1>1

\* What is at a place of a batch is assigned.
LEMMA InAssigned ==
    ASSUME NEW T, NEW n \in Nat, NEW batches \in Batched(T, n),
           NEW b \in 1 .. n, NEW i \in 1 .. Len(batches[b])
    PROVE  batches[b][i] \in Assigned(batches)
  <1>1. batches[b] \in Seq(T)
    BY DEF Batched
  <1>2. batches[b][i] \in Range(batches[b])
    BY <1>1 DEF Range
  <1>3. QED
    BY <1>2 DEF Assigned, Batched

\* Before the first task.
LEMMA NothingIsFilled ==
    ASSUME NEW T, NEW n \in Nat, NEW capacities \in Counts(n)
    PROVE  Filled(T, n, capacities, [b \in 1 .. n |-> << >>], 0)
  <1> DEFINE batches == [b \in 1 .. n |-> << >>]
  <1>1. /\ batches \in Batched(T, n)
        /\ \A b \in 1 .. n : Len(batches[b]) = 0
    BY DEF Batched
  <1> HIDE DEF batches
  <1>2. Assigned(batches) = {}
    <2>1. ~ \E b \in 1 .. n : \E i \in 1 .. Len(batches[b]) : TRUE
      BY <1>1
    <2>2. \A t \in Assigned(batches) :
              \E b \in 1 .. n : \E i \in 1 .. Len(batches[b]) : batches[b][i] = t
      BY <1>1, OfAssigned
    <2>3. QED
      BY <2>1, <2>2
  <1>3. SumTo([b \in 1 .. n |-> Len(batches[b])], n) = 0
    <2>1. [b \in 1 .. n |-> Len(batches[b])] = [b \in 1 .. n |-> 0]
      BY <1>1
    <2>2. [b \in 1 .. n |-> 0] \in [1 .. n -> Nat]
      OBVIOUS
    <2>3. Len([b \in 1 .. n |-> 0]) = n
      BY <2>2, NumbersInARow
    <2>4. QED
      BY <2>1, <2>3, SumOfZeros DEF SumSeq
  <1>4. Filled(T, n, capacities, batches, 0)
    <2>1. Cardinality(Assigned(batches)) = 0
      BY <1>2, FS_EmptySet
    <2>2. \A b \in 1 .. n : Len(batches[b]) <= capacities[b]
      BY <1>1 DEF Counts
    <2>3. \A b, c \in 1 .. n : \A i \in 1 .. Len(batches[b]), j \in 1 .. Len(batches[c]) :
              batches[b][i] = batches[c][j] => b = c /\ i = j
      BY <1>1
    <2>4. QED
      BY <1>1, <1>3, <2>1, <2>2, <2>3 DEF Filled
  <1>5. QED
    BY <1>4 DEF batches

\* The planner never runs out of capacity.
LEMMA OneIsEligible ==
    ASSUME NEW T, NEW n \in Nat, NEW capacities \in Counts(n), NEW batches, NEW k \in Nat,
           Filled(T, n, capacities, batches, k), k < SumTo(capacities, n)
    PROVE  \E b \in 1 .. n : Len(batches[b]) < capacities[b]
  <1> DEFINE lengths == [b \in 1 .. n |-> Len(batches[b])]
  <1> SUFFICES ASSUME \A b \in 1 .. n : ~(Len(batches[b]) < capacities[b])
               PROVE  FALSE
    OBVIOUS
  <1>1. batches \in Batched(T, n) /\ SumTo(lengths, n) = k
    BY DEF Filled
  <1>2. \A b \in 1 .. n : Len(batches[b]) \in Nat /\ capacities[b] \in Nat
    BY <1>1 DEF Batched, Counts
  <1>3. \A b \in 1 .. n : capacities[b] \in Nat /\ lengths[b] \in Nat /\ capacities[b] <= lengths[b]
    BY <1>2
  <1> HIDE DEF lengths
  <1>4. SumTo(capacities, n) <= SumTo(lengths, n)
    BY <1>3, SumToMonotone
  <1>5. SumTo(capacities, n) \in Nat
    BY <1>2, SumToType
  <1>6. QED
    BY <1>1, <1>4, <1>5

\* One more task fills the batches by one.
LEMMA FilledByOne ==
    ASSUME NEW T, IsFiniteSet(T), NEW n \in Nat, NEW capacities \in Counts(n),
           NEW batches, NEW k \in Nat, Filled(T, n, capacities, batches, k),
           NEW t \in T \ Assigned(batches), NEW s \in 1 .. n, Len(batches[s]) < capacities[s]
    PROVE  Filled(T, n, capacities, [batches EXCEPT ![s] = Append(@, t)], k + 1)
  <1> DEFINE next == [batches EXCEPT ![s] = Append(@, t)]
             lengths == [b \in 1 .. n |-> Len(batches[b])]
             longer == [b \in 1 .. n |-> Len(next[b])]
  <1>1. /\ batches \in Batched(T, n) /\ Cardinality(Assigned(batches)) = k
        /\ \A b \in 1 .. n : Len(batches[b]) <= capacities[b]
        /\ \A b, c \in 1 .. n : \A i \in 1 .. Len(batches[b]), j \in 1 .. Len(batches[c]) :
               batches[b][i] = batches[c][j] => b = c /\ i = j
        /\ SumTo(lengths, n) = k
    BY DEF Filled
  <1>2. /\ \A b \in 1 .. n : batches[b] \in Seq(T) /\ Len(batches[b]) \in Nat
        /\ capacities[s] \in Nat
    BY <1>1 DEF Batched, Counts
  <1>3. /\ next \in Batched(T, n)
        /\ Len(next[s]) = Len(batches[s]) + 1 /\ next[s][Len(batches[s]) + 1] = t
        /\ \A i \in 1 .. Len(batches[s]) : next[s][i] = batches[s][i]
        /\ \A b \in 1 .. n : b # s => next[b] = batches[b]
    <2>1. batches[s] \in Seq(T) /\ t \in T
      BY <1>2
    <2>2. /\ Append(batches[s], t) \in Seq(T) /\ Len(Append(batches[s], t)) = Len(batches[s]) + 1
          /\ Append(batches[s], t)[Len(batches[s]) + 1] = t
          /\ \A i \in 1 .. Len(batches[s]) : Append(batches[s], t)[i] = batches[s][i]
      BY <2>1, AppendProperties
    <2>3. next[s] = Append(batches[s], t) /\ \A b \in 1 .. n : b # s => next[b] = batches[b]
      BY <1>1 DEF Batched
    <2>4. next \in Batched(T, n)
      BY <1>1, <2>2 DEF Batched
    <2>5. QED
      BY <2>2, <2>3, <2>4
  <1> HIDE DEF next
  <1>b. batches \in Batched(T, n)
    BY <1>1
  <1>n. next \in Batched(T, n)
    BY <1>3
  <1>4. ASSUME NEW b \in 1 .. n PROVE Len(next[b]) <= capacities[b]
    <2>1. CASE b = s
      BY <1>2, <1>3, <2>1
    <2>2. CASE b # s
      BY <1>1, <1>3, <2>2
    <2>3. QED
      BY <2>1, <2>2
  <1>5. ASSUME NEW b \in 1 .. n, NEW i \in 1 .. Len(batches[b]) PROVE batches[b][i] # t
    <2>1. batches[b][i] \in Assigned(batches)
      BY <1>b, InAssigned
    <2>2. QED
      BY <2>1
  <1>o. ASSUME NEW b \in 1 .. n, NEW i \in 1 .. Len(next[b])
        PROVE  \/ i \in 1 .. Len(batches[b]) /\ next[b][i] = batches[b][i]
               \/ b = s /\ i = Len(batches[s]) + 1 /\ next[b][i] = t
    <2>1. CASE b = s
      <3>1. i \in 1 .. Len(batches[s]) + 1
        BY <1>3, <2>1
      <3>2. i \in 1 .. Len(batches[s]) \/ i = Len(batches[s]) + 1
        BY <1>2, <3>1
      <3>3. QED
        BY <1>3, <2>1, <3>2
    <2>2. CASE b # s
      BY <1>3, <2>2
    <2>3. QED
      BY <2>1, <2>2
  <1>6. ASSUME NEW b \in 1 .. n, NEW c \in 1 .. n,
               NEW i \in 1 .. Len(next[b]), NEW j \in 1 .. Len(next[c]), next[b][i] = next[c][j]
        PROVE  b = c /\ i = j
    <2> DEFINE OldB == i \in 1 .. Len(batches[b]) /\ next[b][i] = batches[b][i]
               OldC == j \in 1 .. Len(batches[c]) /\ next[c][j] = batches[c][j]
    <2>1. OldB \/ (b = s /\ i = Len(batches[s]) + 1 /\ next[b][i] = t)
      BY <1>o
    <2>2. OldC \/ (c = s /\ j = Len(batches[s]) + 1 /\ next[c][j] = t)
      BY <1>o
    <2>3. CASE OldB /\ OldC
      <3>1. batches[b][i] = batches[c][j]
        BY <1>6, <2>3
      <3>2. QED
        BY <1>1, <2>3, <3>1
    <2>4. OldB => batches[b][i] # t
      BY <1>5
    <2>5. OldC => batches[c][j] # t
      BY <1>5
    <2>6. QED
      BY <1>6, <2>1, <2>2, <2>3, <2>4, <2>5
  <1>7. SumTo(longer, n) = k + 1
    <2>1. \A b \in 1 .. n :
              lengths[b] \in Nat /\ longer[b] \in Nat /\ (b # s => lengths[b] = longer[b])
      BY <1>2, <1>3
    <2>2. longer[s] = lengths[s] + 1 /\ lengths[s] \in Nat
      BY <1>2, <1>3
    <2> HIDE DEF longer, lengths
    <2>3. SumTo(longer, n) = SumTo(lengths, n) - lengths[s] + longer[s]
      BY <2>1, SumToChanged
    <2>4. QED
      BY <1>1, <2>2, <2>3
  <1>8. Assigned(next) = Assigned(batches) \cup {t}
    <2>1. ASSUME NEW x \in Assigned(next) PROVE x \in Assigned(batches) \cup {t}
      <3>0. \A u \in Assigned(next) :
                \E b \in 1 .. n : \E i \in 1 .. Len(next[b]) : next[b][i] = u
        BY <1>n, OfAssigned
      <3>1. PICK b \in 1 .. n : \E i \in 1 .. Len(next[b]) : next[b][i] = x
        BY <3>0
      <3>2. PICK i \in 1 .. Len(next[b]) : next[b][i] = x
        BY <3>1
      <3>3. (i \in 1 .. Len(batches[b]) /\ batches[b][i] = x) \/ x = t
        BY <1>o, <3>2
      <3>4. QED
        BY <1>b, <3>3, InAssigned
    <2>2. ASSUME NEW x \in Assigned(batches) PROVE x \in Assigned(next)
      <3>0. \A u \in Assigned(batches) :
                \E b \in 1 .. n : \E i \in 1 .. Len(batches[b]) : batches[b][i] = u
        BY <1>b, OfAssigned
      <3>1. PICK b \in 1 .. n : \E i \in 1 .. Len(batches[b]) : batches[b][i] = x
        BY <3>0
      <3>2. PICK i \in 1 .. Len(batches[b]) : batches[b][i] = x
        BY <3>1
      <3>3. i \in 1 .. Len(next[b]) /\ next[b][i] = x
        <4>1. CASE b = s
          <5>1. i \in 1 .. Len(batches[s]) + 1
            BY <1>2, <4>1
          <5>2. QED
            BY <1>3, <3>2, <4>1, <5>1
        <4>2. CASE b # s
          BY <1>3, <3>2, <4>2
        <4>3. QED
          BY <4>1, <4>2
      <3>4. QED
        BY <1>3, <3>3, InAssigned
    <2>3. t \in Assigned(next)
      <3>1. Len(batches[s]) + 1 \in 1 .. Len(next[s])
        BY <1>2, <1>3
      <3>2. next[s][Len(batches[s]) + 1] \in Assigned(next)
        BY <1>3, <3>1, InAssigned
      <3>3. QED
        BY <1>3, <3>2
    <2>4. QED
      BY <2>1, <2>2, <2>3
  <1>9. Cardinality(Assigned(next)) = k + 1
    <2>1. IsFiniteSet(Assigned(batches))
      BY <1>1, OfAssigned, FS_Subset
    <2>2. QED
      BY <1>1, <1>8, <2>1, FS_AddElement
  <1>10. QED
    BY <1>3, <1>4, <1>6, <1>7, <1>9 DEF Filled, next

\* The next task is one that is left, and the batch chosen for it has room.
LEMMA NextIsFilled ==
    ASSUME NEW T, IsFiniteSet(T), T \subseteq Nat, NEW profiles \in Profiled(T),
           NEW n \in Nat, n > 0, NEW capacities \in Counts(n),
           NEW batches, NEW k \in Nat, Filled(T, n, capacities, batches, k),
           k < Cardinality(T), Cardinality(T) = SumTo(capacities, n)
    PROVE  Filled(T, n, capacities, WithTask(profiles, capacities, batches), k + 1)
  <1> DEFINE left == DOMAIN profiles \ Assigned(batches)
             keys == [s \in left |-> TaskKey(profiles, s)]
             t == Least(left, keys)
             eligible == {b \in DOMAIN batches : Len(batches[b]) < capacities[b]}
             ranks == [b \in eligible |-> Similarity(profiles, batches, t, b)]
             selected == Least(eligible, ranks)
  <1>1. /\ batches \in Batched(T, n) /\ Cardinality(Assigned(batches)) = k
        /\ Assigned(batches) \subseteq T /\ DOMAIN profiles = T
    BY OfAssigned DEF Filled, Profiled
  <1>2. left = T \ Assigned(batches) /\ IsFiniteSet(left) /\ left # {}
    <2>1. left # {}
      <3>1. Assigned(batches) # T
        BY <1>1
      <3>2. QED
        BY <1>1, <3>1
    <2>2. left \subseteq T
      BY <1>1
    <2> HIDE DEF left
    <2>3. IsFiniteSet(left)
      BY <2>2, FS_Subset
    <2>4. QED
      BY <1>1, <2>1, <2>3 DEF left
  <1>3. ASSUME NEW s \in left PROVE keys[s] \in Numbers(5) /\ keys[s][5] = s
    <2>1. s \in T /\ keys[s] = TaskKey(profiles, s)
      BY <1>1
    <2> HIDE DEF keys, left
    <2>2. TaskKey(profiles, s) \in Numbers(5) /\ TaskKey(profiles, s)[5] = s
      BY <2>1, TaskKeysDiffer
    <2>3. QED
      BY <2>1, <2>2
  <1>4. t \in left
    <2> HIDE DEF left, keys
    <2>1. ASSUME NEW x \in left, NEW y \in left, x # y PROVE keys[x] # keys[y]
      BY <1>3, <2>1
    <2>2. \A x \in left : keys[x] \in Numbers(5)
      BY <1>3
    <2>3. Least(left, keys) \in left
      BY <1>2, <2>1, <2>2, LeastIsOne
    <2>4. QED
      BY <2>3
  <1>5. eligible # {} /\ IsFiniteSet(eligible) /\ eligible \subseteq 1 .. n
    <2>1. DOMAIN batches = 1 .. n
      BY <1>1 DEF Batched
    <2>2. \E b \in 1 .. n : Len(batches[b]) < capacities[b]
      BY OneIsEligible
    <2>3. eligible # {} /\ eligible \subseteq 1 .. n
      BY <2>1, <2>2
    <2>4. IsFiniteSet(1 .. n)
      BY FS_Interval
    <2> HIDE DEF eligible
    <2>5. QED
      BY <2>3, <2>4, FS_Subset
  <1>6. ASSUME NEW b \in eligible
        PROVE  /\ ranks[b] \in Numbers(6)
               /\ ranks[b][6] = (b - 1 - StratumIndex(profiles, Stratum(profiles, t))) % n
    <2>1. t \in T /\ b \in 1 .. n
      BY <1>1, <1>4, <1>5
    <2>2. ranks[b] = Similarity(profiles, batches, t, b)
      OBVIOUS
    <2> HIDE DEF ranks, t, eligible
    <2>3. /\ Similarity(profiles, batches, t, b) \in Numbers(6)
          /\ Similarity(profiles, batches, t, b)[6]
                = (b - 1 - StratumIndex(profiles, Stratum(profiles, t))) % n
      <3>1. batches \in Batched(T, n)
        BY <1>1
      <3>2. t \in T /\ b \in 1 .. n
        BY <2>1
      <3>3. QED
        BY <3>1, <3>2, SimilaritiesDiffer
    <2>4. QED
      BY <2>2, <2>3
  <1>7. selected \in eligible
    <2> DEFINE index == StratumIndex(profiles, Stratum(profiles, t))
    <2> HIDE DEF eligible, ranks, t
    <2>1. index \in Nat
      BY StratumIndexType
    <2>2. ASSUME NEW b \in eligible, NEW c \in eligible, b # c PROVE ranks[b] # ranks[c]
      <3>1. b \in 1 .. n /\ c \in 1 .. n
        BY <1>5
      <3>2. ranks[b][6] = (b - 1 - index) % n /\ ranks[c][6] = (c - 1 - index) % n
        BY <1>6
      <3> HIDE DEF index
      <3>3. (b - 1 - index) % n # (c - 1 - index) % n
        BY <2>1, <2>2, <3>1, Rotated
      <3>4. QED
        BY <3>2, <3>3
    <2>3. \A b \in eligible : ranks[b] \in Numbers(6)
      BY <1>6
    <2>4. Least(eligible, ranks) \in eligible
      BY <1>5, <2>2, <2>3, LeastIsOne
    <2>5. QED
      BY <2>4
  <1>8. WithTask(profiles, capacities, batches) = [batches EXCEPT ![selected] = Append(@, t)]
    BY DEF WithTask
  <1>9. selected \in 1 .. n /\ Len(batches[selected]) < capacities[selected]
    <2>1. \A b \in eligible : Len(batches[b]) < capacities[b]
      OBVIOUS
    <2> HIDE DEF eligible, selected
    <2>2. QED
      BY <1>5, <1>7, <2>1
  <1> HIDE DEF selected, t, left
  <1>10. t \in T \ Assigned(batches)
    BY <1>2, <1>4
  <1>11. Filled(T, n, capacities, [batches EXCEPT ![selected] = Append(@, t)], k + 1)
    BY <1>9, <1>10, FilledByOne
  <1>12. QED
    BY <1>8, <1>11

\* The recursive function of AssignBatches, up to place m.
Steps(profiles, capacities, g, m) ==
    g = [k \in 0 .. m |-> IF k = 0 THEN [b \in DOMAIN capacities |-> << >>]
                          ELSE WithTask(profiles, capacities, g[k - 1])]

Stepped(profiles, capacities, m) == CHOOSE g : Steps(profiles, capacities, g, m)

\* There is such a function for every number of steps.
LEMMA StepsExist ==
    ASSUME NEW profiles, NEW capacities, NEW n \in Nat
    PROVE  Steps(profiles, capacities, Stepped(profiles, capacities, n), n)
  <1> DEFINE empty == [b \in DOMAIN capacities |-> << >>]
             S == {m \in Nat : \E g : Steps(profiles, capacities, g, m)}
  <1>1. 0 \in S
    <2>1. Steps(profiles, capacities, [k \in 0 .. 0 |-> empty], 0)
      BY DEF Steps
    <2>2. QED
      BY <2>1
  <1>2. ASSUME NEW m \in Nat, m \in S PROVE m + 1 \in S
    <2>1. PICK g : Steps(profiles, capacities, g, m)
      BY <1>2
    <2> DEFINE h == [k \in 0 .. m + 1 |->
                       IF k = m + 1 THEN WithTask(profiles, capacities, g[m]) ELSE g[k]]
    <2>2. \A k \in 0 .. m : g[k] = IF k = 0 THEN empty ELSE WithTask(profiles, capacities, g[k - 1])
      BY <2>1 DEF Steps
    <2>3. ASSUME NEW k \in 0 .. m + 1
          PROVE  h[k] = IF k = 0 THEN empty ELSE WithTask(profiles, capacities, h[k - 1])
      <3>1. CASE k = m + 1
        BY <3>1
      <3>2. CASE k # m + 1
        <4>1. k \in 0 .. m /\ (k # 0 => k - 1 \in 0 .. m + 1 /\ k - 1 # m + 1)
          BY <3>2
        <4>2. h[k] = g[k] /\ (k # 0 => h[k - 1] = g[k - 1])
          BY <3>2, <4>1
        <4>3. QED
          BY <2>2, <4>1, <4>2
      <3>3. QED
        BY <3>1, <3>2
    <2>4. h = [k \in 0 .. m + 1 |->
                 IF k = 0 THEN empty ELSE WithTask(profiles, capacities, h[k - 1])]
      BY <2>3
    <2> HIDE DEF h
    <2>5. Steps(profiles, capacities, h, m + 1)
      BY <2>4 DEF Steps
    <2>6. QED
      BY <2>5
  <1> HIDE DEF S
  <1>3. n \in S
    BY <1>1, <1>2, NumbersReachedFromZero
  <1>4. \E g : Steps(profiles, capacities, g, n)
    BY <1>3 DEF S
  <1>5. QED
    BY <1>4 DEF Stepped

\* All tasks are assigned, to batches that are as full as planned.
LEMMA AllAreFilled ==
    ASSUME NEW T, IsFiniteSet(T), T \subseteq Nat, NEW profiles \in Profiled(T),
           NEW n \in Nat, n > 0, NEW capacities \in Counts(n),
           Cardinality(T) = SumTo(capacities, n)
    PROVE  Filled(T, n, capacities, AssignBatches(profiles, capacities), Cardinality(T))
  <1> DEFINE N == Cardinality(T)
             g == Stepped(profiles, capacities, N)
             empty == [b \in DOMAIN capacities |-> << >>]
             S == {k \in Nat : k <= N => Filled(T, n, capacities, g[k], k)}
  <1>1. N \in Nat /\ DOMAIN profiles = T
    BY FS_CardinalityType DEF Profiled
  <1>2. AssignBatches(profiles, capacities) = g[N]
    BY <1>1 DEF AssignBatches, Stepped, Steps
  <1>3. \A k \in 0 .. N : g[k] = IF k = 0 THEN empty ELSE WithTask(profiles, capacities, g[k - 1])
    <2>1. Steps(profiles, capacities, g, N)
      BY <1>1, StepsExist
    <2> HIDE DEF g, N
    <2>2. QED
      BY <2>1 DEF Steps
  <1> HIDE DEF g
  <1>4. 0 \in S
    <2>1. g[0] = [b \in 1 .. n |-> << >>]
      BY <1>1, <1>3 DEF Counts
    <2>2. QED
      BY <2>1, NothingIsFilled
  <1>5. ASSUME NEW k \in Nat, k \in S PROVE k + 1 \in S
    <2> SUFFICES ASSUME k + 1 <= N PROVE Filled(T, n, capacities, g[k + 1], k + 1)
      OBVIOUS
    <2>1. Filled(T, n, capacities, g[k], k) /\ k < N
      BY <1>1, <1>5
    <2>2. g[k + 1] = WithTask(profiles, capacities, g[k])
      <3>1. k + 1 \in 0 .. N /\ k + 1 # 0 /\ (k + 1) - 1 = k
        BY <1>1
      <3>2. QED
        BY <1>3, <3>1
    <2>3. Filled(T, n, capacities, WithTask(profiles, capacities, g[k]), k + 1)
      BY <2>1, NextIsFilled
    <2>4. QED
      BY <2>2, <2>3
  <1> HIDE DEF S
  <1>6. N \in S
    BY <1>1, <1>4, <1>5, NumbersReachedFromZero
  <1>7. QED
    BY <1>1, <1>2, <1>6 DEF S

-----------------------------------------------------------------------------
(***************************************************************************)
(* The plan: capacities are even and add up, so the batches partition the  *)
(* tasks that are left.                                                    *)
(***************************************************************************)

\* Multiplication by a number keeps the order.
LEMMA TimesKeepsOrder ==
    ASSUME NEW n \in Nat, NEW p \in Int, NEW q \in Int, p <= q
    PROVE  n * p <= n * q /\ n * p \in Int /\ n * q \in Int
  <1>1. n * (q - p) >= 0
    OBVIOUS
  <1>2. n * (q - p) = n * q - n * p
    OBVIOUS
  <1>3. n * p \in Int /\ n * q \in Int
    OBVIOUS
  <1>4. QED
    BY <1>1, <1>2, <1>3

\* There are as many batches as it takes.
LEMMA BatchCount ==
    ASSUME NEW count \in Nat, count > 0, NEW target \in Nat, target > 0,
           NEW n, n = (count + target - 1) \div target
    PROVE  n \in Nat /\ n > 0 /\ n <= count /\ count <= n * target
  <1> DEFINE a == count + target - 1
             r == a % target
  <1>1. a \in Nat /\ a = target * n + r /\ r \in 0 .. target - 1 /\ n \in Int
    BY DivMod
  <1> HIDE DEF r
  <1>2. target * n >= count
    BY <1>1
  <1>3. n > 0
    <2> SUFFICES ASSUME n <= 0 PROVE FALSE
      BY <1>1
    <2>1. target * n <= target * 0
      BY <1>1, TimesKeepsOrder
    <2>2. target * 0 = 0
      OBVIOUS
    <2>3. QED
      BY <1>1, <1>2, <2>1, <2>2
  <1>4. n <= count
    <2> SUFFICES ASSUME count + 1 <= n PROVE FALSE
      BY <1>1
    <2>1. target * (count + 1) <= target * n
      BY <1>1, TimesKeepsOrder
    <2>2. target * (count + 1) = target * count + target
      OBVIOUS
    <2>3. count * 1 <= count * target
      BY TimesKeepsOrder
    <2>4. target * n <= a
      BY <1>1
    <2>5. target * count = count * target /\ count * 1 = count
      OBVIOUS
    <2>6. target * n \in Int /\ target * count \in Int
      BY <1>1
    <2>7. QED
      BY <2>1, <2>2, <2>3, <2>4, <2>5, <2>6
  <1>5. QED
    BY <1>1, <1>2, <1>3, <1>4

\* The capacities are even, in bounds, and add up.
LEMMA Capacities ==
    ASSUME NEW count \in Nat, count > 0, NEW target \in Nat, target > 0,
           NEW n, n = (count + target - 1) \div target,
           NEW capacities, capacities = BatchCapacities(count, target)
    PROVE  /\ n \in Nat /\ n > 0
           /\ capacities \in Counts(n)
           /\ \A b \in 1 .. n : capacities[b] \in 1 .. target
           /\ \A b, c \in 1 .. n : capacities[b] <= capacities[c] + 1
           /\ SumTo(capacities, n) = count
  <1> DEFINE q == count \div n
             r == count % n
  <1>1. n \in Nat /\ n > 0 /\ n <= count /\ count <= n * target
    BY BatchCount
  <1>2. count = n * q + r /\ q \in Int /\ r \in 0 .. n - 1
    BY <1>1, DivMod
  <1>3. capacities = [b \in 1 .. n |-> q + (IF b <= r THEN 1 ELSE 0)]
    BY DEF BatchCapacities
  <1> HIDE DEF q, r
  <1>4. q >= 1
    <2> SUFFICES ASSUME q <= 0 PROVE FALSE
      BY <1>2
    <2>1. n * q <= n * 0
      BY <1>1, <1>2, TimesKeepsOrder
    <2>2. n * 0 = 0 /\ n * q \in Int
      BY <1>1, <1>2
    <2>3. QED
      BY <1>1, <1>2, <2>1, <2>2
  <1>5. q <= target /\ (r > 0 => q < target)
    <2>1. ASSUME target + 1 <= q PROVE FALSE
      <3>1. n * (target + 1) <= n * q
        BY <1>1, <1>2, <2>1, TimesKeepsOrder
      <3>2. n * (target + 1) = n * target + n /\ n * q \in Int /\ n * target \in Int
        BY <1>1, <1>2
      <3>3. QED
        BY <1>1, <1>2, <3>1, <3>2
    <2>2. ASSUME r > 0, target <= q PROVE FALSE
      <3>1. n * target <= n * q /\ n * target \in Int /\ n * q \in Int
        BY <1>1, <1>2, <2>2, TimesKeepsOrder
      <3>2. QED
        BY <1>1, <1>2, <2>2, <3>1
    <2>3. QED
      BY <1>2, <2>1, <2>2
  <1>6. ASSUME NEW b \in 1 .. n
        PROVE  /\ capacities[b] \in 1 .. target /\ capacities[b] \in {q, q + 1}
               /\ capacities[b] = q + (IF b <= r THEN 1 ELSE 0)
    <2>1. capacities[b] = q + (IF b <= r THEN 1 ELSE 0)
      BY <1>3
    <2>2. b <= r => r > 0
      BY <1>1, <1>2
    <2>3. QED
      BY <1>2, <1>4, <1>5, <2>1, <2>2
  <1>7. \A b \in 1 .. n : capacities[b] \in Nat
    BY <1>6
  <1>8. capacities \in Counts(n)
    BY <1>3, <1>7 DEF Counts
  <1>9. \A b, c \in 1 .. n : capacities[b] <= capacities[c] + 1
    BY <1>2, <1>6
  <1>10. SumTo(capacities, n) = count
    <2> DEFINE S == {k \in Nat : k <= n => SumTo(capacities, k) = k * q + (IF k <= r THEN k ELSE r)}
    <2>1. 0 \in S
      <3>1. SumTo(capacities, 0) = 0 /\ 0 * q = 0
        BY <1>2, SumToSteps
      <3>2. QED
        BY <1>2, <3>1
    <2>2. ASSUME NEW k \in Nat, k \in S PROVE k + 1 \in S
      <3> SUFFICES ASSUME k + 1 <= n
                   PROVE  SumTo(capacities, k + 1)
                            = (k + 1) * q + (IF k + 1 <= r THEN k + 1 ELSE r)
        OBVIOUS
      <3>1. SumTo(capacities, k) = k * q + (IF k <= r THEN k ELSE r)
        BY <1>1, <2>2
      <3>2. SumTo(capacities, k + 1) = SumTo(capacities, k) + capacities[k + 1]
        BY SumToSteps
      <3>3. capacities[k + 1] = q + (IF k + 1 <= r THEN 1 ELSE 0)
        BY <1>1, <1>6
      <3>4. (k + 1) * q = k * q + q /\ k * q \in Int
        BY <1>2
      <3>5. QED
        BY <1>2, <3>1, <3>2, <3>3, <3>4
    <2> HIDE DEF S
    <2>3. n \in S
      BY <1>1, <2>1, <2>2, NumbersReachedFromZero
    <2>4. SumTo(capacities, n) = n * q + r
      BY <1>1, <1>2, <2>3 DEF S
    <2>5. QED
      BY <1>2, <2>4
  <1>11. QED
    BY <1>1, <1>6, <1>8, <1>9, <1>10

\* Numbers below others, with the same sum, are the others.
LEMMA SameSumSameNumbers ==
    ASSUME NEW n \in Nat, NEW f \in Counts(n), NEW g \in Counts(n),
           \A b \in 1 .. n : f[b] <= g[b], SumTo(f, n) = SumTo(g, n)
    PROVE  \A b \in 1 .. n : f[b] = g[b]
  <1> SUFFICES ASSUME NEW b \in 1 .. n, f[b] # g[b] PROVE FALSE
    OBVIOUS
  <1> DEFINE h == [f EXCEPT ![b] = g[b]]
  <1>1. \A c \in 1 .. n : f[c] \in Nat /\ g[c] \in Nat /\ f[c] <= g[c]
    BY DEF Counts
  <1>2. h[b] = g[b] /\ \A c \in 1 .. n : c # b => h[c] = f[c]
    BY DEF Counts
  <1> HIDE DEF h
  <1>3. \A c \in 1 .. n : h[c] \in Nat /\ h[c] <= g[c]
    BY <1>1, <1>2
  <1>4. SumTo(h, n) = SumTo(f, n) - f[b] + h[b]
    BY <1>1, <1>2, <1>3, SumToChanged
  <1>5. SumTo(h, n) <= SumTo(g, n)
    BY <1>1, <1>3, SumToMonotone
  <1>6. SumTo(f, n) \in Nat /\ SumTo(g, n) \in Nat /\ SumTo(h, n) \in Nat
    BY <1>1, <1>3, SumToType
  <1>7. f[b] < h[b] /\ f[b] \in Nat /\ h[b] \in Nat
    BY <1>1, <1>2
  <1>8. QED
    BY <1>4, <1>5, <1>6, <1>7

\* A sequence that repeats nothing has as many members as places.
LEMMA PlacesAreMembers ==
    ASSUME NEW T, NEW seq \in Seq(T),
           \A i, j \in 1 .. Len(seq) : seq[i] = seq[j] => i = j
    PROVE  Cardinality(Range(seq)) = Len(seq)
  <1>1. DOMAIN seq = 1 .. Len(seq) /\ Len(seq) \in Nat
    OBVIOUS
  <1> DEFINE S == Range(seq)
             n == Len(seq)
  <1>2. seq \in [1 .. n -> S] /\ \A x \in S : \E i \in 1 .. n : seq[i] = x
    BY <1>1 DEF Range
  <1> HIDE DEF S
  <1>3. seq \in Injection(1 .. n, S)
    BY <1>2 DEF Injection, IsInjective
  <1>4. seq \in Surjection(1 .. n, S)
    BY <1>2 DEF Surjection
  <1>5. ExistsBijection(1 .. n, S)
    BY <1>3, <1>4 DEF ExistsBijection, Bijection
  <1> HIDE DEF n
  <1>6. n \in Nat
    BY <1>1 DEF n
  <1>7. IsFiniteSet(1 .. n)
    BY <1>6, FS_Interval
  <1>8. Cardinality(1 .. n) = n
    BY <1>6, FS_Interval
  <1>9. Cardinality(S) = n
    BY <1>5, <1>7, <1>8, FS_Bijection
  <1>10. QED
    BY <1>9 DEF S, n

Partitions(batches, tasks) ==
    /\ UNION {batches[b] : b \in DOMAIN batches} = tasks
    /\ \A b, c \in DOMAIN batches :
        /\ b # c => batches[b] \cap batches[c] = {}
        /\ Cardinality(batches[b]) \in 1 .. TargetSize
        /\ Cardinality(batches[b]) <= Cardinality(batches[c]) + 1

\* The batches, as sets of tasks.
LEMMA BatchesPartition ==
    ASSUME NEW T, IsFiniteSet(T), T \subseteq Nat, T # {}, NEW profiles \in Profiled(T),
           NEW batches,
           batches = AssignBatches(profiles, BatchCapacities(Cardinality(T), TargetSize)),
           NEW sets, sets = [b \in DOMAIN batches |-> Range(batches[b])]
    PROVE  Partitions(sets, T) /\ sets \in Seq(SUBSET T)
  <1> DEFINE count == Cardinality(T)
             n == (count + TargetSize - 1) \div TargetSize
             capacities == BatchCapacities(count, TargetSize)
             lengths == [b \in 1 .. n |-> Len(batches[b])]
  <1>1. count \in Nat /\ count > 0 /\ TargetSize \in Nat /\ TargetSize > 0
    BY FS_CardinalityType, FS_EmptySet, TargetAssumption
  <1>2. /\ n \in Nat /\ n > 0 /\ capacities \in Counts(n)
        /\ \A b \in 1 .. n : capacities[b] \in 1 .. TargetSize
        /\ \A b, c \in 1 .. n : capacities[b] <= capacities[c] + 1
        /\ SumTo(capacities, n) = count
    <2> HIDE DEF count, n, capacities
    <2>1. n = (count + TargetSize - 1) \div TargetSize
          /\ capacities = BatchCapacities(count, TargetSize)
      BY DEF n, capacities
    <2>2. QED
      BY <1>1, <2>1, Capacities
  <1>3. batches = AssignBatches(profiles, capacities)
    OBVIOUS
  <1> HIDE DEF n, capacities
  <1>4. Filled(T, n, capacities, batches, count)
    BY <1>2, <1>3, AllAreFilled
  <1>5. /\ batches \in Batched(T, n) /\ Cardinality(Assigned(batches)) = count
        /\ \A b \in 1 .. n : Len(batches[b]) <= capacities[b]
        /\ \A b, c \in 1 .. n : \A i \in 1 .. Len(batches[b]), j \in 1 .. Len(batches[c]) :
               batches[b][i] = batches[c][j] => b = c /\ i = j
        /\ SumTo(lengths, n) = count
    BY <1>4 DEF Filled
  <1>6. /\ DOMAIN batches = 1 .. n /\ DOMAIN sets = 1 .. n
        /\ \A b \in 1 .. n : batches[b] \in Seq(T) /\ sets[b] = Range(batches[b])
    BY <1>5 DEF Batched
  <1>7. \A b \in 1 .. n : Len(batches[b]) = capacities[b]
    <2>1. lengths \in Counts(n) /\ \A b \in 1 .. n : lengths[b] = Len(batches[b])
      BY <1>6 DEF Counts
    <2> HIDE DEF lengths
    <2>2. \A b \in 1 .. n : lengths[b] <= capacities[b]
      BY <1>5, <2>1
    <2>3. \A b \in 1 .. n : lengths[b] = capacities[b]
      BY <1>2, <1>5, <2>1, <2>2, SameSumSameNumbers
    <2>4. QED
      BY <2>1, <2>3
  <1>8. ASSUME NEW b \in 1 .. n PROVE Cardinality(sets[b]) = capacities[b]
    <2>1. \A i, j \in 1 .. Len(batches[b]) : batches[b][i] = batches[b][j] => i = j
      BY <1>5
    <2>2. batches[b] \in Seq(T) /\ sets[b] = Range(batches[b])
      BY <1>6
    <2>3. Cardinality(Range(batches[b])) = Len(batches[b])
      BY <2>1, <2>2, PlacesAreMembers
    <2>4. QED
      BY <1>7, <2>2, <2>3
  <1>9. ASSUME NEW b \in 1 .. n, NEW c \in 1 .. n, b # c PROVE sets[b] \cap sets[c] = {}
    <2> SUFFICES ASSUME NEW t \in sets[b], t \in sets[c] PROVE FALSE
      OBVIOUS
    <2>1. batches[b] \in Seq(T) /\ batches[c] \in Seq(T) /\ t \in Range(batches[b])
          /\ t \in Range(batches[c])
      BY <1>6
    <2>2. PICK i \in 1 .. Len(batches[b]) : batches[b][i] = t
      BY <2>1 DEF Range
    <2>3. PICK j \in 1 .. Len(batches[c]) : batches[c][j] = t
      BY <2>1 DEF Range
    <2>4. QED
      BY <1>5, <1>9, <2>2, <2>3
  <1>10. UNION {sets[b] : b \in DOMAIN sets} = T
    <2>1. Assigned(batches) = UNION {sets[b] : b \in DOMAIN sets}
      BY <1>6 DEF Assigned
    <2>2. Assigned(batches) \subseteq T
      BY <1>2, <1>5, OfAssigned
    <2>3. Assigned(batches) = T
      BY <1>5, <2>2, FS_Subset
    <2>4. QED
      BY <2>1, <2>3
  <1>11. \A b, c \in DOMAIN sets :
            /\ b # c => sets[b] \cap sets[c] = {}
            /\ Cardinality(sets[b]) \in 1 .. TargetSize
            /\ Cardinality(sets[b]) <= Cardinality(sets[c]) + 1
    <2> SUFFICES ASSUME NEW b \in 1 .. n, NEW c \in 1 .. n
                 PROVE  /\ b # c => sets[b] \cap sets[c] = {}
                        /\ Cardinality(sets[b]) \in 1 .. TargetSize
                        /\ Cardinality(sets[b]) <= Cardinality(sets[c]) + 1
      BY <1>6
    <2>1. capacities[b] \in 1 .. TargetSize /\ capacities[b] <= capacities[c] + 1
      BY <1>2
    <2>2. Cardinality(sets[b]) = capacities[b] /\ Cardinality(sets[c]) = capacities[c]
      BY <1>8
    <2>3. QED
      BY <1>9, <2>1, <2>2
  <1>12. sets \in Seq(SUBSET T)
    <2>1. \A b \in 1 .. n : sets[b] \in SUBSET T
      BY <1>6, <1>10
    <2>2. sets = [b \in 1 .. n |-> sets[b]]
      BY <1>6
    <2>3. QED
      BY <1>2, <2>1, <2>2
  <1>13. QED
    BY <1>10, <1>11, <1>12 DEF Partitions

\* A plan that is made is of the tasks that are left, and partitions them.
LEMMA PlanIsMade ==
    ASSUME NEW d \in AllDatasets, NEW run, ~PlanRefused(d, run),
           \A t \in DOMAIN run.tasks : run.report.tasks[t].sha256 \in Contents \cup {NoFile},
           NEW made, made = BatchPlan(d, run, TargetSize)
    PROVE  /\ made \in PlanContents
           /\ DOMAIN made.completed = DOMAIN run.tasks
           /\ DOMAIN made.fingerprint = DOMAIN d
           /\ DOMAIN made.profiles = DOMAIN d \ DOMAIN run.tasks
           /\ Partitions(made.batches, DOMAIN made.profiles)
  <1> DEFINE T == Remaining(d, run)
             all == Profiles(d)
             profiles == [t \in T |-> all[t]]
             batches == AssignBatches(profiles, BatchCapacities(Cardinality(T), TargetSize))
             sets == [b \in DOMAIN batches |-> Range(batches[b])]
  <1>1. /\ T = DOMAIN d \ DOMAIN run.tasks /\ T # {} /\ DOMAIN run.tasks \subseteq DOMAIN d
    BY DEF PlanRefused, Remaining
  <1>2. DOMAIN d \subseteq Nat /\ IsFiniteSet(DOMAIN d) /\ DOMAIN d \subseteq Tasks
    BY DatasetsAssumption DEF Tasks
  <1>3. T \subseteq Nat /\ T \subseteq Tasks /\ IsFiniteSet(T)
    BY <1>1, <1>2, FS_Subset
  <1>4. profiles \in Profiled(T)
    <2>1. all \in [DOMAIN d -> Profile]
      BY ProfilesType
    <2>2. QED
      BY <1>1, <2>1 DEF Profiled
  <1>5. made = [fingerprint |-> Fingerprint(d),
                completed |-> [t \in DOMAIN run.tasks |-> run.report.tasks[t].sha256],
                profiles |-> profiles, batches |-> sets]
    BY DEF BatchPlan
  <1>6. Partitions(sets, T) /\ sets \in Seq(SUBSET T)
    <2>1. batches = AssignBatches(profiles, BatchCapacities(Cardinality(T), TargetSize))
      OBVIOUS
    <2>2. sets = [b \in DOMAIN batches |-> Range(batches[b])]
      OBVIOUS
    <2> HIDE DEF T, profiles, batches, sets
    <2>3. QED
      BY <1>1, <1>3, <1>4, <2>1, <2>2, BatchesPartition
  <1>7. sets \in Seq(SUBSET Tasks)
    <2> HIDE DEF sets, T
    <2> DEFINE n == Len(sets)
    <2>1. sets \in Seq(SUBSET T)
      BY <1>6
    <2>2. n \in Nat /\ sets = [b \in 1 .. n |-> sets[b]] /\ \A b \in 1 .. n : sets[b] \in SUBSET T
      BY <2>1
    <2> HIDE DEF n
    <2>3. \A b \in 1 .. n : sets[b] \in SUBSET Tasks
      BY <1>3, <2>2
    <2>4. QED
      BY <2>2, <2>3
  <1>8. DOMAIN profiles = T /\ profiles \in [T -> Profile]
    BY <1>4 DEF Profiled
  <1> HIDE DEF profiles, sets, batches, T
  <1>9. made.fingerprint = Fingerprint(d) /\ made.profiles = profiles /\ made.batches = sets
        /\ made.completed = [t \in DOMAIN run.tasks |-> run.report.tasks[t].sha256]
    BY <1>5
  <1>10. made.completed \in PerTask(Contents \cup {NoFile})
    <2>1. made.completed \in [DOMAIN run.tasks -> Contents \cup {NoFile}]
      BY <1>9
    <2>2. DOMAIN run.tasks \in SUBSET Tasks
      BY <1>1, <1>2
    <2>3. QED
      BY <2>1, <2>2 DEF PerTask
  <1>11. made.profiles \in PerTask(Profile)
    BY <1>3, <1>8, <1>9 DEF PerTask
  <1>12. DOMAIN made.fingerprint = DOMAIN d
    BY <1>9 DEF Fingerprint
  <1>13. made.fingerprint \in {Fingerprint(e) : e \in AllDatasets}
    BY <1>9
  <1>14. DOMAIN made.completed = DOMAIN run.tasks
    BY <1>9
  <1>15. /\ DOMAIN made.profiles = DOMAIN d \ DOMAIN run.tasks
         /\ Partitions(made.batches, DOMAIN made.profiles)
    BY <1>1, <1>6, <1>8, <1>9
  <1>16. made.batches \in Seq(SUBSET Tasks)
    BY <1>7, <1>9
  <1>17. made = [fingerprint |-> made.fingerprint, completed |-> made.completed,
                 profiles |-> made.profiles, batches |-> made.batches]
    BY <1>5
  <1>18. made \in PlanContents
    BY <1>10, <1>11, <1>13, <1>16, <1>17 DEF PlanContents
  <1>19. QED
    BY <1>12, <1>14, <1>15, <1>18

-----------------------------------------------------------------------------
(***************************************************************************)
(* Run directories and the reports about them.                             *)
(***************************************************************************)

\* A function on some of the tasks.
LEMMA PerTaskOf ==
    ASSUME NEW X, NEW f \in PerTask(X)
    PROVE  DOMAIN f \subseteq Tasks /\ f \in [DOMAIN f -> X]
  <1>1. PICK tasks \in SUBSET Tasks : f \in [tasks -> X]
    BY DEF PerTask
  <1>2. QED
    BY <1>1

\* And what makes one.
LEMMA PerTaskIs ==
    ASSUME NEW X, NEW tasks, tasks \subseteq Tasks, NEW f \in [tasks -> X]
    PROVE  f \in PerTask(X)
  BY DEF PerTask

\* A task directory with one candidate, and one without.
LEMMA CandidateOfDir ==
    /\ \A content \in Contents :
        /\ OneCandidate(content) \in TaskDirs
        /\ HasCandidate(OneCandidate(content)) /\ Candidate(OneCandidate(content)) = content
    /\ NoTasks \in TaskDirs /\ ~HasCandidate(NoTasks)
    /\ \A dir \in TaskDirs : HasCandidate(dir) => Candidate(dir) \in Contents
  <1>1. ASSUME NEW content \in Contents
        PROVE  /\ OneCandidate(content) \in TaskDirs
               /\ HasCandidate(OneCandidate(content)) /\ Candidate(OneCandidate(content)) = content
    <2> DEFINE dir == OneCandidate(content)
    <2>1. DOMAIN dir = {"output.step"} /\ dir["output.step"] = content
      BY DEF OneCandidate
    <2>2. content \notin Unusable
      BY ContentsAssumption
    <2>3. HasCandidate(dir)
      BY <2>1, <2>2 DEF HasCandidate, CandidateNames
    <2>4. (CHOOSE name \in DOMAIN dir : TRUE) = "output.step"
      BY <2>1
    <2>5. QED
      BY <2>1, <2>3, <2>4 DEF Candidate, TaskDirs
  <1>2. DOMAIN NoTasks = {} /\ NoTasks \in TaskDirs
    BY DEF NoTasks, TaskDirs
  <1>3. ~HasCandidate(NoTasks)
    BY <1>2 DEF HasCandidate
  <1>4. ASSUME NEW dir \in TaskDirs, HasCandidate(dir) PROVE Candidate(dir) \in Contents
    <2>1. dir # NoTasks
      BY <1>3, <1>4
    <2>2. PICK content \in Contents : dir = OneCandidate(content)
      BY <2>1 DEF TaskDirs
    <2>3. QED
      BY <1>1, <2>2
  <1>5. QED
    BY <1>1, <1>2, <1>3, <1>4

\* A run's directory, and the candidates in it.
LEMMA RunFields ==
    ASSUME NEW run \in RunDirectory
    PROVE  /\ run.params \in (SUBSET Tasks) \cup {NoFile}
           /\ run.manifest \in RunManifest \cup {NoFile}
           /\ run.config \in (SUBSET Tasks) \cup {NoFile} /\ run.report \in Report \cup {NoFile}
           /\ run.tasks \in PerTask(TaskDirs) /\ DOMAIN run.tasks \subseteq Tasks
           /\ \A t \in DOMAIN run.tasks : run.tasks[t] \in TaskDirs
           /\ Candidates(run) \subseteq DOMAIN run.tasks
           /\ \A t \in Candidates(run) : Candidate(run.tasks[t]) \in Contents
           /\ Accepted(run) \subseteq Candidates(run)
           /\ \A t \in Accepted(run) : Candidate(run.tasks[t]) \in Sound
  <1>1. /\ run.params \in (SUBSET Tasks) \cup {NoFile} /\ run.manifest \in RunManifest \cup {NoFile}
        /\ run.config \in (SUBSET Tasks) \cup {NoFile} /\ run.report \in Report \cup {NoFile}
        /\ run.tasks \in PerTask(TaskDirs)
    BY DEF RunDirectory
  <1>2. DOMAIN run.tasks \subseteq Tasks /\ run.tasks \in [DOMAIN run.tasks -> TaskDirs]
    BY <1>1, PerTaskOf
  <1>3. \A t \in DOMAIN run.tasks : run.tasks[t] \in TaskDirs
    BY <1>2
  <1>4. /\ Candidates(run) \subseteq DOMAIN run.tasks
        /\ \A t \in Candidates(run) : HasCandidate(run.tasks[t])
    BY DEF Candidates
  <1>5. \A t \in Candidates(run) : Candidate(run.tasks[t]) \in Contents
    BY <1>3, <1>4, CandidateOfDir
  <1>6. /\ Accepted(run) \subseteq Candidates(run)
        /\ \A t \in Accepted(run) : Candidate(run.tasks[t]) \in Sound
    BY DEF Accepted
  <1>7. QED
    BY <1>1, <1>2, <1>3, <1>4, <1>5, <1>6

\* What a verification reports.
LEMMA ReportType ==
    ASSUME NEW run \in RunDirectory, NEW expected, expected \subseteq Tasks, NEW sound
    PROVE  /\ VerifyRun(run, expected, sound) \in Report
           /\ DOMAIN VerifyRun(run, expected, sound).tasks = expected
  <1> DEFINE status(t) == TaskStatus(run, t, sound)
             one(t) == [status |-> status(t),
                        sha256 |-> IF status(t) \in {"valid", "invalid"}
                                   THEN Candidate(run.tasks[t]) ELSE NoFile]
             tasks == [t \in expected |-> one(t)]
             complete == \A t \in expected : status(t) # "missing"
             passed == complete /\ \A t \in expected : status(t) # "invalid"
             checked == sound # NoFile
  <1>1. ASSUME NEW t \in expected PROVE one(t) \in ReportedTask
    <2>1. status(t) \in {"missing", "present", "valid", "invalid"}
          /\ (t \notin Candidates(run) => status(t) = "missing")
      BY DEF TaskStatus
    <2>2. t \in Candidates(run) => Candidate(run.tasks[t]) \in Contents
      BY RunFields
    <2> HIDE DEF status
    <2>3. (IF status(t) \in {"valid", "invalid"} THEN Candidate(run.tasks[t]) ELSE NoFile)
             \in Contents \cup {NoFile}
      BY <2>1, <2>2
    <2>4. QED
      BY <2>1, <2>3 DEF ReportedTask
  <1>2. tasks \in PerTask(ReportedTask) /\ DOMAIN tasks = expected
    <2> HIDE DEF one
    <2>1. tasks \in [expected -> ReportedTask]
      BY <1>1
    <2> HIDE DEF tasks
    <2>2. QED
      BY <2>1, PerTaskIs
  <1>3. VerifyRun(run, expected, sound)
          = [scope |-> Scope(run), sanity_checked |-> checked, complete |-> complete,
             passed |-> passed, tasks |-> tasks]
    BY DEF VerifyRun
  <1>4. complete \in BOOLEAN /\ passed \in BOOLEAN /\ checked \in BOOLEAN
        /\ Scope(run) \in {"all", "partial"}
    BY DEF Scope
  <1> HIDE DEF tasks, complete, passed, checked
  <1>5. QED
    BY <1>2, <1>3, <1>4 DEF Report

\* A checked report that passed: every expected task has a candidate that the
\* checker accepted, and its hash.
LEMMA PassedReport ==
    ASSUME NEW run, NEW expected, NEW sound, sound # NoFile,
           VerifyRun(run, expected, sound).passed
    PROVE  /\ \A t \in expected : t \in Candidates(run) /\ t \in sound
           /\ \A t \in expected : VerifyRun(run, expected, sound).tasks[t].sha256
                                    = Candidate(run.tasks[t])
  <1>1. \A t \in expected : TaskStatus(run, t, sound) \notin {"missing", "invalid"}
    BY DEF VerifyRun
  <1>2. ASSUME NEW t \in expected
        PROVE  t \in Candidates(run) /\ t \in sound /\ TaskStatus(run, t, sound) = "valid"
    BY <1>1 DEF TaskStatus
  <1>3. QED
    BY <1>2 DEF VerifyRun

\* One file of a run's directory is rewritten.
LEMMA Rewritten ==
    ASSUME NEW run \in RunDirectory
    PROVE  /\ \A report \in Report :
               /\ [run EXCEPT !.report = report] \in RunDirectory
               /\ [run EXCEPT !.report = report].tasks = run.tasks
               /\ [run EXCEPT !.report = report].config = run.config
               /\ [run EXCEPT !.report = report].params = run.params
               /\ [run EXCEPT !.report = report].manifest = run.manifest
           /\ \A tasks \in PerTask(TaskDirs) :
               /\ [run EXCEPT !.tasks = tasks] \in RunDirectory
               /\ [run EXCEPT !.tasks = tasks].tasks = tasks
               /\ [run EXCEPT !.tasks = tasks].config = run.config
               /\ [run EXCEPT !.tasks = tasks].params = run.params
               /\ [run EXCEPT !.tasks = tasks].manifest = run.manifest
           /\ \A config \in SUBSET Tasks :
               /\ [run EXCEPT !.config = config] \in RunDirectory
               /\ [run EXCEPT !.config = config].tasks = run.tasks
               /\ [run EXCEPT !.config = config].config = config
               /\ [run EXCEPT !.config = config].params = run.params
               /\ [run EXCEPT !.config = config].manifest = run.manifest
  BY DEF RunDirectory

-----------------------------------------------------------------------------
(***************************************************************************)
(* The invariant of module Production.  The plan's id is of a partition of *)
(* what was left, whatever was edited since; a cohort's configuration is   *)
(* the batch that every plan it was run for gives it, with the id of that  *)
(* plan (planned); what a composition or an archive is made of is sound    *)
(* unless it changed behind the program's back (raced).                    *)
(***************************************************************************)

\* The local states of the two programs, and the archive.
Composer == [phase : {"copy"}, from : PerTask(Names), digest : PerTask(Contents)]
Renamed == [phase |-> "again"]
Packager == [phase : {"check", "write"}, run : Names, report : Report, incomplete : BOOLEAN]
Archive == [tasks : SUBSET Tasks, incomplete : BOOLEAN, entries : PerTask(Contents)]

\* What a cohort was run for: a batch of a plan.
Assignment == [id : Seq(SUBSET Tasks), completed : SUBSET Tasks, batch : Nat]

\* The type of module Production.
ProductionTyped ==
    /\ dataset \in AllDatasets
    /\ plan \in Plan \cup {NoFile}
    /\ runs \in [Names -> RunDirectory \cup {NoFile}]
    /\ active \subseteq Cohorts
    /\ composer \in Composer \cup {Idle, Renamed}
    /\ packager \in Packager \cup {Idle}
    /\ archive \in Archive \cup {NoFile}
    /\ raced \subseteq Tasks /\ steady \in BOOLEAN
    /\ planned \in [Cohorts -> SUBSET Assignment]

Exists(r) == runs[r] # NoFile

\* Whatever was edited, the id is the hash of a partition of the tasks that were left.
PlanHolds ==
    plan # NoFile =>
        /\ Partitions(plan.id, DOMAIN plan.contents.profiles)
        /\ DOMAIN plan.contents.profiles
             = DOMAIN plan.contents.fingerprint \ DOMAIN plan.contents.completed

\* What a cohort was run for is what its configuration says, a batch of a
\* partition of what was not completed.
AssignmentHolds(dir, x) ==
    /\ x.batch \in DOMAIN x.id /\ runs[dir].config = x.id[x.batch]
    /\ \A b, c \in DOMAIN x.id : b # c => x.id[b] \cap x.id[c] = {}
    /\ runs[dir].config \cap x.completed = {}

\* A cohort's tasks are those of its configuration.
CohortHolds(dir) ==
    /\ dir \in active \/ planned[dir] # {} => Exists(dir)
    /\ Exists(dir) => /\ runs[dir].config \in SUBSET Tasks
                      /\ DOMAIN runs[dir].tasks \subseteq runs[dir].config
    /\ \A x \in planned[dir] : AssignmentHolds(dir, x)

\* A run that says it is of all the dataset is held to all of it.
RunHolds(r) ==
    Exists(r) =>
        /\ r = Composed => runs[r].manifest # NoFile
        /\ runs[r].manifest # NoFile =>
             /\ runs[r].params \in SUBSET Tasks
             /\ steady /\ runs[r].manifest.all => runs[r].params = DOMAIN dataset

\* What is copied is what was hashed, but for what changed since.
ComposerHolds ==
    /\ composer.phase = "copy" =>
         /\ ~Exists(Composed) /\ DOMAIN composer.digest = DOMAIN composer.from
         /\ \A t \in DOMAIN composer.from :
              /\ Exists(composer.from[t]) /\ t \in DOMAIN runs[composer.from[t]].tasks
              /\ HasCandidate(runs[composer.from[t]].tasks[t]) /\ t \notin raced =>
                     Candidate(runs[composer.from[t]].tasks[t]) = composer.digest[t]
    /\ composer.phase = "again" => Exists(Composed)

\* What is archived was accepted, but for what changed since its last hash.
PackagerHolds ==
    packager.phase # "idle" =>
        /\ Exists(packager.run)
        /\ ~packager.incomplete =>
             /\ steady => DOMAIN packager.report.tasks = DOMAIN dataset
             /\ \A t \in DOMAIN packager.report.tasks : packager.report.tasks[t].sha256 \in Sound
             /\ packager.phase = "write" =>
                  \A t \in (DOMAIN packager.report.tasks
                              \cap Candidates(runs[packager.run])) \ raced :
                      Candidate(runs[packager.run].tasks[t]) \in Sound

ProductionInv ==
    /\ ProductionTyped /\ PlanHolds
    /\ \A c \in Cohorts : CohortHolds(c)
    /\ \A r \in Names : RunHolds(r)
    /\ ComposerHolds /\ PackagerHolds /\ ArchivesAreVerified

\* The files of the runs stay, and what is new among them is sound.
RunsGrow ==
    \A r \in Names : Exists(r) =>
        /\ runs'[r] # NoFile
        /\ \A t \in DOMAIN runs[r].tasks :
               t \in DOMAIN runs'[r].tasks /\ runs'[r].tasks[t] = runs[r].tasks[t]
        /\ \A t \in DOMAIN runs'[r].tasks \ DOMAIN runs[r].tasks :
               Candidate(runs'[r].tasks[t]) \in Sound

\* The runs that are named.
LEMMA NamesAre ==
    /\ Base \in Names /\ Composed \in Names /\ Base # Composed
    /\ Cohorts \subseteq Names /\ Base \notin Cohorts /\ Composed \notin Cohorts
  BY DirectoriesAssumption DEF Names

\* One run's directory changes.
LEMMA OneRunChanges ==
    ASSUME ProductionTyped, NEW r \in Names, NEW new \in RunDirectory,
           runs' = [runs EXCEPT ![r] = new]
    PROVE  /\ runs' \in [Names -> RunDirectory \cup {NoFile}]
           /\ runs'[r] = new /\ new # NoFile /\ \A s \in Names : s # r => runs'[s] = runs[s]
  BY FilesAssumption DEF ProductionTyped

\* A cohort whose directory keeps its tasks and its configuration.
LEMMA CohortKept ==
    ASSUME NEW dir \in Cohorts, CohortHolds(dir), planned'[dir] = planned[dir],
           dir \in active' => dir \in active, Exists(dir)' <=> Exists(dir),
           Exists(dir) => /\ runs'[dir].config = runs[dir].config
                          /\ DOMAIN runs'[dir].tasks = DOMAIN runs[dir].tasks
    PROVE  CohortHolds(dir)'
  BY DEF CohortHolds, AssignmentHolds, Exists

\* The phases of the programs.
LEMMA ProgramPhases ==
    ASSUME ProductionTyped
    PROVE  /\ composer.phase = "copy" => composer \in Composer
           /\ composer = Idle => composer.phase = "idle"
           /\ packager.phase # "idle" => packager \in Packager
           /\ Idle.phase = "idle" /\ Renamed.phase = "again"
  BY DEF ProductionTyped, Composer, Packager, Idle, Renamed

\* A composition in progress is not disturbed by runs that only grow.
LEMMA ComposerKept ==
    ASSUME ProductionInv, RunsGrow, runs[Composed] = NoFile => runs'[Composed] = NoFile,
           composer' = composer, raced' = raced
    PROVE  ComposerHolds'
  <1>1. ASSUME composer.phase = "copy"
        PROVE  /\ runs'[Composed] = NoFile /\ DOMAIN composer.digest = DOMAIN composer.from
               /\ \A t \in DOMAIN composer.from :
                    /\ runs'[composer.from[t]] # NoFile
                    /\ t \in DOMAIN runs'[composer.from[t]].tasks
                    /\ HasCandidate(runs'[composer.from[t]].tasks[t]) /\ t \notin raced =>
                           Candidate(runs'[composer.from[t]].tasks[t]) = composer.digest[t]
    <2>1. composer \in Composer
      BY <1>1, ProgramPhases DEF ProductionInv
    <2>2. composer.from \in PerTask(Names)
      BY <2>1 DEF Composer
    <2>3. \A t \in DOMAIN composer.from : composer.from[t] \in Names
      BY <2>2, PerTaskOf
    <2>4. /\ ~Exists(Composed) /\ DOMAIN composer.digest = DOMAIN composer.from
          /\ \A t \in DOMAIN composer.from :
              /\ Exists(composer.from[t]) /\ t \in DOMAIN runs[composer.from[t]].tasks
              /\ HasCandidate(runs[composer.from[t]].tasks[t]) /\ t \notin raced =>
                     Candidate(runs[composer.from[t]].tasks[t]) = composer.digest[t]
      BY <1>1 DEF ProductionInv, ComposerHolds
    <2>5. QED
      BY <2>3, <2>4 DEF RunsGrow, Exists
  <1>2. composer.phase = "again" => runs'[Composed] # NoFile
    BY NamesAre DEF ProductionInv, ComposerHolds, RunsGrow, Exists
  <1>3. QED
    BY <1>1, <1>2 DEF ComposerHolds, Exists

\* Nor is the making of an archive.
LEMMA PackagerKept ==
    ASSUME ProductionInv, RunsGrow, packager' = packager, raced' = raced,
           steady' => steady /\ dataset' = dataset
    PROVE  PackagerHolds'
  <1> SUFFICES ASSUME packager.phase # "idle"
               PROVE  /\ runs'[packager.run] # NoFile
                      /\ ~packager.incomplete =>
                           /\ steady' => DOMAIN packager.report.tasks = DOMAIN dataset'
                           /\ \A t \in DOMAIN packager.report.tasks :
                                  packager.report.tasks[t].sha256 \in Sound
                           /\ packager.phase = "write" =>
                                \A t \in (DOMAIN packager.report.tasks
                                            \cap Candidates(runs'[packager.run])) \ raced :
                                    Candidate(runs'[packager.run].tasks[t]) \in Sound
    BY DEF PackagerHolds, Exists, Candidates
  <1>1. packager \in Packager /\ packager.run \in Names
    BY ProgramPhases DEF ProductionInv, Packager
  <1>2. /\ Exists(packager.run)
        /\ ~packager.incomplete =>
             /\ steady => DOMAIN packager.report.tasks = DOMAIN dataset
             /\ \A t \in DOMAIN packager.report.tasks : packager.report.tasks[t].sha256 \in Sound
             /\ packager.phase = "write" =>
                  \A t \in (DOMAIN packager.report.tasks
                              \cap Candidates(runs[packager.run])) \ raced :
                      Candidate(runs[packager.run].tasks[t]) \in Sound
    BY DEF ProductionInv, PackagerHolds
  <1>3. runs'[packager.run] # NoFile
    BY <1>1, <1>2 DEF RunsGrow
  <1>4. ASSUME ~packager.incomplete, packager.phase = "write",
               NEW t \in DOMAIN packager.report.tasks, t \notin raced,
               t \in Candidates(runs'[packager.run])
        PROVE  Candidate(runs'[packager.run].tasks[t]) \in Sound
    <2>1. t \in DOMAIN runs'[packager.run].tasks /\ HasCandidate(runs'[packager.run].tasks[t])
      BY <1>4 DEF Candidates
    <2>2. CASE t \in DOMAIN runs[packager.run].tasks
      <3>1. runs'[packager.run].tasks[t] = runs[packager.run].tasks[t]
        BY <1>1, <1>2, <2>2 DEF RunsGrow
      <3>2. t \in Candidates(runs[packager.run])
        BY <2>1, <2>2, <3>1 DEF Candidates
      <3>3. QED
        BY <1>2, <1>4, <3>1, <3>2
    <2>3. CASE t \notin DOMAIN runs[packager.run].tasks
      BY <1>1, <1>2, <2>1, <2>3 DEF RunsGrow
    <2>4. QED
      BY <2>2, <2>3
  <1>5. QED
    BY <1>2, <1>3, <1>4

-----------------------------------------------------------------------------
(***************************************************************************)
(* Every action keeps it.                                                  *)
(***************************************************************************)

\* Nothing of the runs is rewritten but what is not read here.
LEMMA RunsAreKept ==
    ASSUME ProductionInv, UNCHANGED runs
    PROVE  RunsGrow
  BY DEF RunsGrow, Exists

\* A plan is made.
LEMMA CreatePlanKeeps ==
    ASSUME ProductionInv, NEW r \in Completed, CreatePlan(r)
    PROVE  ProductionInv'
  <1> DEFINE made == BatchPlan(dataset, runs[r], TargetSize)
  <1> USE DEF Exists
  <1>1. /\ ProductionTyped /\ r \in Names /\ runs[r] # NoFile /\ ~PlanRefused(dataset, runs[r])
        /\ plan' = [contents |-> made, id |-> made.batches, of |-> dataset]
        /\ UNCHANGED <<dataset, runs, active, composer, packager, archive, changes, raced, steady,
                       planned>>
    BY DirectoriesAssumption DEF CreatePlan, ProductionInv, programs, history
  <1>2. dataset \in AllDatasets /\ runs[r] \in RunDirectory
    BY <1>1 DEF ProductionTyped
  <1>3. \A t \in DOMAIN runs[r].tasks : runs[r].report.tasks[t].sha256 \in Contents \cup {NoFile}
    <2>1. runs[r].report # NoFile /\ DOMAIN runs[r].tasks \subseteq DOMAIN runs[r].report.tasks
      BY <1>1 DEF PlanRefused, Evidenced, Passed
    <2>2. runs[r].report \in Report
      BY <1>2, <2>1, RunFields
    <2>3. runs[r].report.tasks \in PerTask(ReportedTask)
      BY <2>2 DEF Report
    <2>4. \A t \in DOMAIN runs[r].report.tasks : runs[r].report.tasks[t] \in ReportedTask
      BY <2>3, PerTaskOf
    <2>5. QED
      BY <2>1, <2>4 DEF ReportedTask
  <1>4. /\ made \in PlanContents
        /\ DOMAIN made.completed = DOMAIN runs[r].tasks
        /\ DOMAIN made.fingerprint = DOMAIN dataset
        /\ DOMAIN made.profiles = DOMAIN dataset \ DOMAIN runs[r].tasks
        /\ Partitions(made.batches, DOMAIN made.profiles)
    <2>1. made = BatchPlan(dataset, runs[r], TargetSize)
      OBVIOUS
    <2> HIDE DEF made
    <2>2. QED
      BY <1>1, <1>2, <1>3, <2>1, PlanIsMade
  <1> HIDE DEF made
  <1>5. plan' \in Plan /\ plan' # NoFile
    BY <1>1, <1>2, <1>4, FilesAssumption DEF Plan, PlanContents
  <1>6. ProductionTyped'
    BY <1>1, <1>5 DEF ProductionTyped
  <1>7. PlanHolds'
    <2>1. plan'.contents = made /\ plan'.id = made.batches
      BY <1>1
    <2>2. QED
      BY <1>4, <2>1 DEF PlanHolds
  <1>8. ASSUME NEW c \in Cohorts PROVE CohortHolds(c)'
    BY <1>1, CohortKept DEF ProductionInv
  <1>9. \A s \in Names : RunHolds(s)'
    BY <1>1 DEF ProductionInv, RunHolds
  <1>10. ComposerHolds' /\ PackagerHolds'
    BY <1>1, RunsAreKept, ComposerKept, PackagerKept
  <1>11. ArchivesAreVerified'
    BY <1>1 DEF ProductionInv, ArchivesAreVerified
  <1>12. QED
    BY <1>6, <1>7, <1>8, <1>9, <1>10, <1>11 DEF ProductionInv

\* A cohort is started for a batch, or started again.
LEMMA RunBatchKeeps ==
    ASSUME ProductionInv, NEW b \in Batches, NEW dir \in Cohorts, RunBatch(b, dir)
    PROVE  ProductionInv'
  <1> USE DEF Exists
  <1> DEFINE fixtures == plan.contents.batches[b]
             fresh == [params |-> NoFile, manifest |-> NoFile, config |-> fixtures,
                       report |-> NoFile, tasks |-> NoTasks]
             new == IF runs[dir] # NoFile THEN [runs[dir] EXCEPT !.config = fixtures] ELSE fresh
             given == [id |-> plan.id, completed |-> DOMAIN plan.contents.completed, batch |-> b]
  <1>1. /\ ProductionTyped /\ plan # NoFile /\ plan.id = plan.contents.batches
        /\ b \in DOMAIN plan.contents.batches /\ Admits(runs[dir], fixtures)
        /\ active' = active \cup {dir} /\ runs' = [runs EXCEPT ![dir] = new]
        /\ planned' = [planned EXCEPT ![dir] = @ \cup {given}]
        /\ UNCHANGED <<dataset, plan, composer, packager, archive, changes, raced, steady>>
    BY DEF RunBatch, ProductionInv, programs, Loadable, Batches
  <1>2. dir \in Names /\ dir # Base /\ dir # Composed
    BY NamesAre
  <1>3. fixtures \in SUBSET Tasks /\ fixtures = plan.id[b] /\ b \in DOMAIN plan.id
    BY <1>1 DEF ProductionTyped, Plan, PlanContents
  <1> HIDE DEF fixtures
  <1>4. /\ given \in Assignment /\ given.batch \in DOMAIN given.id
        /\ given.id[given.batch] = fixtures /\ fixtures \cap given.completed = {}
        /\ \A c, d \in DOMAIN given.id : c # d => given.id[c] \cap given.id[d] = {}
    <2>1. plan \in Plan /\ plan.contents \in PlanContents
      BY <1>1 DEF ProductionTyped, Plan
    <2>2. DOMAIN plan.contents.completed \subseteq Tasks
      <3>1. plan.contents.completed \in PerTask(Contents \cup {NoFile})
        BY <2>1 DEF PlanContents
      <3>2. QED
        BY <3>1, PerTaskOf
    <2>3. plan.id \in Seq(SUBSET Tasks) /\ b \in Nat
      BY <1>3, <2>1 DEF Plan
    <2>4. /\ \A c, d \in DOMAIN plan.id : c # d => plan.id[c] \cap plan.id[d] = {}
          /\ plan.id[b] \cap DOMAIN plan.contents.completed = {}
      BY <1>1, <1>3 DEF ProductionInv, PlanHolds, Partitions
    <2>5. QED
      BY <1>3, <2>2, <2>3, <2>4 DEF Assignment
  <1> HIDE DEF given
  <1>5. /\ new \in RunDirectory /\ new.config = fixtures
        /\ DOMAIN new.tasks \subseteq fixtures
        /\ runs[dir] # NoFile => new.tasks = runs[dir].tasks /\ new.manifest = runs[dir].manifest
                                 /\ new.params = runs[dir].params
        /\ runs[dir] = NoFile => new.manifest = NoFile
    <2>1. CASE runs[dir] # NoFile
      <3>1. runs[dir] \in RunDirectory
        BY <1>1, <1>2, <2>1 DEF ProductionTyped
      <3>2. runs[dir].config = fixtures
        BY <1>1, <2>1 DEF Admits
      <3>3. DOMAIN runs[dir].tasks \subseteq fixtures
        BY <2>1, <3>2 DEF ProductionInv, CohortHolds
      <3>4. new = [runs[dir] EXCEPT !.config = fixtures]
        BY <2>1
      <3> HIDE DEF new
      <3>5. QED
        BY <1>3, <2>1, <3>1, <3>3, <3>4, Rewritten
    <2>2. CASE runs[dir] = NoFile
      <3>1. NoTasks \in [{} -> TaskDirs] /\ DOMAIN NoTasks = {}
        BY DEF NoTasks
      <3>2. NoTasks \in PerTask(TaskDirs)
        BY <3>1, PerTaskIs
      <3>3. fresh \in RunDirectory
        BY <1>3, <3>2 DEF RunDirectory
      <3>4. QED
        BY <2>2, <3>1, <3>3
    <2>3. QED
      BY <2>1, <2>2
  <1> HIDE DEF new
  <1>6. /\ runs' \in [Names -> RunDirectory \cup {NoFile}]
        /\ runs'[dir] = new /\ new # NoFile /\ \A s \in Names : s # dir => runs'[s] = runs[s]
    BY <1>1, <1>2, <1>5, OneRunChanges
  <1>7. ProductionTyped'
    <2>1. planned' \in [Cohorts -> SUBSET Assignment]
      BY <1>1, <1>4 DEF ProductionTyped
    <2>2. QED
      BY <1>1, <1>2, <1>6, <2>1 DEF ProductionTyped
  <1>8. PlanHolds'
    BY <1>1 DEF ProductionInv, PlanHolds
  <1>9. ASSUME NEW c \in Cohorts PROVE CohortHolds(c)'
    <2>1. CASE c = dir
      <3>1. runs'[dir] # NoFile /\ runs'[dir].config = fixtures
            /\ DOMAIN runs'[dir].tasks \subseteq fixtures
        BY <1>5, <1>6
      <3>2. ASSUME NEW x \in planned'[dir] PROVE AssignmentHolds(dir, x)'
        <4>1. CASE x = given
          BY <1>4, <3>1, <4>1 DEF AssignmentHolds
        <4>2. CASE x \in planned[dir]
          <5>1. runs[dir] # NoFile /\ AssignmentHolds(dir, x)
            BY <4>2 DEF ProductionInv, CohortHolds
          <5>2. runs[dir].config = fixtures
            BY <1>1, <5>1 DEF Admits
          <5>3. QED
            BY <3>1, <5>1, <5>2 DEF AssignmentHolds
        <4>3. x = given \/ x \in planned[dir]
          BY <1>1, <3>2 DEF ProductionTyped
        <4>4. QED
          BY <4>1, <4>2, <4>3
      <3>3. QED
        BY <1>3, <2>1, <3>1, <3>2 DEF CohortHolds
    <2>2. CASE c # dir
      <3>1. /\ runs'[c] = runs[c] /\ planned'[c] = planned[c]
            /\ c \in active' => c \in active
        BY <1>1, <1>6, <2>2, NamesAre DEF ProductionTyped
      <3>2. QED
        BY <3>1, CohortKept DEF ProductionInv
    <2>3. QED
      BY <2>1, <2>2
  <1>10. ASSUME NEW s \in Names PROVE RunHolds(s)'
    <2>1. CASE s = dir
      BY <1>1, <1>2, <1>5, <1>6, <2>1 DEF ProductionInv, RunHolds
    <2>2. CASE s # dir
      BY <1>1, <1>6, <2>2 DEF ProductionInv, RunHolds
    <2>3. QED
      BY <2>1, <2>2
  <1>11. RunsGrow
    BY <1>5, <1>6 DEF RunsGrow
  <1>12. ComposerHolds' /\ PackagerHolds'
    <2>1. runs'[Composed] = runs[Composed]
      BY <1>2, <1>6, NamesAre
    <2>2. QED
      BY <1>1, <1>11, <2>1, ComposerKept, PackagerKept
  <1>13. ArchivesAreVerified'
    BY <1>1 DEF ProductionInv, ArchivesAreVerified
  <1>14. QED
    BY <1>7, <1>8, <1>9, <1>10, <1>12, <1>13 DEF ProductionInv

\* At most the report of a run is rewritten.
OnlyReports ==
    \A r \in Names :
        /\ Exists(r)' <=> Exists(r)
        /\ Exists(r) => /\ runs'[r].tasks = runs[r].tasks /\ runs'[r].config = runs[r].config
                        /\ runs'[r].params = runs[r].params /\ runs'[r].manifest = runs[r].manifest

\* Reports are not what the invariant is about.
LEMMA ReportsKeep ==
    ASSUME ProductionInv, OnlyReports, UNCHANGED <<plan, active, planned>>,
           steady' => steady /\ dataset' = dataset
    PROVE  /\ RunsGrow /\ PlanHolds'
           /\ \A c \in Cohorts : CohortHolds(c)'
           /\ \A r \in Names : RunHolds(r)'
  <1> USE DEF Exists
  <1>1. RunsGrow
    BY DEF OnlyReports, RunsGrow
  <1>2. PlanHolds'
    BY DEF ProductionInv, PlanHolds
  <1>3. ASSUME NEW c \in Cohorts PROVE CohortHolds(c)'
    <2>1. c \in Names /\ CohortHolds(c)
      BY NamesAre DEF ProductionInv
    <2>2. QED
      BY <2>1, CohortKept DEF OnlyReports
  <1>4. ASSUME NEW r \in Names PROVE RunHolds(r)'
    <2>1. RunHolds(r)
      BY DEF ProductionInv
    <2>2. QED
      BY <2>1 DEF RunHolds, OnlyReports
  <1>5. QED
    BY <1>1, <1>2, <1>3, <1>4

\* A cohort publishes a candidate.
LEMMA PublishKeeps ==
    ASSUME ProductionInv, NEW dir \in Cohorts, NEW t, NEW content \in Sound,
           Publish(dir, t, content)
    PROVE  ProductionInv'
  <1> USE DEF Exists
  <1> DEFINE old == runs[dir].tasks
             tasks == [s \in DOMAIN old \cup {t} |->
                         IF s = t THEN OneCandidate(content) ELSE old[s]]
             new == [runs[dir] EXCEPT !.tasks = tasks]
  <1>1. /\ ProductionTyped /\ dir \in active /\ t \in runs[dir].config /\ t \notin DOMAIN old
        /\ runs' = [runs EXCEPT ![dir] = new]
        /\ UNCHANGED <<dataset, plan, active, composer, packager, archive, changes, raced, steady,
                       planned>>
    BY DEF Publish, ProductionInv, programs, history
  <1>2. dir \in Names /\ dir # Base /\ dir # Composed
    BY NamesAre
  <1>3. /\ runs[dir] # NoFile /\ runs[dir].config \in SUBSET Tasks
        /\ DOMAIN old \subseteq runs[dir].config
    BY <1>1 DEF ProductionInv, CohortHolds
  <1>4. runs[dir] \in RunDirectory
    BY <1>1, <1>2, <1>3 DEF ProductionTyped
  <1>5. /\ tasks \in PerTask(TaskDirs) /\ DOMAIN tasks = DOMAIN old \cup {t}
        /\ \A s \in DOMAIN old : tasks[s] = old[s]
        /\ Candidate(tasks[t]) \in Sound
    <2>1. content \in Contents
      BY ContentsAssumption
    <2>2. OneCandidate(content) \in TaskDirs /\ Candidate(OneCandidate(content)) = content
      BY <2>1, CandidateOfDir
    <2>3. DOMAIN old \subseteq Tasks /\ \A s \in DOMAIN old : old[s] \in TaskDirs
      BY <1>4, RunFields
    <2>4. tasks \in [DOMAIN old \cup {t} -> TaskDirs]
      BY <2>2, <2>3
    <2>5. DOMAIN old \cup {t} \subseteq Tasks
      BY <1>1, <1>3
    <2>6. \A s \in DOMAIN old : tasks[s] = old[s]
      BY <1>1
    <2>7. tasks \in PerTask(TaskDirs)
      <3> HIDE DEF tasks, old
      <3>1. QED
        BY <2>4, <2>5, PerTaskIs
    <2>8. QED
      BY <2>2, <2>4, <2>6, <2>7
  <1> HIDE DEF tasks
  <1>6. /\ new \in RunDirectory /\ new.tasks = tasks /\ new.config = runs[dir].config
        /\ new.params = runs[dir].params /\ new.manifest = runs[dir].manifest
    BY <1>4, <1>5, Rewritten
  <1> HIDE DEF new
  <1>7. /\ runs' \in [Names -> RunDirectory \cup {NoFile}]
        /\ runs'[dir] = new /\ new # NoFile /\ \A s \in Names : s # dir => runs'[s] = runs[s]
    BY <1>1, <1>2, <1>6, OneRunChanges
  <1>8. runs'[Base] = runs[Base] /\ runs'[Composed] = runs[Composed]
    BY <1>2, <1>7, NamesAre
  <1>9. ProductionTyped'
    BY <1>1, <1>7 DEF ProductionTyped
  <1>10. PlanHolds'
    BY <1>1 DEF ProductionInv, PlanHolds
  <1>11. ASSUME NEW c \in Cohorts PROVE CohortHolds(c)'
    <2>1. CASE c = dir
      BY <1>1, <1>3, <1>5, <1>6, <1>7, <2>1 DEF ProductionInv, CohortHolds, AssignmentHolds
    <2>2. CASE c # dir
      BY <1>1, <1>7, <2>2, NamesAre, CohortKept DEF ProductionInv
    <2>3. QED
      BY <2>1, <2>2
  <1>12. ASSUME NEW s \in Names PROVE RunHolds(s)'
    <2>1. CASE s = dir
      BY <1>1, <1>2, <1>3, <1>6, <1>7, <2>1 DEF ProductionInv, RunHolds
    <2>2. CASE s # dir
      BY <1>1, <1>7, <2>2 DEF ProductionInv, RunHolds
    <2>3. QED
      BY <2>1, <2>2
  <1>13. RunsGrow
    <2>1. ASSUME NEW r \in Names, runs[r] # NoFile
          PROVE  /\ runs'[r] # NoFile
                 /\ \A s \in DOMAIN runs[r].tasks :
                        s \in DOMAIN runs'[r].tasks /\ runs'[r].tasks[s] = runs[r].tasks[s]
                 /\ \A s \in DOMAIN runs'[r].tasks \ DOMAIN runs[r].tasks :
                        Candidate(runs'[r].tasks[s]) \in Sound
      <3>1. CASE r = dir
        BY <1>5, <1>6, <1>7, <3>1
      <3>2. CASE r # dir
        BY <1>7, <2>1, <3>2
      <3>3. QED
        BY <3>1, <3>2
    <2>2. QED
      BY <2>1 DEF RunsGrow
  <1>14. ComposerHolds' /\ PackagerHolds'
    BY <1>1, <1>8, <1>13, ComposerKept, PackagerKept
  <1>15. ArchivesAreVerified'
    BY <1>1 DEF ProductionInv, ArchivesAreVerified
  <1>16. QED
    BY <1>9, <1>10, <1>11, <1>12, <1>14, <1>15 DEF ProductionInv

\* A cohort ends.
LEMMA CohortEndsKeeps ==
    ASSUME ProductionInv, NEW dir \in Cohorts, CohortEnds(dir)
    PROVE  ProductionInv'
  <1> USE DEF Exists
  <1> DEFINE fixtures == runs[dir].config
             manifest == [all |-> fixtures = DOMAIN dataset, fixtures |-> fixtures]
             told == [runs[dir] EXCEPT !.params = fixtures, !.manifest = manifest]
             report == VerifyRun(told, fixtures, Accepted(told))
             new == [told EXCEPT !.report = report]
  <1>1. /\ ProductionTyped /\ dir \in active /\ active' = active \ {dir}
        /\ runs' = [runs EXCEPT ![dir] = new]
        /\ UNCHANGED <<dataset, plan, composer, packager, archive, changes, raced, steady,
                       planned>>
    BY DEF CohortEnds, ProductionInv, programs, history
  <1>2. dir \in Names /\ dir # Base /\ dir # Composed
    BY NamesAre
  <1>3. /\ runs[dir] # NoFile /\ fixtures \in SUBSET Tasks
        /\ DOMAIN runs[dir].tasks \subseteq fixtures
    BY <1>1 DEF ProductionInv, CohortHolds
  <1>4. runs[dir] \in RunDirectory
    BY <1>1, <1>2, <1>3 DEF ProductionTyped
  <1>5. manifest \in RunManifest
    BY <1>3 DEF RunManifest
  <1>6. /\ told \in RunDirectory /\ told.tasks = runs[dir].tasks /\ told.config = fixtures
        /\ told.params = fixtures /\ told.manifest = manifest
    <2> HIDE DEF manifest
    <2>1. QED
      BY <1>3, <1>4, <1>5 DEF RunDirectory
  <1> HIDE DEF told
  <1>7. report \in Report
    BY <1>3, <1>6, ReportType
  <1> HIDE DEF report
  <1>8. /\ new \in RunDirectory /\ new.tasks = runs[dir].tasks /\ new.config = fixtures
        /\ new.params = fixtures /\ new.manifest = manifest
    BY <1>6, <1>7, Rewritten
  <1> HIDE DEF new
  <1>9. /\ runs' \in [Names -> RunDirectory \cup {NoFile}]
         /\ runs'[dir] = new /\ new # NoFile /\ \A s \in Names : s # dir => runs'[s] = runs[s]
    BY <1>1, <1>2, <1>8, OneRunChanges
  <1>10. runs'[Base] = runs[Base] /\ runs'[Composed] = runs[Composed]
    BY <1>2, <1>9, NamesAre
  <1>11. ProductionTyped'
    BY <1>1, <1>9 DEF ProductionTyped
  <1>12. PlanHolds'
    BY <1>1 DEF ProductionInv, PlanHolds
  <1>13. ASSUME NEW c \in Cohorts PROVE CohortHolds(c)'
    <2>1. CASE c = dir
      BY <1>1, <1>3, <1>8, <1>9, <2>1, CohortKept DEF ProductionInv
    <2>2. CASE c # dir
      BY <1>1, <1>9, <2>2, NamesAre, CohortKept DEF ProductionInv
    <2>3. QED
      BY <2>1, <2>2
  <1>14. ASSUME NEW s \in Names PROVE RunHolds(s)'
    <2>1. CASE s = dir
      <3>1. manifest.all => fixtures = DOMAIN dataset
        OBVIOUS
      <3>2. QED
        BY <1>1, <1>2, <1>3, <1>8, <1>9, <2>1, <3>1 DEF RunHolds
    <2>2. CASE s # dir
      BY <1>1, <1>9, <2>2 DEF ProductionInv, RunHolds
    <2>3. QED
      BY <2>1, <2>2
  <1>15. RunsGrow
    BY <1>8, <1>9 DEF RunsGrow
  <1>16. ComposerHolds' /\ PackagerHolds'
    BY <1>1, <1>10, <1>15, ComposerKept, PackagerKept
  <1>17. ArchivesAreVerified'
    BY <1>1 DEF ProductionInv, ArchivesAreVerified
  <1>18. QED
    BY <1>11, <1>12, <1>13, <1>14, <1>16, <1>17 DEF ProductionInv

\* A composition is chosen.
LEMMA SelectKeeps ==
    ASSUME ProductionInv, NEW sources \in Sources, Select(sources)
    PROVE  ProductionInv'
  <1> USE DEF Exists
  <1>1. /\ ProductionTyped /\ sources \subseteq Names /\ runs[Composed] = NoFile
        /\ \A s \in sources : runs[s] # NoFile
        /\ Offered(sources) # {}
        /\ UNCHANGED <<dataset, plan, runs, active, packager, archive, changes, raced, steady,
                       planned>>
    BY DirectoriesAssumption DEF Select, ProductionInv, history
  <1>2. PICK chosen \in [Offered(sources) -> sources] :
            /\ \A t \in DOMAIN chosen : chosen[t] \in Offering(sources, t)
            /\ composer' = [phase |-> "copy", from |-> chosen,
                            digest |-> [t \in DOMAIN chosen |-> Digest(chosen[t], t)]]
    BY DEF Select
  <1> DEFINE digest == [t \in DOMAIN chosen |-> Digest(chosen[t], t)]
  <1>3. \A s \in sources : runs[s] \in RunDirectory
    BY <1>1 DEF ProductionTyped
  <1>4. ASSUME NEW t \in DOMAIN chosen
        PROVE  /\ chosen[t] \in sources /\ t \in Candidates(runs[chosen[t]])
               /\ t \in DOMAIN runs[chosen[t]].tasks
               /\ Digest(chosen[t], t) = Candidate(runs[chosen[t]].tasks[t])
               /\ Digest(chosen[t], t) \in Contents
    <2>1. chosen[t] \in sources /\ t \in Candidates(runs[chosen[t]])
      BY <1>2 DEF Offering
    <2>2. /\ Candidates(runs[chosen[t]]) \subseteq DOMAIN runs[chosen[t]].tasks
          /\ \A u \in Candidates(runs[chosen[t]]) : Candidate(runs[chosen[t]].tasks[u]) \in Contents
      BY <1>3, <2>1, RunFields
    <2>3. QED
      BY <2>1, <2>2 DEF Digest
  <1>5. DOMAIN chosen = Offered(sources) /\ Offered(sources) \subseteq Tasks
    <2>1. \A s \in sources : Candidates(runs[s]) \subseteq Tasks
      <3>1. ASSUME NEW s \in sources PROVE Candidates(runs[s]) \subseteq Tasks
        <4>1. /\ Candidates(runs[s]) \subseteq DOMAIN runs[s].tasks
              /\ DOMAIN runs[s].tasks \subseteq Tasks
          BY <1>3, RunFields
        <4>2. QED
          BY <4>1
      <3>2. QED
        BY <3>1
    <2>2. QED
      BY <1>2, <2>1 DEF Offered
  <1>6. composer' \in Composer /\ composer'.phase = "copy" /\ composer'.from = chosen
        /\ composer'.digest = digest
    <2>1. chosen \in [DOMAIN chosen -> Names]
      BY <1>1, <1>2
    <2>2. digest \in [DOMAIN chosen -> Contents]
      BY <1>4
    <2>3. composer' = [phase |-> "copy", from |-> chosen, digest |-> digest]
      BY <1>2
    <2> HIDE DEF digest
    <2>4. chosen \in PerTask(Names) /\ digest \in PerTask(Contents)
      BY <1>5, <2>1, <2>2, PerTaskIs
    <2>5. QED
      BY <2>3, <2>4 DEF Composer
  <1>7. ProductionTyped'
    BY <1>1, <1>6 DEF ProductionTyped
  <1>8. OnlyReports
    BY <1>1 DEF OnlyReports
  <1>9. /\ RunsGrow /\ PlanHolds' /\ \A c \in Cohorts : CohortHolds(c)'
        /\ \A r \in Names : RunHolds(r)'
    BY <1>1, <1>8, ReportsKeep
  <1>10. ComposerHolds'
    <2>1. DOMAIN digest = DOMAIN chosen /\ \A t \in DOMAIN chosen : digest[t] = Digest(chosen[t], t)
      OBVIOUS
    <2> HIDE DEF digest
    <2>2. QED
      BY <1>1, <1>4, <1>6, <2>1 DEF ComposerHolds
  <1>11. PackagerHolds'
    BY <1>1, <1>9, PackagerKept
  <1>12. ArchivesAreVerified'
    BY <1>1 DEF ProductionInv, ArchivesAreVerified
  <1>13. QED
    BY <1>7, <1>9, <1>10, <1>11, <1>12 DEF ProductionInv

\* What is staged from candidates that are there.
LEMMA StagedType ==
    ASSUME ProductionInv, composer.phase = "copy", NEW given \in BOOLEAN,
           \A t \in DOMAIN composer.from : t \in Candidates(runs[composer.from[t]])
    PROVE  /\ Staged(given) \in RunDirectory
           /\ Staged(given).params = DOMAIN composer.from
           /\ DOMAIN Staged(given).tasks = DOMAIN composer.from
           /\ DOMAIN composer.from \subseteq Tasks
           /\ Staged(given).manifest # NoFile
           /\ Staged(given).manifest.all => DOMAIN composer.from = DOMAIN dataset
           /\ \A t \in DOMAIN composer.from :
                 /\ Candidate(Staged(given).tasks[t]) = Candidate(runs[composer.from[t]].tasks[t])
                 /\ t \in Candidates(Staged(given))
  <1> DEFINE tasks == DOMAIN composer.from
             copies == [t \in tasks |-> OneCandidate(Digest(composer.from[t], t))]
             manifest == [all |-> given /\ tasks = DOMAIN dataset, fixtures |-> tasks]
  <1>1. composer.from \in PerTask(Names)
    BY ProgramPhases DEF ProductionInv, Composer
  <1>2. tasks \subseteq Tasks /\ \A t \in tasks : composer.from[t] \in Names
    BY <1>1, PerTaskOf
  <1>3. ASSUME NEW t \in tasks
        PROVE  /\ Digest(composer.from[t], t) = Candidate(runs[composer.from[t]].tasks[t])
               /\ Digest(composer.from[t], t) \in Contents
    <2>1. t \in Candidates(runs[composer.from[t]])
      OBVIOUS
    <2>2. runs[composer.from[t]] \in RunDirectory
      BY <1>2 DEF ProductionInv, ProductionTyped, ComposerHolds, Exists
    <2>3. \A u \in Candidates(runs[composer.from[t]]) :
              Candidate(runs[composer.from[t]].tasks[u]) \in Contents
      BY <2>2, RunFields
    <2>4. QED
      BY <2>1, <2>3 DEF Digest
  <1>4. ASSUME NEW t \in tasks
        PROVE  /\ OneCandidate(Digest(composer.from[t], t)) \in TaskDirs
               /\ HasCandidate(OneCandidate(Digest(composer.from[t], t)))
               /\ Candidate(OneCandidate(Digest(composer.from[t], t)))
                    = Candidate(runs[composer.from[t]].tasks[t])
    BY <1>3, CandidateOfDir
  <1>5. /\ copies \in [tasks -> TaskDirs]
        /\ \A t \in tasks : /\ HasCandidate(copies[t])
                            /\ Candidate(copies[t]) = Candidate(runs[composer.from[t]].tasks[t])
    BY <1>4
  <1>6. Staged(given) = [params |-> tasks, config |-> NoFile, report |-> NoFile,
                         manifest |-> manifest, tasks |-> copies]
    BY DEF Staged
  <1> HIDE DEF copies, tasks
  <1>7. copies \in PerTask(TaskDirs) /\ DOMAIN copies = tasks
    BY <1>2, <1>5, PerTaskIs
  <1>8. manifest \in RunManifest /\ manifest # NoFile /\ (manifest.all => tasks = DOMAIN dataset)
    <2> DEFINE all == given /\ tasks = DOMAIN dataset
    <2>1. all \in BOOLEAN /\ (all => tasks = DOMAIN dataset)
      OBVIOUS
    <2>2. manifest = [all |-> all, fixtures |-> tasks]
      OBVIOUS
    <2> HIDE DEF all, manifest
    <2>3. QED
      BY <1>2, <2>1, <2>2, FilesAssumption DEF RunManifest
  <1> HIDE DEF manifest
  <1>9. /\ Staged(given) \in RunDirectory /\ Staged(given).tasks = copies
        /\ Staged(given).params = tasks /\ Staged(given).manifest = manifest
    BY <1>2, <1>6, <1>7, <1>8 DEF RunDirectory
  <1>10. \A t \in tasks : t \in Candidates(Staged(given))
    BY <1>5, <1>7, <1>9 DEF Candidates
  <1>11. QED
    BY <1>2, <1>5, <1>7, <1>8, <1>9, <1>10 DEF tasks

\* A composition is copied, verified and published, or removed.
LEMMA PublishCompositionKeeps ==
    ASSUME ProductionInv, NEW given \in BOOLEAN, NEW timeout \in BOOLEAN,
           PublishComposition(given, timeout)
    PROVE  ProductionInv'
  <1> USE DEF Exists
  <1> DEFINE gone == \E t \in DOMAIN composer.from : t \notin Candidates(runs[composer.from[t]])
             staged == Staged(given)
             report == VerifyRun(staged, staged.params, Verdict(staged, timeout))
             new == [staged EXCEPT !.report = report]
  <1>1. /\ ProductionTyped /\ composer.phase = "copy" /\ runs[Composed] = NoFile
        /\ UNCHANGED <<dataset, plan, active, packager, archive, changes, raced, steady,
                       planned>>
    BY DEF PublishComposition, ProductionInv, ComposerHolds, history
  <1>2. \/ ~gone /\ report.passed /\ runs' = [runs EXCEPT ![Composed] = new] /\ composer' = Renamed
        \/ composer' = Idle /\ UNCHANGED runs
    BY DEF PublishComposition, Renamed
  <1>3. composer'.phase # "copy" /\ composer' \in {Idle, Renamed}
    BY <1>2 DEF Idle, Renamed
  <1>4. CASE composer' = Idle /\ UNCHANGED runs
    <2>1. ProductionTyped'
      BY <1>1, <1>4 DEF ProductionTyped
    <2>2. OnlyReports
      BY <1>4 DEF OnlyReports
    <2>3. /\ RunsGrow /\ PlanHolds' /\ \A c \in Cohorts : CohortHolds(c)'
          /\ \A r \in Names : RunHolds(r)'
      BY <1>1, <2>2, ReportsKeep
    <2>4. ComposerHolds'
      BY <1>4 DEF ComposerHolds, Idle
    <2>5. PackagerHolds'
      BY <1>1, <2>3, PackagerKept
    <2>6. ArchivesAreVerified'
      BY <1>1 DEF ProductionInv, ArchivesAreVerified
    <2>7. QED
      BY <2>1, <2>3, <2>4, <2>5, <2>6 DEF ProductionInv
  <1>5. CASE /\ ~gone /\ report.passed /\ runs' = [runs EXCEPT ![Composed] = new]
             /\ composer' = Renamed
    <2>1. /\ staged \in RunDirectory /\ staged.params = DOMAIN composer.from
          /\ DOMAIN staged.tasks = DOMAIN composer.from /\ DOMAIN composer.from \subseteq Tasks
          /\ staged.manifest # NoFile
          /\ staged.manifest.all => DOMAIN composer.from = DOMAIN dataset
      BY <1>1, <1>5, StagedType
    <2> HIDE DEF staged
    <2>2. report \in Report
      BY <2>1, ReportType
    <2> HIDE DEF report
    <2>3. /\ new \in RunDirectory /\ new.tasks = staged.tasks /\ new.params = staged.params
          /\ new.manifest = staged.manifest
      BY <2>1, <2>2, Rewritten
    <2> HIDE DEF new
    <2>4. /\ runs' \in [Names -> RunDirectory \cup {NoFile}]
          /\ runs'[Composed] = new /\ new # NoFile
          /\ \A s \in Names : s # Composed => runs'[s] = runs[s]
      BY <1>1, <1>5, <2>3, NamesAre, OneRunChanges
    <2>5. ProductionTyped'
      BY <1>1, <1>5, <2>4 DEF ProductionTyped
    <2>6. PlanHolds'
      BY <1>1 DEF ProductionInv, PlanHolds
    <2>7. ASSUME NEW c \in Cohorts PROVE CohortHolds(c)'
      BY <1>1, <2>4, NamesAre, CohortKept DEF ProductionInv
    <2>8. ASSUME NEW s \in Names PROVE RunHolds(s)'
      <3>1. CASE s = Composed
        BY <1>1, <2>1, <2>3, <2>4, <3>1 DEF RunHolds
      <3>2. CASE s # Composed
        BY <1>1, <2>4, <3>2 DEF ProductionInv, RunHolds
      <3>3. QED
        BY <3>1, <3>2
    <2>9. RunsGrow
      BY <1>1, <2>4 DEF RunsGrow
    <2>10. ComposerHolds'
      BY <1>5, <2>4 DEF ComposerHolds, Renamed
    <2>11. PackagerHolds'
      BY <1>1, <2>9, PackagerKept
    <2>12. ArchivesAreVerified'
      BY <1>1 DEF ProductionInv, ArchivesAreVerified
    <2>13. QED
      BY <2>5, <2>6, <2>7, <2>8, <2>10, <2>11, <2>12 DEF ProductionInv
  <1>6. QED
    BY <1>2, <1>4, <1>5

\* A composition is verified again.
LEMMA VerifyAgainKeeps ==
    ASSUME ProductionInv, NEW timeout \in BOOLEAN, VerifyAgain(timeout)
    PROVE  ProductionInv'
  <1> USE DEF Exists
  <1> DEFINE run == runs[Composed]
             report == VerifyRun(run, run.params, Verdict(run, timeout))
             new == [run EXCEPT !.report = report]
  <1>1. /\ ProductionTyped /\ composer.phase = "again" /\ composer' = Idle
        /\ runs' = [runs EXCEPT ![Composed] = new]
        /\ UNCHANGED <<dataset, plan, active, packager, archive, changes, raced, steady,
                       planned>>
    BY DEF VerifyAgain, ProductionInv, history
  <1>2. run # NoFile /\ run \in RunDirectory /\ run.params \in SUBSET Tasks
    <2>1. run # NoFile
      BY <1>1 DEF ProductionInv, ComposerHolds
    <2>2. run.params \in SUBSET Tasks
      BY <2>1, NamesAre DEF ProductionInv, RunHolds
    <2>3. QED
      BY <1>1, <2>1, <2>2, NamesAre DEF ProductionTyped
  <1> HIDE DEF run
  <1>3. report \in Report
    BY <1>2, ReportType
  <1> HIDE DEF report
  <1>4. /\ new \in RunDirectory /\ new.tasks = run.tasks /\ new.params = run.params
        /\ new.manifest = run.manifest /\ new.config = run.config
    BY <1>2, <1>3, Rewritten
  <1> HIDE DEF new
  <1>5. /\ runs' \in [Names -> RunDirectory \cup {NoFile}]
        /\ runs'[Composed] = new /\ new # NoFile
        /\ \A s \in Names : s # Composed => runs'[s] = runs[s]
    BY <1>1, <1>4, NamesAre, OneRunChanges
  <1>6. ProductionTyped'
    BY <1>1, <1>5 DEF ProductionTyped
  <1>7. OnlyReports
    BY <1>2, <1>4, <1>5 DEF OnlyReports, run
  <1>8. composer'.phase # "copy" /\ composer'.phase # "again"
    BY <1>1 DEF Idle
  <1>9. /\ RunsGrow /\ PlanHolds' /\ \A c \in Cohorts : CohortHolds(c)'
        /\ \A r \in Names : RunHolds(r)'
    BY <1>1, <1>7, ReportsKeep
  <1>10. ComposerHolds'
    BY <1>8 DEF ComposerHolds
  <1>11. PackagerHolds'
    BY <1>1, <1>9, PackagerKept
  <1>12. ArchivesAreVerified'
    BY <1>1 DEF ProductionInv, ArchivesAreVerified
  <1>13. QED
    BY <1>6, <1>9, <1>10, <1>11, <1>12 DEF ProductionInv

\* A run is held to known tasks.
LEMMA ExpectedType ==
    ASSUME NEW run \in RunDirectory, NEW tasks, tasks \subseteq Tasks
    PROVE  /\ ExpectedTasks(run, tasks, {}) \subseteq Tasks
           /\ run.params \notin {NoFile, {}} => ExpectedTasks(run, tasks, {}) = run.params
  <1>1. /\ run.params \notin {NoFile, {}} => run.params \subseteq Tasks
        /\ run.manifest # NoFile => run.manifest.fixtures \subseteq Tasks
        /\ DOMAIN run.tasks \subseteq Tasks
    BY RunFields DEF RunManifest
  <1>2. ExpectedTasks(run, tasks, {})
          = IF run.params \notin {NoFile, {}} THEN run.params
            ELSE IF run.manifest # NoFile /\ run.manifest.fixtures # {} THEN run.manifest.fixtures
                 ELSE IF tasks # {} THEN tasks ELSE DOMAIN run.tasks
    BY DEF ExpectedTasks
  <1>3. QED
    BY <1>1, <1>2

\* A run is verified to be packaged.
LEMMA VerifyForPackageKeeps ==
    ASSUME ProductionInv, NEW r \in Packages, NEW options \in PackageOptions,
           VerifyForPackage(r, options)
    PROVE  ProductionInv'
  <1> USE DEF Exists
  <1> DEFINE run == runs[r]
             incomplete == options.incomplete
             sound == IF options.checked THEN Accepted(run) ELSE NoFile
             known == IF options.given THEN DOMAIN dataset ELSE {}
             expected == ExpectedTasks(run, known, {})
             report == VerifyRun(run, expected, sound)
             new == [run EXCEPT !.report = report]
             checking == [phase |-> "check", run |-> r, report |-> report,
                          incomplete |-> incomplete]
  <1>1. /\ ProductionTyped /\ run # NoFile /\ r \in Names
        /\ ~VerifyRefuses(expected, sound, ~incomplete)
        /\ runs' = [runs EXCEPT ![r] = new]
        /\ \/ (incomplete \/ (report.passed /\ report.scope = "all")) /\ packager' = checking
           \/ packager' = Idle
        /\ UNCHANGED <<dataset, plan, active, composer, archive, changes, raced, steady,
                       planned>>
    BY DirectoriesAssumption DEF VerifyForPackage, ProductionInv, history
  <1>2. run \in RunDirectory /\ incomplete \in BOOLEAN
    BY <1>1, OptionsAssumption DEF ProductionTyped
  <1>3. known \subseteq Tasks /\ DOMAIN dataset # {}
    BY <1>1, DatasetsAssumption DEF ProductionTyped, Tasks
  <1>4. expected \subseteq Tasks /\ (run.params \notin {NoFile, {}} => expected = run.params)
    <2> HIDE DEF run, known
    <2>1. QED
      BY <1>2, <1>3, ExpectedType
  <1>5. ~incomplete => sound # NoFile /\ sound = Accepted(run)
    BY <1>1 DEF VerifyRefuses
  <1>6. report.scope = "all" => run.manifest # NoFile /\ run.manifest.all
    <2>1. report.scope = Scope(run)
      BY DEF VerifyRun
    <2> HIDE DEF report, run
    <2>2. QED
      BY <2>1 DEF Scope
  <1>7. report \in Report /\ DOMAIN report.tasks = expected
    <2> HIDE DEF run, expected, sound
    <2>1. QED
      BY <1>2, <1>4, ReportType
  <1>8. ASSUME ~incomplete, report.passed
        PROVE  \A t \in expected : report.tasks[t].sha256 \in Sound
    <2>1. \A t \in Accepted(run) : Candidate(run.tasks[t]) \in Sound
      BY <1>2, RunFields
    <2> HIDE DEF run, expected, sound
    <2>2. /\ \A t \in expected : t \in sound
          /\ \A t \in expected : report.tasks[t].sha256 = Candidate(run.tasks[t])
      BY <1>5, <1>8, PassedReport
    <2>3. QED
      BY <1>5, <1>8, <2>1, <2>2
  <1>9. ASSUME steady, ~incomplete, report.scope = "all" PROVE expected = DOMAIN dataset
    <2>1. run.params \in SUBSET Tasks /\ run.params = DOMAIN dataset
      BY <1>1, <1>6, <1>9 DEF ProductionInv, RunHolds
    <2>2. run.params \notin {NoFile, {}}
      BY <1>3, <2>1, FilesAssumption
    <2>3. QED
      BY <1>4, <2>1, <2>2
  <1> HIDE DEF run, sound, known, expected, report
  <1>10. /\ new \in RunDirectory /\ new.tasks = run.tasks /\ new.params = run.params
         /\ new.manifest = run.manifest /\ new.config = run.config
    BY <1>2, <1>7, Rewritten
  <1> HIDE DEF new
  <1>11. /\ runs' \in [Names -> RunDirectory \cup {NoFile}]
         /\ runs'[r] = new /\ new # NoFile
         /\ \A s \in Names : s # r => runs'[s] = runs[s]
    BY <1>1, <1>10, OneRunChanges
  <1>12. packager' \in Packager \cup {Idle}
    BY <1>1, <1>2, <1>7 DEF Packager
  <1>13. ProductionTyped'
    BY <1>1, <1>11, <1>12 DEF ProductionTyped
  <1>14. OnlyReports
    BY <1>1, <1>10, <1>11 DEF OnlyReports, run
  <1>15. /\ RunsGrow /\ PlanHolds' /\ \A c \in Cohorts : CohortHolds(c)'
         /\ \A s \in Names : RunHolds(s)'
    BY <1>1, <1>14, ReportsKeep
  <1>16. ComposerHolds'
    <2>1. runs[Composed] = NoFile => runs'[Composed] = NoFile
      BY <1>14, NamesAre DEF OnlyReports
    <2>2. QED
      BY <1>1, <1>15, <2>1, ComposerKept
  <1>17. PackagerHolds'
    <2>1. CASE packager' = Idle
      BY <2>1 DEF PackagerHolds, Idle
    <2>2. CASE (incomplete \/ (report.passed /\ report.scope = "all")) /\ packager' = checking
      <3>1. /\ packager'.run = r /\ packager'.report = report /\ packager'.incomplete = incomplete
            /\ packager'.phase # "write"
        BY <2>2
      <3>2. runs'[r] # NoFile
        BY <1>11
      <3>3. ~incomplete => /\ steady' => DOMAIN report.tasks = DOMAIN dataset'
                           /\ \A t \in DOMAIN report.tasks : report.tasks[t].sha256 \in Sound
        BY <1>1, <1>7, <1>8, <1>9, <2>2
      <3>4. QED
        BY <3>1, <3>2, <3>3 DEF PackagerHolds
    <2>3. QED
      BY <1>1, <2>1, <2>2
  <1>18. ArchivesAreVerified'
    BY <1>1 DEF ProductionInv, ArchivesAreVerified
  <1>19. QED
    BY <1>13, <1>15, <1>16, <1>17, <1>18 DEF ProductionInv

\* The candidates are hashed again.
LEMMA RecheckKeeps ==
    ASSUME ProductionInv, Recheck
    PROVE  ProductionInv'
  <1> USE DEF Exists
  <1> DEFINE run == runs[packager.run]
             report == packager.report
  <1>1. /\ ProductionTyped /\ packager.phase = "check" /\ packager \in Packager
        /\ \/ Unchanged(run, report) /\ packager' = [packager EXCEPT !.phase = "write"]
           \/ packager' = Idle
        /\ UNCHANGED <<dataset, plan, runs, active, composer, archive, changes, raced, steady,
                       planned>>
    BY ProgramPhases DEF Recheck, ProductionInv, history
  <1>2. /\ packager' = [packager EXCEPT !.phase = "write"] =>
             /\ packager' \in Packager /\ packager'.run = packager.run
             /\ packager'.report = report /\ packager'.incomplete = packager.incomplete
    BY <1>1 DEF Packager
  <1>3. ProductionTyped'
    BY <1>1, <1>2 DEF ProductionTyped
  <1>4. OnlyReports
    BY <1>1 DEF OnlyReports
  <1>5. /\ RunsGrow /\ PlanHolds' /\ \A c \in Cohorts : CohortHolds(c)'
        /\ \A s \in Names : RunHolds(s)'
    BY <1>1, <1>4, ReportsKeep
  <1>6. ComposerHolds'
    BY <1>1, <1>5, ComposerKept
  <1>7. PackagerHolds'
    <2>1. CASE packager' = Idle
      BY <2>1 DEF PackagerHolds, Idle
    <2>2. CASE Unchanged(run, report) /\ packager' = [packager EXCEPT !.phase = "write"]
      <3>1. /\ run # NoFile
            /\ ~packager.incomplete =>
                 /\ steady => DOMAIN report.tasks = DOMAIN dataset
                 /\ \A t \in DOMAIN report.tasks : report.tasks[t].sha256 \in Sound
        BY <1>1 DEF ProductionInv, PackagerHolds
      <3>2. ASSUME ~packager.incomplete, NEW t \in DOMAIN report.tasks, t \in Candidates(run)
            PROVE  Candidate(run.tasks[t]) \in Sound
        <4>1. report.tasks[t].sha256 \in Sound /\ report.tasks[t].sha256 # NoFile
          BY <3>1, <3>2, ContentsAssumption, FilesAssumption
        <4>2. QED
          BY <2>2, <3>2, <4>1 DEF Unchanged
      <3>3. /\ packager'.run = packager.run /\ packager'.report = report
            /\ packager'.incomplete = packager.incomplete /\ runs' = runs
            /\ steady' = steady /\ dataset' = dataset
        BY <1>1, <1>2, <2>2
      <3>4. QED
        BY <3>1, <3>2, <3>3 DEF PackagerHolds, Candidates
    <2>3. QED
      BY <1>1, <2>1, <2>2
  <1>8. ArchivesAreVerified'
    BY <1>1 DEF ProductionInv, ArchivesAreVerified
  <1>9. QED
    BY <1>3, <1>5, <1>6, <1>7, <1>8 DEF ProductionInv

\* The archive is written.
LEMMA WriteArchiveKeeps ==
    ASSUME ProductionInv, WriteArchive
    PROVE  ProductionInv'
  <1> USE DEF Exists
  <1> DEFINE run == runs[packager.run]
             report == packager.report
             entries == [t \in DOMAIN report.tasks \cap Candidates(run) |-> Candidate(run.tasks[t])]
  <1>1. /\ ProductionTyped /\ packager.phase = "write" /\ packager \in Packager
        /\ archive' = [tasks |-> DOMAIN report.tasks, incomplete |-> packager.incomplete,
                       entries |-> entries]
        /\ packager' = Idle
        /\ UNCHANGED <<dataset, plan, runs, active, composer, changes, raced, steady, planned>>
    BY ProgramPhases DEF WriteArchive, ProductionInv, history
  <1>2. /\ run # NoFile
        /\ ~packager.incomplete =>
             /\ steady => DOMAIN report.tasks = DOMAIN dataset
             /\ \A t \in (DOMAIN report.tasks \cap Candidates(run)) \ raced :
                    Candidate(run.tasks[t]) \in Sound
    BY <1>1 DEF ProductionInv, PackagerHolds
  <1>3. run \in RunDirectory /\ report \in Report /\ packager.incomplete \in BOOLEAN
    BY <1>1, <1>2 DEF ProductionTyped, Packager
  <1>4. DOMAIN report.tasks \subseteq Tasks
    <2>1. report.tasks \in PerTask(ReportedTask)
      BY <1>3 DEF Report
    <2>2. QED
      BY <2>1, PerTaskOf
  <1>5. entries \in PerTask(Contents)
    <2>1. \A t \in Candidates(run) : Candidate(run.tasks[t]) \in Contents
      BY <1>3, RunFields
    <2>2. entries \in [DOMAIN report.tasks \cap Candidates(run) -> Contents]
      BY <2>1
    <2>3. DOMAIN report.tasks \cap Candidates(run) \subseteq Tasks
      BY <1>4
    <2> HIDE DEF entries
    <2>4. QED
      BY <2>2, <2>3, PerTaskIs
  <1>6. \A t \in DOMAIN entries : /\ entries[t] = Candidate(run.tasks[t])
                                  /\ t \in DOMAIN report.tasks \cap Candidates(run)
    OBVIOUS
  <1> HIDE DEF entries
  <1>7. archive' \in Archive
    BY <1>1, <1>3, <1>4, <1>5 DEF Archive
  <1>8. ProductionTyped'
    BY <1>1, <1>7 DEF ProductionTyped
  <1>9. OnlyReports
    BY <1>1 DEF OnlyReports
  <1>10. /\ RunsGrow /\ PlanHolds' /\ \A c \in Cohorts : CohortHolds(c)'
         /\ \A s \in Names : RunHolds(s)'
    BY <1>1, <1>9, ReportsKeep
  <1>11. ComposerHolds'
    BY <1>1, <1>10, ComposerKept
  <1>12. PackagerHolds'
    BY <1>1 DEF PackagerHolds, Idle
  <1>13. ArchivesAreVerified'
    <2>1. /\ archive'.tasks = DOMAIN report.tasks /\ archive'.incomplete = packager.incomplete
          /\ archive'.entries = entries
      BY <1>1
    <2>2. QED
      BY <1>1, <1>2, <1>6, <2>1 DEF ArchivesAreVerified
  <1>14. QED
    BY <1>8, <1>10, <1>11, <1>12, <1>13 DEF ProductionInv

\* The dataset changes.
LEMMA ChangeDatasetKeeps ==
    ASSUME ProductionInv, NEW new \in Datasets, ChangeDataset(new)
    PROVE  ProductionInv'
  <1> USE DEF Exists
  <1>1. /\ ProductionTyped /\ dataset' = new /\ ~steady' /\ steady' \in BOOLEAN
        /\ UNCHANGED <<plan, runs, active, composer, packager, archive, raced, planned>>
    BY DEF ChangeDataset, ProductionInv, programs
  <1>2. ProductionTyped'
    BY <1>1 DEF ProductionTyped, AllDatasets
  <1>3. OnlyReports
    BY <1>1 DEF OnlyReports
  <1>4. /\ RunsGrow /\ PlanHolds' /\ \A c \in Cohorts : CohortHolds(c)'
        /\ \A s \in Names : RunHolds(s)'
    BY <1>1, <1>3, ReportsKeep
  <1>5. ComposerHolds' /\ PackagerHolds'
    BY <1>1, <1>4, ComposerKept, PackagerKept
  <1>6. ArchivesAreVerified'
    BY <1>1 DEF ProductionInv, ArchivesAreVerified
  <1>7. QED
    BY <1>2, <1>4, <1>5, <1>6 DEF ProductionInv

\* The plan file is edited.
LEMMA EditPlanKeeps ==
    ASSUME ProductionInv, NEW b \in Batches, EditPlan(b)
    PROVE  ProductionInv'
  <1> USE DEF Exists
  <1> DEFINE batches == [plan.contents.batches EXCEPT ![b] = DOMAIN plan.contents.profiles]
             contents == [plan.contents EXCEPT !.batches = batches]
  <1>1. /\ ProductionTyped /\ plan # NoFile /\ b \in DOMAIN plan.contents.batches
        /\ plan' = [plan EXCEPT !.contents = contents]
        /\ UNCHANGED <<dataset, runs, active, composer, packager, archive, raced, steady,
                       planned>>
    BY DEF EditPlan, ProductionInv, programs, Batches
  <1>2. plan \in Plan /\ plan.contents \in PlanContents
    BY <1>1 DEF ProductionTyped, Plan
  <1>3. batches \in Seq(SUBSET Tasks)
    <2>1. plan.contents.profiles \in PerTask(Profile) /\ plan.contents.batches \in Seq(SUBSET Tasks)
      BY <1>2 DEF PlanContents
    <2>2. DOMAIN plan.contents.profiles \in SUBSET Tasks
      BY <2>1, PerTaskOf
    <2>3. QED
      BY <1>1, <2>1, <2>2
  <1> HIDE DEF batches
  <1>4. /\ contents \in PlanContents /\ contents.profiles = plan.contents.profiles
        /\ contents.fingerprint = plan.contents.fingerprint
        /\ contents.completed = plan.contents.completed
    BY <1>2, <1>3 DEF PlanContents
  <1> HIDE DEF contents
  <1>5. /\ plan' \in Plan /\ plan' # NoFile /\ plan'.id = plan.id /\ plan'.contents = contents
    BY <1>1, <1>2, <1>4, FilesAssumption DEF Plan
  <1>6. ProductionTyped'
    BY <1>1, <1>5 DEF ProductionTyped
  <1>7. PlanHolds'
    BY <1>1, <1>4, <1>5 DEF ProductionInv, PlanHolds
  <1>8. ASSUME NEW c \in Cohorts PROVE CohortHolds(c)'
    BY <1>1, CohortKept DEF ProductionInv
  <1>9. ASSUME NEW s \in Names PROVE RunHolds(s)'
    BY <1>1 DEF ProductionInv, RunHolds
  <1>10. ComposerHolds' /\ PackagerHolds'
    BY <1>1, RunsAreKept, ComposerKept, PackagerKept
  <1>11. ArchivesAreVerified'
    BY <1>1 DEF ProductionInv, ArchivesAreVerified
  <1>12. QED
    BY <1>6, <1>7, <1>8, <1>9, <1>10, <1>11 DEF ProductionInv

\* Somebody replaces a candidate or removes it.
LEMMA TamperKeeps ==
    ASSUME ProductionInv, NEW r \in Tampered, NEW t, NEW dir \in TaskDirs, Tamper(r, t, dir)
    PROVE  ProductionInv'
  <1> USE DEF Exists
  <1> DEFINE old == runs[r].tasks
             tasks == [old EXCEPT ![t] = dir]
             new == [runs[r] EXCEPT !.tasks = tasks]
  <1>1. /\ ProductionTyped /\ r \in Names /\ runs[r] # NoFile /\ t \in DOMAIN old
        /\ runs' = [runs EXCEPT ![r] = new] /\ raced' = raced \cup (InUse(r) \cap {t})
        /\ UNCHANGED <<dataset, plan, active, composer, packager, archive, steady, planned>>
    BY DirectoriesAssumption DEF Tamper, ProductionInv, programs
  <1>2. runs[r] \in RunDirectory
    BY <1>1 DEF ProductionTyped
  <1>3. DOMAIN old \subseteq Tasks /\ \A s \in DOMAIN old : old[s] \in TaskDirs
    BY <1>2, RunFields
  <1>4. /\ tasks \in PerTask(TaskDirs) /\ DOMAIN tasks = DOMAIN old /\ tasks[t] = dir
        /\ \A s \in DOMAIN old : s # t => tasks[s] = old[s]
    <2>1. runs[r].tasks \in PerTask(TaskDirs)
      BY <1>2, RunFields
    <2>2. old \in [DOMAIN old -> TaskDirs]
      BY <2>1, PerTaskOf
    <2>3. tasks \in [DOMAIN old -> TaskDirs]
      BY <2>2
    <2>4. /\ DOMAIN tasks = DOMAIN old /\ tasks[t] = dir
          /\ \A s \in DOMAIN old : s # t => tasks[s] = old[s]
      BY <1>1, <2>2
    <2> HIDE DEF tasks, old
    <2>5. QED
      BY <1>3, <2>3, <2>4, PerTaskIs
  <1> HIDE DEF tasks
  <1>5. /\ new \in RunDirectory /\ new.tasks = tasks /\ new.config = runs[r].config
        /\ new.params = runs[r].params /\ new.manifest = runs[r].manifest
    BY <1>2, <1>4, Rewritten
  <1> HIDE DEF new
  <1>6. /\ runs' \in [Names -> RunDirectory \cup {NoFile}]
        /\ runs'[r] = new /\ new # NoFile /\ \A s \in Names : s # r => runs'[s] = runs[s]
    BY <1>1, <1>5, OneRunChanges
  <1>7. /\ \A s \in Names :
             /\ runs'[s] # NoFile <=> runs[s] # NoFile
             /\ runs[s] # NoFile =>
                  /\ DOMAIN runs'[s].tasks = DOMAIN runs[s].tasks
                  /\ runs'[s].config = runs[s].config /\ runs'[s].params = runs[s].params
                  /\ runs'[s].manifest = runs[s].manifest
                  /\ \A u \in DOMAIN runs[s].tasks :
                        ~(s = r /\ u = t) => runs'[s].tasks[u] = runs[s].tasks[u]
    BY <1>1, <1>4, <1>5, <1>6
  <1>8. ProductionTyped'
    BY <1>1, <1>3, <1>6 DEF ProductionTyped
  <1>9. PlanHolds'
    BY <1>1 DEF ProductionInv, PlanHolds
  <1>10. ASSUME NEW c \in Cohorts PROVE CohortHolds(c)'
    <2>1. c \in Names /\ CohortHolds(c)
      BY NamesAre DEF ProductionInv
    <2>2. QED
      BY <1>1, <1>7, <2>1, CohortKept
  <1>11. ASSUME NEW s \in Names PROVE RunHolds(s)'
    <2>1. RunHolds(s)
      BY DEF ProductionInv
    <2>2. QED
      BY <1>1, <1>7, <2>1 DEF RunHolds
  <1>12. ComposerHolds'
    <2>1. ASSUME composer.phase = "copy", NEW u \in DOMAIN composer.from
          PROVE  LET s == composer.from[u] IN
                 /\ runs'[s] # NoFile /\ u \in DOMAIN runs'[s].tasks
                 /\ HasCandidate(runs'[s].tasks[u]) /\ u \notin raced' =>
                        Candidate(runs'[s].tasks[u]) = composer.digest[u]
      <3>1. composer.from \in PerTask(Names)
        BY <1>1, <2>1, ProgramPhases DEF Composer
      <3>2. composer.from[u] \in Names
        BY <3>1, PerTaskOf
      <3>3. LET s == composer.from[u] IN
            /\ runs[s] # NoFile /\ u \in DOMAIN runs[s].tasks
            /\ HasCandidate(runs[s].tasks[u]) /\ u \notin raced =>
                   Candidate(runs[s].tasks[u]) = composer.digest[u]
        BY <2>1 DEF ProductionInv, ComposerHolds
      <3>4. CASE composer.from[u] = r /\ u = t
        <4>1. u \in InUse(r)
          BY <2>1, <3>4 DEF InUse
        <4>2. u \in raced'
          BY <1>1, <3>4, <4>1
        <4>3. QED
          BY <1>7, <3>2, <3>3, <4>2
      <3>5. CASE ~(composer.from[u] = r /\ u = t)
        BY <1>1, <1>7, <3>2, <3>3, <3>5
      <3>6. QED
        BY <3>4, <3>5
    <2>2. composer.phase = "again" => runs'[Composed] # NoFile
      BY <1>7, NamesAre DEF ProductionInv, ComposerHolds
    <2>3. composer.phase = "copy" =>
              runs'[Composed] = NoFile /\ DOMAIN composer.digest = DOMAIN composer.from
      BY <1>7, NamesAre DEF ProductionInv, ComposerHolds
    <2>4. QED
      BY <1>1, <2>1, <2>2, <2>3 DEF ComposerHolds
  <1>13. PackagerHolds'
    <2> SUFFICES ASSUME packager.phase # "idle"
                 PROVE  /\ runs'[packager.run] # NoFile
                        /\ ~packager.incomplete =>
                             /\ steady' => DOMAIN packager.report.tasks = DOMAIN dataset
                             /\ \A u \in DOMAIN packager.report.tasks :
                                    packager.report.tasks[u].sha256 \in Sound
                             /\ packager.phase = "write" =>
                                  \A u \in (DOMAIN packager.report.tasks
                                              \cap Candidates(runs'[packager.run])) \ raced' :
                                      Candidate(runs'[packager.run].tasks[u]) \in Sound
      BY <1>1 DEF PackagerHolds, Candidates
    <2>1. packager.run \in Names
      BY <1>1, ProgramPhases DEF Packager
    <2>2. /\ runs[packager.run] # NoFile
          /\ ~packager.incomplete =>
               /\ steady => DOMAIN packager.report.tasks = DOMAIN dataset
               /\ \A u \in DOMAIN packager.report.tasks : packager.report.tasks[u].sha256 \in Sound
               /\ packager.phase = "write" =>
                    \A u \in (DOMAIN packager.report.tasks
                                \cap Candidates(runs[packager.run])) \ raced :
                        Candidate(runs[packager.run].tasks[u]) \in Sound
      BY DEF ProductionInv, PackagerHolds
    <2>3. ASSUME ~packager.incomplete, packager.phase = "write",
                 NEW u \in DOMAIN packager.report.tasks, u \notin raced',
                 u \in Candidates(runs'[packager.run])
          PROVE  Candidate(runs'[packager.run].tasks[u]) \in Sound
      <3>1. u \in DOMAIN runs[packager.run].tasks /\ HasCandidate(runs'[packager.run].tasks[u])
        BY <1>7, <2>1, <2>2, <2>3 DEF Candidates
      <3>2. CASE packager.run = r /\ u = t
        <4>1. u \in InUse(r)
          BY <2>3, <3>2 DEF InUse
        <4>2. QED
          BY <1>1, <2>3, <3>2, <4>1
      <3>3. CASE ~(packager.run = r /\ u = t)
        <4>1. runs'[packager.run].tasks[u] = runs[packager.run].tasks[u]
          BY <1>7, <2>1, <2>2, <3>1, <3>3
        <4>2. u \in Candidates(runs[packager.run])
          BY <3>1, <4>1 DEF Candidates
        <4>3. QED
          BY <1>1, <2>2, <2>3, <4>1, <4>2
      <3>4. QED
        BY <3>2, <3>3
    <2>4. QED
      BY <1>1, <1>7, <2>1, <2>2, <2>3
  <1>14. ArchivesAreVerified'
    BY <1>1 DEF ProductionInv, ArchivesAreVerified
  <1>15. QED
    BY <1>8, <1>9, <1>10, <1>11, <1>12, <1>13, <1>14 DEF ProductionInv

-----------------------------------------------------------------------------
(***************************************************************************)
(* The theorems about Production.                                          *)
(***************************************************************************)

\* Production starts from a verified run.
LEMMA ProductionStarts ==
    ASSUME Init
    PROVE  ProductionInv
  <1> USE DEF Exists
  <1>1. PICK content \in Sound :
            runs = [r \in Names |-> IF r = Base THEN BaseRun(content) ELSE NoFile]
    BY DEF Init
  <1>2. /\ dataset = Published /\ plan = NoFile /\ active = {} /\ composer = Idle
        /\ packager = Idle /\ archive = NoFile /\ raced = {} /\ steady = TRUE
        /\ planned = [dir \in Cohorts |-> {}]
    BY DEF Init
  <1> DEFINE tasks == [t \in BaseTasks |-> OneCandidate(content)]
             run == [params |-> BaseTasks, manifest |-> NoFile, config |-> NoFile,
                     report |-> NoFile, tasks |-> tasks]
             report == VerifyRun(run, DOMAIN run.tasks, Accepted(run))
  <1>3. BaseTasks \subseteq Tasks /\ content \in Contents
    BY DirectoriesAssumption, ContentsAssumption
  <1>4. /\ tasks \in [BaseTasks -> TaskDirs] /\ DOMAIN tasks = BaseTasks
        /\ \A t \in BaseTasks : HasCandidate(tasks[t])
    BY <1>3, CandidateOfDir
  <1> HIDE DEF tasks
  <1>5. tasks \in PerTask(TaskDirs)
    BY <1>3, <1>4, PerTaskIs
  <1>6. run \in RunDirectory /\ run.tasks = tasks /\ run.manifest = NoFile
    BY <1>3, <1>5 DEF RunDirectory
  <1>7. BaseRun(content) = [run EXCEPT !.report = report]
    BY DEF BaseRun, Verified, tasks
  <1> HIDE DEF run
  <1>8. report \in Report
    BY <1>3, <1>4, <1>6, ReportType
  <1> HIDE DEF report
  <1>9. /\ BaseRun(content) \in RunDirectory /\ BaseRun(content).tasks = tasks
        /\ BaseRun(content).manifest = NoFile
    BY <1>6, <1>7, <1>8, Rewritten
  <1>10. /\ runs \in [Names -> RunDirectory \cup {NoFile}]
         /\ runs[Base] = BaseRun(content) /\ runs[Base] # NoFile
         /\ \A r \in Names : r # Base => runs[r] = NoFile
    BY <1>1, <1>9, NamesAre, FilesAssumption
  <1>11. ProductionTyped
    BY <1>2, <1>10 DEF ProductionTyped, AllDatasets
  <1>12. PlanHolds
    BY <1>2 DEF PlanHolds
  <1>13. ASSUME NEW c \in Cohorts PROVE CohortHolds(c)
    BY <1>2, <1>10, NamesAre DEF CohortHolds
  <1>14. ASSUME NEW r \in Names PROVE RunHolds(r)
    BY <1>9, <1>10, NamesAre DEF RunHolds
  <1>15. ComposerHolds /\ PackagerHolds
    BY <1>2 DEF ComposerHolds, PackagerHolds, Idle
  <1>16. ArchivesAreVerified
    BY <1>2 DEF ArchivesAreVerified
  <1>17. QED
    BY <1>11, <1>12, <1>13, <1>14, <1>15, <1>16 DEF ProductionInv

\* A step that changes nothing.
LEMMA ProductionStutters ==
    ASSUME ProductionInv, UNCHANGED vars
    PROVE  ProductionInv'
  <1> USE DEF Exists
  <1>1. UNCHANGED <<dataset, plan, runs, active, composer, packager, archive, raced, steady,
                       planned>>
    BY DEF vars
  <1>2. OnlyReports
    BY <1>1 DEF OnlyReports
  <1>3. ProductionTyped'
    BY <1>1 DEF ProductionInv, ProductionTyped
  <1>4. /\ RunsGrow /\ PlanHolds' /\ \A c \in Cohorts : CohortHolds(c)'
        /\ \A s \in Names : RunHolds(s)'
    BY <1>1, <1>2, ReportsKeep
  <1>5. ComposerHolds' /\ PackagerHolds'
    BY <1>1, <1>4, ComposerKept, PackagerKept
  <1>6. ArchivesAreVerified'
    BY <1>1 DEF ProductionInv, ArchivesAreVerified
  <1>7. QED
    BY <1>3, <1>4, <1>5, <1>6 DEF ProductionInv

\* The invariant of module Production.
THEOREM ProductionInvariant == Spec => []ProductionInv
  <1>1. Init => ProductionInv
    BY ProductionStarts
  <1>2. ProductionInv /\ [Next]_vars => ProductionInv'
    <2> SUFFICES ASSUME ProductionInv, [Next]_vars PROVE ProductionInv'
      OBVIOUS
    <2>1. CASE \E r \in Completed : CreatePlan(r)
      BY <2>1, CreatePlanKeeps
    <2>2. CASE \E b \in Batches, dir \in Cohorts : RunBatch(b, dir)
      BY <2>2, RunBatchKeeps
    <2>3. CASE \E dir \in Cohorts, t \in DOMAIN dataset, content \in Sound :
                  Publish(dir, t, content)
      BY <2>3, PublishKeeps
    <2>4. CASE \E dir \in Cohorts : CohortEnds(dir)
      BY <2>4, CohortEndsKeeps
    <2>5. CASE \E sources \in Sources : Select(sources)
      BY <2>5, SelectKeeps
    <2>6. CASE \E given, timeout \in BOOLEAN : PublishComposition(given, timeout)
      BY <2>6, PublishCompositionKeeps
    <2>7. CASE \E timeout \in BOOLEAN : VerifyAgain(timeout)
      BY <2>7, VerifyAgainKeeps
    <2>8. CASE \E r \in Packages, options \in PackageOptions : VerifyForPackage(r, options)
      BY <2>8, VerifyForPackageKeeps
    <2>9. CASE Recheck
      BY <2>9, RecheckKeeps
    <2>10. CASE WriteArchive
      BY <2>10, WriteArchiveKeeps
    <2>11. CASE \E r \in Tampered, t \in DOMAIN dataset,
                   dir \in {OneCandidate(content) : content \in Contents} \cup {NoTasks} :
                       Tamper(r, t, dir)
      BY <2>11, TamperKeeps DEF TaskDirs
    <2>12. CASE \E new \in Datasets : ChangeDataset(new)
      BY <2>12, ChangeDatasetKeeps
    <2>13. CASE \E b \in Batches : EditPlan(b)
      BY <2>13, EditPlanKeeps
    <2>14. CASE UNCHANGED vars
      BY <2>14, ProductionStutters
    <2>15. QED
      BY <2>1, <2>2, <2>3, <2>4, <2>5, <2>6, <2>7, <2>8, <2>9, <2>10, <2>11, <2>12, <2>13, <2>14
      DEF Next
  <1>3. QED
    BY <1>1, <1>2, PTL DEF Spec

\* Type correctness: what is in the files, and what the two programs hold.
THEOREM ProductionTypes == Spec => []ProductionTyped
  <1>1. ProductionInv => ProductionTyped
    BY DEF ProductionInv
  <1>2. QED
    BY <1>1, ProductionInvariant, PTL

\* An issued plan puts every task that is left in exactly one batch, none
\* above the target size, and no two sizes apart by more than one.
THEOREM PlansPartition == Spec => []BatchesPartitionTheRest
  <1>1. ProductionInv => BatchesPartitionTheRest
    BY DEF ProductionInv, PlanHolds, Partitions, BatchesPartitionTheRest
  <1>2. QED
    BY <1>1, ProductionInvariant, PTL

\* Whatever directories batches are run in, and whatever is planned, edited or
\* changed in between: a cohort pays for nothing its plan counts as completed,
\* and for nothing another batch of its plan pays for.
THEOREM BatchesKeptApart == Spec => []BatchesAreKeptApart
  <1>1. ASSUME ProductionInv PROVE BatchesAreKeptApart
    <2> SUFFICES ASSUME NEW r \in Cohorts, NEW s \in Cohorts,
                        NEW x \in planned[r], NEW y \in planned[s]
                 PROVE  /\ runs[r].config \cap x.completed = {}
                        /\ x.id = y.id /\ x.completed = y.completed /\ x.batch # y.batch =>
                               runs[r].config \cap runs[s].config = {}
      BY DEF BatchesAreKeptApart
    <2>1. AssignmentHolds(r, x) /\ AssignmentHolds(s, y)
      BY <1>1 DEF ProductionInv, CohortHolds
    <2>2. QED
      BY <2>1 DEF AssignmentHolds
  <1>2. QED
    BY <1>1, ProductionInvariant, PTL

\* What a production archive holds was accepted by the official checker, and
\* it is of all the dataset, but for what changed behind package_run's back.
THEOREM ArchivesVerified == Spec => []ArchivesAreVerified
  <1>1. ProductionInv => ArchivesAreVerified
    BY DEF ProductionInv
  <1>2. QED
    BY <1>1, ProductionInvariant, PTL

\* A composition is published verified, and as hashed but for what changed
\* between its hash and its copy.
LEMMA CompositionStep ==
    ASSUME ProductionInv, NEW given \in BOOLEAN, NEW timeout \in BOOLEAN,
           PublishComposition(given, timeout), runs'[Composed] # NoFile
    PROVE  /\ DOMAIN runs'[Composed].tasks \subseteq Accepted(runs'[Composed])
           /\ \A t \in DOMAIN composer.digest \ raced :
                  Candidate(runs'[Composed].tasks[t]) = composer.digest[t]
  <1> USE DEF Exists
  <1> DEFINE gone == \E t \in DOMAIN composer.from : t \notin Candidates(runs[composer.from[t]])
             staged == Staged(given)
             sound == Verdict(staged, timeout)
             report == VerifyRun(staged, staged.params, sound)
             new == [staged EXCEPT !.report = report]
  <1>1. /\ ProductionTyped /\ composer.phase = "copy" /\ runs[Composed] = NoFile
        /\ ~gone /\ report.passed /\ runs' = [runs EXCEPT ![Composed] = new]
    BY DEF PublishComposition, ProductionInv, ComposerHolds
  <1>2. /\ staged \in RunDirectory /\ staged.params = DOMAIN composer.from
        /\ DOMAIN staged.tasks = DOMAIN composer.from /\ DOMAIN composer.from \subseteq Tasks
        /\ \A t \in DOMAIN composer.from :
              Candidate(staged.tasks[t]) = Candidate(runs[composer.from[t]].tasks[t])
    BY <1>1, StagedType
  <1>3. Accepted(staged) \subseteq Tasks /\ (sound = Accepted(staged) \/ sound = {})
    BY <1>2, RunFields DEF Verdict
  <1> HIDE DEF staged
  <1>4. sound # NoFile
    BY <1>3, FilesAssumption
  <1>5. \A t \in DOMAIN composer.from : t \in sound
    <2> HIDE DEF sound
    <2>1. QED
      BY <1>1, <1>2, <1>4, PassedReport
  <1>6. report \in Report
    BY <1>2, ReportType
  <1> HIDE DEF report, sound
  <1>7. new \in RunDirectory /\ new.tasks = staged.tasks
    BY <1>2, <1>6, Rewritten
  <1> HIDE DEF new
  <1>8. runs'[Composed] = new
    BY <1>1, <1>7, NamesAre, OneRunChanges
  <1>9. DOMAIN new.tasks \subseteq Accepted(new)
    BY <1>2, <1>3, <1>5, <1>7 DEF Accepted, Candidates
  <1>10. ASSUME NEW t \in DOMAIN composer.digest, t \notin raced
         PROVE  Candidate(new.tasks[t]) = composer.digest[t]
    <2>1. t \in DOMAIN composer.from
      BY <1>1 DEF ProductionInv, ComposerHolds
    <2>2. HasCandidate(runs[composer.from[t]].tasks[t])
      BY <1>1, <2>1 DEF Candidates
    <2>3. Candidate(runs[composer.from[t]].tasks[t]) = composer.digest[t]
      BY <1>1, <1>10, <2>1, <2>2 DEF ProductionInv, ComposerHolds
    <2>4. QED
      BY <1>2, <1>7, <2>1, <2>3
  <1>11. QED
    BY <1>8, <1>9, <1>10

\* No other action makes the composition.
LEMMA OnlyPublished ==
    ASSUME ProductionInv, [Next]_vars, runs[Composed] = NoFile, runs'[Composed] # NoFile
    PROVE  \E given, timeout \in BOOLEAN : PublishComposition(given, timeout)
  <1> USE DEF Exists
  <1>1. runs \in [Names -> RunDirectory \cup {NoFile}]
    BY DEF ProductionInv, ProductionTyped
  <1>2. \A r, new : r # Composed /\ runs' = [runs EXCEPT ![r] = new]
                         => runs'[Composed] = runs[Composed]
    BY <1>1, NamesAre
  <1>3. runs' # runs
    OBVIOUS
  <1>4. CASE \E r \in Completed : CreatePlan(r)
    BY <1>3, <1>4 DEF CreatePlan
  <1>5. CASE \E b \in Batches, dir \in Cohorts : RunBatch(b, dir)
    BY <1>2, <1>5, NamesAre DEF RunBatch
  <1>6. CASE \E dir \in Cohorts, t \in DOMAIN dataset, content \in Sound :
                Publish(dir, t, content)
    BY <1>2, <1>6, NamesAre DEF Publish
  <1>7. CASE \E dir \in Cohorts : CohortEnds(dir)
    BY <1>2, <1>7, NamesAre DEF CohortEnds
  <1>8. CASE \E sources \in Sources : Select(sources)
    BY <1>3, <1>8 DEF Select
  <1>9. CASE \E timeout \in BOOLEAN : VerifyAgain(timeout)
    BY <1>9 DEF VerifyAgain, ProductionInv, ComposerHolds
  <1>10. CASE \E r \in Packages, options \in PackageOptions : VerifyForPackage(r, options)
    BY <1>2, <1>10 DEF VerifyForPackage
  <1>11. CASE Recheck \/ WriteArchive
    BY <1>3, <1>11 DEF Recheck, WriteArchive
  <1>12. CASE \E r \in Tampered, t \in DOMAIN dataset,
                 dir \in {OneCandidate(content) : content \in Contents} \cup {NoTasks} :
                     Tamper(r, t, dir)
    BY <1>2, <1>12 DEF Tamper
  <1>13. CASE \E new \in Datasets : ChangeDataset(new)
    BY <1>3, <1>13 DEF ChangeDataset
  <1>14. CASE \E b \in Batches : EditPlan(b)
    BY <1>3, <1>14 DEF EditPlan
  <1>15. CASE UNCHANGED vars
    BY <1>3, <1>15 DEF vars
  <1>16. QED
    BY <1>4, <1>5, <1>6, <1>7, <1>8, <1>9, <1>10, <1>11, <1>12, <1>13, <1>14, <1>15 DEF Next

\* What a composition publishes was accepted by the official checker as it was copied.
THEOREM CompositionsVerified == Spec => CompositionsAreVerified
  <1> DEFINE A == runs[Composed] = NoFile /\ runs'[Composed] # NoFile =>
                    /\ DOMAIN runs'[Composed].tasks \subseteq Accepted(runs'[Composed])
                    /\ \A t \in DOMAIN composer.digest \ raced :
                           Candidate(runs'[Composed].tasks[t]) = composer.digest[t]
  <1>1. ProductionInv /\ [Next]_vars => [A]_vars
    BY OnlyPublished, CompositionStep
  <1>2. QED
    BY <1>1, ProductionInvariant, PTL DEF Spec, CompositionsAreVerified
=============================================================================

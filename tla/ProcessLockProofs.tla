------------------------- MODULE ProcessLockProofs -------------------------
(***************************************************************************)
(* Proofs about ProcessLock, for any number of processes and any choice of *)
(* the points at which they may die.                                       *)
(***************************************************************************)
EXTENDS ProcessLock, TLAPS

\* No step of a process leaves the types.
LEMMA TypeStep == TypeOK /\ [Next]_lockVars => TypeOK'
  <1> SUFFICES ASSUME TypeOK, [Next]_lockVars PROVE TypeOK'
    OBVIOUS
  <1> USE DEF TypeOK, GoTo
  <1>1. ASSUME NEW p \in Processes, Enter(p) PROVE TypeOK'
    BY <1>1 DEF Enter, Phases
  <1>2. ASSUME NEW p \in Processes, Open(p) PROVE TypeOK'
    BY <1>2 DEF Open, Create, Phases
  <1>3. ASSUME NEW p \in Processes, Read(p) PROVE TypeOK'
    BY <1>3 DEF Read, Phases
  <1>4. ASSUME NEW p \in Processes, Probe(p) PROVE TypeOK'
    BY <1>4 DEF Probe, Phases
  <1>5. ASSUME NEW p \in Processes, Unlink(p) PROVE TypeOK'
    BY <1>5 DEF Unlink, Phases
  <1>6. ASSUME NEW p \in Processes, Reopen(p) PROVE TypeOK'
    BY <1>6 DEF Reopen, Create, Phases
  <1>7. ASSUME NEW p \in Processes, WritePid(p) PROVE TypeOK'
    BY <1>7 DEF WritePid, Phases
  <1>8. ASSUME NEW p \in Processes, Release(p) PROVE TypeOK'
    BY <1>8 DEF Release, Phases
  <1>9. ASSUME NEW p \in Processes, End(p) PROVE TypeOK'
    BY <1>9 DEF End, Phases
  <1>10. ASSUME NEW p \in Processes, Recycle(p) PROVE TypeOK'
    BY <1>10 DEF Recycle
  <1>11. CASE UNCHANGED lockVars
    BY <1>11 DEF lockVars
  <1>12. QED
    BY <1>1, <1>2, <1>3, <1>4, <1>5, <1>6, <1>7, <1>8, <1>9, <1>10, <1>11
       DEF Next, Step

\* The lock's variables keep their types in every run of every process.
THEOREM LockTypeCorrect == Spec => []TypeOK
  <1>1. Init => TypeOK
    BY DEF Init, TypeOK, Phases
  <1>2. QED
    BY <1>1, TypeStep, PTL DEF Spec

-----------------------------------------------------------------------------
\* The owner of the file is the process that wrote or will write its pid
\* there, or it died: only Create makes an owner, and only dying leaves one.
LEMMA LeakStep ==
    TypeOK /\ NoLeakedFile /\ [Next]_lockVars => NoLeakedFile'
  <1> SUFFICES ASSUME TypeOK, NoLeakedFile, [Next]_lockVars PROVE NoLeakedFile'
    OBVIOUS
  <1> USE ProcessesAssumption DEF TypeOK, NoLeakedFile, GoTo
  <1>1. ASSUME NEW p \in Processes, Enter(p) PROVE NoLeakedFile'
    BY <1>1 DEF Enter
  <1>2. ASSUME NEW p \in Processes, Open(p) PROVE NoLeakedFile'
    BY <1>2 DEF Open, Create
  <1>3. ASSUME NEW p \in Processes, Read(p) PROVE NoLeakedFile'
    BY <1>3 DEF Read
  <1>4. ASSUME NEW p \in Processes, Probe(p) PROVE NoLeakedFile'
    BY <1>4 DEF Probe
  <1>5. ASSUME NEW p \in Processes, Unlink(p) PROVE NoLeakedFile'
    BY <1>5 DEF Unlink
  <1>6. ASSUME NEW p \in Processes, Reopen(p) PROVE NoLeakedFile'
    BY <1>6 DEF Reopen, Create
  <1>7. ASSUME NEW p \in Processes, WritePid(p) PROVE NoLeakedFile'
    BY <1>7 DEF WritePid
  <1>8. ASSUME NEW p \in Processes, Release(p) PROVE NoLeakedFile'
    BY <1>8 DEF Release
  <1>9. ASSUME NEW p \in Processes, End(p) PROVE NoLeakedFile'
    BY <1>9 DEF End
  <1>10. ASSUME NEW p \in Processes, Recycle(p) PROVE NoLeakedFile'
    BY <1>10 DEF Recycle
  <1>11. CASE UNCHANGED lockVars
    BY <1>11 DEF lockVars
  <1>12. QED
    BY <1>1, <1>2, <1>3, <1>4, <1>5, <1>6, <1>7, <1>8, <1>9, <1>10, <1>11
       DEF Next, Step

\* A lock file is there only while its owner holds it or because it died.
THEOREM NoFileLeaks == Spec => []NoLeakedFile
  <1>1. Init => NoLeakedFile
    BY DEF Init, NoLeakedFile
  <1>2. QED
    BY <1>1, LeakStep, LockTypeCorrect, PTL DEF Spec

-----------------------------------------------------------------------------
\* What excludes: as long as no living owner's file was reclaimed, whoever is
\* inside owns the file, and a file has one owner.
OwnershipUnlessUsurped == ~usurped => HoldersOwnTheFile

\* Only its owner's release, its owner's death or a usurping reclaim parts a
\* process from its file, and nobody creates one while it is there.
LEMMA OwnershipStep ==
    TypeOK /\ OwnershipUnlessUsurped /\ [Next]_lockVars => OwnershipUnlessUsurped'
  <1> SUFFICES ASSUME TypeOK, OwnershipUnlessUsurped, [Next]_lockVars, ~usurped',
                      NEW q \in Processes, pc'[q] \in {"write", "in"}
               PROVE  owner' = q
    BY DEF OwnershipUnlessUsurped, HoldersOwnTheFile
  <1> USE ProcessesAssumption DEF TypeOK, OwnershipUnlessUsurped, HoldersOwnTheFile, GoTo
  <1>1. ASSUME NEW p \in Processes, Enter(p) PROVE owner' = q
    BY <1>1 DEF Enter
  <1>2. ASSUME NEW p \in Processes, Open(p) PROVE owner' = q
    BY <1>2 DEF Open, Create
  <1>3. ASSUME NEW p \in Processes, Read(p) PROVE owner' = q
    BY <1>3 DEF Read
  <1>4. ASSUME NEW p \in Processes, Probe(p) PROVE owner' = q
    BY <1>4 DEF Probe
  <1>5. ASSUME NEW p \in Processes, Unlink(p) PROVE owner' = q
    <2>1. ~usurped /\ (owner = NoFile \/ pc[owner] = "ended")
      BY <1>5 DEF Unlink
    <2>2. q # p /\ pc[q] \in {"write", "in"}
      BY <1>5 DEF Unlink
    <2>3. QED
      BY <2>1, <2>2
  <1>6. ASSUME NEW p \in Processes, Reopen(p) PROVE owner' = q
    BY <1>6 DEF Reopen, Create
  <1>7. ASSUME NEW p \in Processes, WritePid(p) PROVE owner' = q
    BY <1>7 DEF WritePid
  <1>8. ASSUME NEW p \in Processes, Release(p) PROVE owner' = q
    BY <1>8 DEF Release
  <1>9. ASSUME NEW p \in Processes, End(p) PROVE owner' = q
    BY <1>9 DEF End
  <1>10. ASSUME NEW p \in Processes, Recycle(p) PROVE owner' = q
    BY <1>10 DEF Recycle
  <1>11. CASE UNCHANGED lockVars
    BY <1>11 DEF lockVars
  <1>12. QED
    BY <1>1, <1>2, <1>3, <1>4, <1>5, <1>6, <1>7, <1>8, <1>9, <1>10, <1>11
       DEF Next, Step

\* The lock excludes, wherever processes die and whatever becomes of their
\* pids, unless a reclaim removed the file of a process that was alive.
THEOREM ExclusionUnlessUsurped == Spec => []ExclusiveUnlessUsurped
  <1>1. Init => OwnershipUnlessUsurped
    BY DEF Init, OwnershipUnlessUsurped, HoldersOwnTheFile
  <1>2. OwnershipUnlessUsurped => ExclusiveUnlessUsurped
    BY DEF OwnershipUnlessUsurped, HoldersOwnTheFile, ExclusiveUnlessUsurped, Holders
  <1>3. QED
    BY <1>1, <1>2, OwnershipStep, LockTypeCorrect, PTL DEF Spec
=============================================================================

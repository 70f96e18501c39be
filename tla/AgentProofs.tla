---------------------------- MODULE AgentProofs ----------------------------
(***************************************************************************)
(* Proofs about MemoryAdapter, NativeAgent and Episodes, for any callers,  *)
(* runs, users, documents, contracts, semantics of actions and numbers of  *)
(* repairs and receipts.  First the adapter: its type invariant, the       *)
(* undo-stack invariant that makes rollback safe, the truth of the         *)
(* receipts, and that it implements VersionStack.  Then the agent: what a  *)
(* run's local state means for its edit is an invariant of its own, over   *)
(* that of the adapter's undo records; recording needs another.            *)
(***************************************************************************)
EXTENDS Episodes, SequenceTheorems, TLAPS

\* A plan for whatever revision: the bound on revisions in Plan is the model's
\* alone, and nothing below needs it.
AnyPlan == [document_id : Documents, base_revision : Nat, actions : ActionLists]

\* A call by any caller, of any plan or receipt.
Calls ==
    \E c \in Callers :
        \/ \E plan \in AnyPlan, dry_run \in BOOLEAN : Execute(c, plan, dry_run)
        \/ \E id \in Nat : Rollback(c, id)

\* The calls that are model-checked are among them.
LEMMA NextIsACall == [Next]_vars => [Calls]_vars
  <1>1. Plan \subseteq AnyPlan /\ 0..MaxReceipts \subseteq Nat
    BY ConstantsAssumption DEF Plan, AnyPlan
  <1>2. QED
    BY <1>1 DEF Next, Calls

\* A plan that passes validation and whose actions all apply leaves contents
\* of the right type.
LEMMA CandidateType ==
    ASSUME TypeOK, NEW plan \in AnyPlan, Executable(plan)
    PROVE  /\ Candidate(plan) \in Contents
           /\ After(plan) \in Document
           /\ documents[plan.document_id] \in Document
           /\ documents[plan.document_id].revision = plan.base_revision
  <1>1. documents[plan.document_id] \in Document
    BY DEF TypeOK, AnyPlan
  <1>2. Candidate(plan) \in Contents \cup {Failed}
    BY <1>1, ApplyAssumption DEF Candidate, Document, AnyPlan
  <1>3. Candidate(plan) \in Contents
    BY <1>2 DEF Executable
  <1>4. plan.base_revision \in Nat
    BY ConstantsAssumption DEF AnyPlan
  <1>5. documents[plan.document_id].revision = plan.base_revision
    BY DEF Executable, Valid, IsStale
  <1>6. QED
    BY <1>1, <1>3, <1>4, <1>5 DEF After, Document

\* One step of any caller keeps the types.
LEMMA TypeStep == TypeOK /\ [Calls]_vars => TypeOK'
  <1> SUFFICES ASSUME TypeOK, [Calls]_vars PROVE TypeOK'
    OBVIOUS
  <1>n. NoDocument \in Document
    BY DEF NoDocument, Document
  <1>1. ASSUME NEW c \in Callers, NEW plan \in AnyPlan, ExecuteRefused(c, plan)
        PROVE  TypeOK'
    <2>1. documents[plan.document_id] \in Document
      BY DEF TypeOK, AnyPlan
    <2>2. ReceiptFor(0, "refused", documents[plan.document_id],
                     documents[plan.document_id]) \in Receipt
      BY <2>1, ConstantsAssumption DEF ReceiptFor, Receipt, Statuses
    <2>3. QED
      BY <1>1, <2>2 DEF ExecuteRefused, Return, TypeOK
  <1>2. ASSUME NEW c \in Callers, NEW plan \in AnyPlan, ExecuteDryRun(c, plan)
        PROVE  TypeOK'
    <2>1. Executable(plan)
      BY <1>2 DEF ExecuteDryRun
    <2>2. ReceiptFor(0, "dry_run", documents[plan.document_id], After(plan)) \in Receipt
      BY <2>1, CandidateType, ConstantsAssumption DEF ReceiptFor, Receipt, Statuses
    <2>3. QED
      BY <1>2, <2>2 DEF ExecuteDryRun, Return, TypeOK
  <1>3. ASSUME NEW c \in Callers, NEW plan \in AnyPlan, ExecuteApplied(c, plan)
        PROVE  TypeOK'
    <2> DEFINE before  == documents[plan.document_id]
               receipt == ReceiptFor(issued + 1, "applied", before, After(plan))
               record  == [document_id       |-> plan.document_id,
                           expected_revision |-> plan.base_revision + 1,
                           before            |-> before,
                           original_receipt  |-> receipt]
    <2>1. /\ issued < MaxReceipts
          /\ Executable(plan)
          /\ documents' = [documents EXCEPT ![plan.document_id] = After(plan)]
          /\ undo' = undo \cup {record}
          /\ issued' = issued + 1
          /\ receipts' = [receipts EXCEPT ![c] = receipt]
      BY <1>3 DEF ExecuteApplied, Return
    <2>2. issued + 1 \in 0..MaxReceipts
      BY <2>1, ConstantsAssumption DEF TypeOK
    <2>3. receipt \in Receipt
      BY <2>1, <2>2, CandidateType DEF ReceiptFor, Receipt, Statuses
    <2>4. record \in UndoRecord
      BY <2>1, <2>3, CandidateType, ConstantsAssumption DEF UndoRecord, AnyPlan
    <2>5. documents' \in [Documents -> Document]
      BY <2>1, CandidateType DEF TypeOK
    <2> HIDE DEF receipt, record
    <2>6. QED
      BY <2>1, <2>2, <2>3, <2>4, <2>5 DEF TypeOK
  <1>4. ASSUME NEW c \in Callers, NEW id \in Nat, RollbackRefused(c, id)
        PROVE  TypeOK'
    <2>1. ReceiptFor(0, "refused", NoDocument, NoDocument) \in Receipt
      BY <1>n, ConstantsAssumption DEF ReceiptFor, Receipt, Statuses
    <2>2. QED
      BY <1>4, <2>1 DEF RollbackRefused, Return, TypeOK
  <1>5. ASSUME NEW c \in Callers, NEW id \in Nat, RolledBack(c, id)
        PROVE  TypeOK'
    <2>1. PICK record \in RecordsUnder(id) :
             /\ documents' = [documents EXCEPT ![record.document_id] = record.before]
             /\ undo' = undo \ {record}
             /\ Return(c, ReceiptFor(0, "rolled_back",
                                     documents[record.document_id], record.before))
             /\ UNCHANGED issued
      BY <1>5 DEF RolledBack
    <2>2. record \in UndoRecord
      BY <2>1 DEF RecordsUnder, TypeOK
    <2>3. record.before \in Document /\ documents[record.document_id] \in Document
      BY <2>2 DEF UndoRecord, TypeOK
    <2>4. ReceiptFor(0, "rolled_back", documents[record.document_id], record.before)
             \in Receipt
      BY <2>3, ConstantsAssumption DEF ReceiptFor, Receipt, Statuses
    <2>5. QED
      BY <2>1, <2>2, <2>3, <2>4 DEF Return, TypeOK
  <1>6. CASE UNCHANGED vars
    BY <1>6 DEF vars, TypeOK
  <1>7. QED
    BY <1>1, <1>2, <1>3, <1>4, <1>5, <1>6 DEF Calls, Execute, Rollback

\* Every reachable state of the adapter is well typed.
THEOREM TypeCorrect == Spec => []TypeOK
  <1>1. Init => TypeOK
    BY ConstantsAssumption
    DEF Init, TypeOK, NoReceipt, NoDocument, Receipt, Statuses, Document
  <1>2. QED
    BY <1>1, TypeStep, NextIsACall, PTL DEF Spec

-----------------------------------------------------------------------------
(***************************************************************************)
(* The undo stack.  UndoIsAStack is inductive together with TypeOK.        *)
(***************************************************************************)

StackInv == TypeOK /\ UndoIsAStack

\* The record an applied transaction pushes.
Pushed(plan) ==
    [document_id       |-> plan.document_id,
     expected_revision |-> plan.base_revision + 1,
     before            |-> documents[plan.document_id],
     original_receipt  |-> ReceiptFor(issued + 1, "applied",
                                      documents[plan.document_id], After(plan))]

\* Facts about the pushed record that every part of the invariant uses.
LEMMA PushedFacts ==
    ASSUME StackInv, NEW c \in Callers, NEW plan \in AnyPlan, ExecuteApplied(c, plan)
    PROVE  LET d == plan.document_id
               k == plan.base_revision + 1
           IN  /\ d \in Documents
               /\ k \in Nat \ {0}
               /\ documents[d] \in Document
               /\ documents[d].revision = k - 1
               /\ After(plan) \in Document
               /\ After(plan).revision = k
               /\ After(plan).features # Absent
               /\ documents' = [documents EXCEPT ![d] = After(plan)]
               /\ documents'[d] = After(plan)
               /\ \A e \in Documents : e # d => documents'[e] = documents[e]
               /\ undo' = undo \cup {Pushed(plan)}
               /\ issued' = issued + 1
               /\ issued \in Nat
               /\ Pushed(plan).document_id = d
               /\ Pushed(plan).expected_revision = k
               /\ Pushed(plan).before = documents[d]
               /\ Pushed(plan).original_receipt.id = issued + 1
               /\ Pushed(plan).original_receipt.after = After(plan)
               /\ \A record \in undo : record.document_id = d => record.expected_revision < k
  <1>1. plan.document_id \in Documents /\ plan.base_revision \in Nat /\ issued \in Nat
    BY ConstantsAssumption DEF AnyPlan, StackInv, TypeOK
  <1>2. Executable(plan)
    BY DEF ExecuteApplied
  <1>3. /\ Candidate(plan) \in Contents
        /\ After(plan) \in Document
        /\ documents[plan.document_id] \in Document
        /\ documents[plan.document_id].revision = plan.base_revision
    BY <1>2, CandidateType DEF StackInv
  <1>4. After(plan).revision = plan.base_revision + 1 /\ After(plan).features # Absent
    BY <1>3, ConstantsAssumption DEF After
  <1>5. documents' = [documents EXCEPT ![plan.document_id] = After(plan)]
    BY DEF ExecuteApplied
  <1>6. undo' = undo \cup {Pushed(plan)} /\ issued' = issued + 1
    BY DEF ExecuteApplied, Pushed
  <1>7. /\ documents'[plan.document_id] = After(plan)
        /\ \A e \in Documents : e # plan.document_id => documents'[e] = documents[e]
    BY <1>1, <1>5 DEF StackInv, TypeOK
  <1>8. \A record \in undo :
           record.document_id = plan.document_id
               => record.expected_revision < plan.base_revision + 1
    BY <1>1, <1>3 DEF StackInv, UndoIsAStack, OneRecordPerRevision, TypeOK, UndoRecord
  <1>9. /\ Pushed(plan).document_id = plan.document_id
        /\ Pushed(plan).expected_revision = plan.base_revision + 1
        /\ Pushed(plan).before = documents[plan.document_id]
        /\ Pushed(plan).original_receipt.id = issued + 1
        /\ Pushed(plan).original_receipt.after = After(plan)
    BY DEF Pushed, ReceiptFor
  <1>10. QED
    BY <1>1, <1>3, <1>4, <1>5, <1>6, <1>7, <1>8, <1>9

\* An applied transaction pushes a record on its document's stack.
LEMMA PushKeepsStack ==
    ASSUME StackInv, NEW c \in Callers, NEW plan \in AnyPlan, ExecuteApplied(c, plan)
    PROVE  UndoIsAStack'
  <1> DEFINE d == plan.document_id
             k == plan.base_revision + 1
             new == Pushed(plan)
  <1>1. /\ d \in Documents
        /\ k \in Nat \ {0}
        /\ documents[d] \in Document
        /\ documents[d].revision = k - 1
        /\ After(plan) \in Document
        /\ After(plan).revision = k
        /\ After(plan).features # Absent
        /\ documents'[d] = After(plan)
        /\ \A e \in Documents : e # d => documents'[e] = documents[e]
        /\ undo' = undo \cup {new}
        /\ issued' = issued + 1
        /\ issued \in Nat
        /\ new.document_id = d
        /\ new.expected_revision = k
        /\ new.before = documents[d]
        /\ new.original_receipt.id = issued + 1
        /\ new.original_receipt.after = After(plan)
        /\ \A record \in undo : record.document_id = d => record.expected_revision < k
    BY PushedFacts
  <1>2. /\ ExistsIffRevised /\ OneRecordPerRevision /\ DistinctReceipts /\ RecordsChain
        /\ \A record \in undo :
               /\ record.document_id \in Documents
               /\ record.expected_revision \in Nat \ {0}
               /\ record.before \in Document
    BY DEF StackInv, UndoIsAStack, TypeOK, UndoRecord
  <1>3. \A e \in Documents : documents[e] \in Document /\ documents[e].revision \in Nat
    BY DEF StackInv, TypeOK, Document
  <1> HIDE DEF d, k, new
  <1>4. ExistsIffRevised'
    BY <1>1, <1>2, <1>3 DEF ExistsIffRevised
  <1>5. OneRecordPerRevision'
    <2>1. \A e \in Documents : \A j \in 1..documents'[e].revision :
             \E record \in undo' : record.document_id = e /\ record.expected_revision = j
      <3> SUFFICES ASSUME NEW e \in Documents, NEW j \in 1..documents'[e].revision
                   PROVE  \E record \in undo' :
                              record.document_id = e /\ record.expected_revision = j
        OBVIOUS
      <3>1. CASE e = d /\ j = k
        BY <1>1, <3>1
      <3>2. CASE ~(e = d /\ j = k)
        <4>1. j \in 1..documents[e].revision
          BY <1>1, <1>3, <3>2
        <4>2. QED
          BY <1>1, <1>2, <4>1 DEF OneRecordPerRevision
      <3>3. QED
        BY <3>1, <3>2
    <2>2. \A record \in undo' :
             record.expected_revision <= documents'[record.document_id].revision
      BY <1>1, <1>2, <1>3 DEF OneRecordPerRevision
    <2>3. \A r, s \in undo' :
             r.document_id = s.document_id /\ r.expected_revision = s.expected_revision => r = s
      BY <1>1, <1>2 DEF OneRecordPerRevision
    <2>4. QED
      BY <2>1, <2>2, <2>3 DEF OneRecordPerRevision
  <1>6. DistinctReceipts'
    BY <1>1, <1>2 DEF DistinctReceipts
  <1>7. RecordsChain'
    <2>1. \A record \in undo' :
           /\ record.original_receipt.after.revision = record.expected_revision
           /\ record.original_receipt.after.features # Absent
           /\ record.before.revision = record.expected_revision - 1
           /\ record.expected_revision = 1 => record.before = NoDocument
           /\ record.expected_revision = documents'[record.document_id].revision
                  => documents'[record.document_id] = record.original_receipt.after
      <3> SUFFICES ASSUME NEW record \in undo'
                   PROVE  /\ record.original_receipt.after.revision
                                 = record.expected_revision
                          /\ record.original_receipt.after.features # Absent
                          /\ record.before.revision = record.expected_revision - 1
                          /\ record.expected_revision = 1 => record.before = NoDocument
                          /\ record.expected_revision
                                 = documents'[record.document_id].revision
                               => documents'[record.document_id]
                                    = record.original_receipt.after
        OBVIOUS
      <3>1. CASE record = new
        <4>1. k = 1 => documents[d] = NoDocument
          BY <1>1, <1>2 DEF ExistsIffRevised, NoDocument, Document
        <4>2. QED
          BY <1>1, <3>1, <4>1
      <3>2. CASE record \in undo /\ record.document_id = d
        BY <1>1, <1>2, <3>2 DEF RecordsChain
      <3>3. CASE record \in undo /\ record.document_id # d
        BY <1>1, <1>2, <3>3 DEF RecordsChain
      <3>4. QED
        BY <1>1, <3>1, <3>2, <3>3
    <2>2. \A r, s \in undo' :
             /\ r.document_id = s.document_id
             /\ s.expected_revision = r.expected_revision + 1
             => s.before = r.original_receipt.after
      <3> SUFFICES ASSUME NEW r \in undo', NEW s \in undo',
                          r.document_id = s.document_id,
                          s.expected_revision = r.expected_revision + 1
                   PROVE  s.before = r.original_receipt.after
        OBVIOUS
      <3>1. CASE r \in undo /\ s \in undo
        BY <1>2, <3>1 DEF RecordsChain
      <3>2. CASE r \in undo /\ s = new
        <4>1. r.expected_revision = documents[d].revision
          BY <1>1, <1>2, <3>2
        <4>2. documents[d] = r.original_receipt.after
          BY <1>1, <1>2, <3>2, <4>1 DEF RecordsChain
        <4>3. QED
          BY <1>1, <3>2, <4>2
      <3>3. CASE r = new
        \* nothing lies above the new record
        <4>1. s \in undo => s.expected_revision < k
          BY <1>1, <3>3
        <4>2. s.expected_revision = k + 1
          BY <1>1, <3>3
        <4>3. QED
          BY <1>1, <1>2, <4>1, <4>2
      <3>4. QED
        BY <1>1, <3>1, <3>2, <3>3
    <2>3. QED
      BY <2>1, <2>2 DEF RecordsChain
  <1>8. QED
    BY <1>4, <1>5, <1>6, <1>7 DEF UndoIsAStack

\* A rollback takes the top record off its document's stack.
LEMMA PopFacts ==
    ASSUME StackInv, NEW record \in undo, Undoable(record),
           documents' = [documents EXCEPT ![record.document_id] = record.before]
    PROVE  LET d == record.document_id
               k == record.expected_revision
           IN  /\ d \in Documents
               /\ k \in Nat \ {0}
               /\ record.before \in Document
               /\ documents[d].revision = k
               /\ record.before.revision = k - 1
               /\ documents'[d] = record.before
               /\ \A e \in Documents : e # d => documents'[e] = documents[e]
               /\ \A r \in undo \ {record} : r.document_id = d => r.expected_revision < k
  <1>1. /\ record.document_id \in Documents
        /\ record.expected_revision \in Nat \ {0}
        /\ record.before \in Document
        /\ documents[record.document_id].revision = record.expected_revision
    BY DEF StackInv, TypeOK, UndoRecord, Undoable
  <1>2. record.before.revision = record.expected_revision - 1
    BY DEF StackInv, UndoIsAStack, RecordsChain
  <1>3. /\ documents'[record.document_id] = record.before
        /\ \A e \in Documents : e # record.document_id => documents'[e] = documents[e]
    BY <1>1 DEF StackInv, TypeOK
  <1>4. \A r \in undo \ {record} :
           r.document_id = record.document_id
               => r.expected_revision < record.expected_revision
    BY <1>1 DEF StackInv, UndoIsAStack, OneRecordPerRevision, TypeOK, UndoRecord
  <1>5. QED
    BY <1>1, <1>2, <1>3, <1>4

\* A rollback leaves the remaining records a stack: every conjunct of the
\* invariant holds of the documents and records it leaves.
LEMMA PopKeepsStack ==
    ASSUME StackInv, NEW record \in undo, Undoable(record),
           documents' = [documents EXCEPT ![record.document_id] = record.before],
           undo' = undo \ {record}, issued' = issued
    PROVE  UndoIsAStack'
  <1> DEFINE d == record.document_id
             k == record.expected_revision
  <1>1. /\ d \in Documents
        /\ k \in Nat \ {0}
        /\ record.before \in Document
        /\ documents[d].revision = k
        /\ record.before.revision = k - 1
        /\ documents'[d] = record.before
        /\ \A e \in Documents : e # d => documents'[e] = documents[e]
        /\ \A r \in undo \ {record} : r.document_id = d => r.expected_revision < k
    BY PopFacts
  <1>2. /\ ExistsIffRevised /\ OneRecordPerRevision /\ DistinctReceipts /\ RecordsChain
        /\ \A r \in undo : r.document_id \in Documents /\ r.expected_revision \in Nat \ {0}
        /\ \A e \in Documents : documents[e].revision \in Nat
    BY DEF StackInv, UndoIsAStack, TypeOK, UndoRecord, Document
  <1>d. k \in 1..documents[d].revision
    BY <1>1
  <1> HIDE DEF d, k
  \* What lies under the record, if anything, left what the record restores.
  <1>3. \A r \in undo : r.document_id = d /\ r.expected_revision = k - 1
                            => record.before = r.original_receipt.after
    <2> SUFFICES ASSUME NEW r \in undo, r.document_id = d, r.expected_revision = k - 1
                 PROVE  record.before = r.original_receipt.after
      OBVIOUS
    <2>1. record.document_id = d /\ record.expected_revision = r.expected_revision + 1
      BY <1>1 DEF d, k
    <2>2. QED
      BY <1>2, <2>1 DEF RecordsChain
  <1>4. ExistsIffRevised'
    <2>1. k = 1 => record.before = NoDocument
      BY <1>2 DEF RecordsChain, k
    <2>2. k # 1 => record.before.features # Absent
      <3> SUFFICES ASSUME k # 1 PROVE record.before.features # Absent
        OBVIOUS
      <3>1. k - 1 \in 1..documents[d].revision
        BY <1>1
      <3>2. PICK r \in undo : r.document_id = d /\ r.expected_revision = k - 1
        BY <1>1, <1>2, <3>1 DEF OneRecordPerRevision
      <3>3. record.before = r.original_receipt.after
        BY <1>3, <3>2
      <3>4. r.original_receipt.after.features # Absent
        BY <1>2, <3>2 DEF RecordsChain
      <3>5. QED
        BY <3>3, <3>4
    <2>3. QED
      BY <1>1, <1>2, <2>1, <2>2 DEF ExistsIffRevised, NoDocument
  <1>5. OneRecordPerRevision'
    <2>1. \A e \in Documents : \A j \in 1..documents'[e].revision :
             \E r \in undo' : r.document_id = e /\ r.expected_revision = j
      <3> SUFFICES ASSUME NEW e \in Documents, NEW j \in 1..documents'[e].revision
                   PROVE  \E r \in undo' : r.document_id = e /\ r.expected_revision = j
        OBVIOUS
      <3>1. j \in 1..documents[e].revision /\ (e = d => j # k)
        BY <1>1, <1>2
      <3>2. PICK r \in undo : r.document_id = e /\ r.expected_revision = j
        BY <1>2, <3>1 DEF OneRecordPerRevision
      <3>3. r # record
        BY <3>1, <3>2 DEF d, k
      <3>4. QED
        BY <3>2, <3>3
    <2>2. \A r \in undo' : r.expected_revision <= documents'[r.document_id].revision
      BY <1>1, <1>2 DEF OneRecordPerRevision
    <2>3. \A r, s \in undo' :
             r.document_id = s.document_id /\ r.expected_revision = s.expected_revision => r = s
      BY <1>2 DEF OneRecordPerRevision
    <2>4. QED
      BY <2>1, <2>2, <2>3 DEF OneRecordPerRevision
  <1>6. DistinctReceipts'
    BY <1>2 DEF DistinctReceipts
  <1>7. RecordsChain'
    <2>1. \A r \in undo' :
           /\ r.original_receipt.after.revision = r.expected_revision
           /\ r.original_receipt.after.features # Absent
           /\ r.before.revision = r.expected_revision - 1
           /\ r.expected_revision = 1 => r.before = NoDocument
           /\ r.expected_revision = documents'[r.document_id].revision
                  => documents'[r.document_id] = r.original_receipt.after
      BY <1>1, <1>2, <1>3 DEF RecordsChain
    <2>2. \A r, s \in undo' :
             /\ r.document_id = s.document_id
             /\ s.expected_revision = r.expected_revision + 1
             => s.before = r.original_receipt.after
      BY <1>2 DEF RecordsChain
    <2>3. QED
      BY <2>1, <2>2 DEF RecordsChain
  <1>8. QED
    BY <1>4, <1>5, <1>6, <1>7 DEF UndoIsAStack

\* Every step of the adapter keeps the undo records a stack.
LEMMA StackStep == StackInv /\ [Calls]_vars => UndoIsAStack'
  <1> SUFFICES ASSUME StackInv, [Calls]_vars PROVE UndoIsAStack'
    OBVIOUS
  <1> USE DEF UndoIsAStack, ExistsIffRevised, OneRecordPerRevision,
              DistinctReceipts, RecordsChain
  <1>1. ASSUME UNCHANGED <<documents, undo, issued>>
        PROVE  UndoIsAStack'
    BY <1>1 DEF StackInv
  <1>2. ASSUME NEW c \in Callers, NEW plan \in AnyPlan, ExecuteRefused(c, plan)
        PROVE  UndoIsAStack'
    BY <1>1, <1>2 DEF ExecuteRefused
  <1>3. ASSUME NEW c \in Callers, NEW plan \in AnyPlan, ExecuteDryRun(c, plan)
        PROVE  UndoIsAStack'
    BY <1>1, <1>3 DEF ExecuteDryRun
  <1>4. ASSUME NEW c \in Callers, NEW plan \in AnyPlan, ExecuteApplied(c, plan)
        PROVE  UndoIsAStack'
    BY <1>4, PushKeepsStack
  <1>5. ASSUME NEW c \in Callers, NEW id \in Nat, RollbackRefused(c, id)
        PROVE  UndoIsAStack'
    BY <1>1, <1>5 DEF RollbackRefused
  <1>6. ASSUME NEW c \in Callers, NEW id \in Nat, RolledBack(c, id)
        PROVE  UndoIsAStack'
    BY <1>6, PopKeepsStack DEF RolledBack, RecordsUnder
  <1>7. CASE UNCHANGED vars
    BY <1>1, <1>7 DEF vars
  <1>8. QED
    BY <1>2, <1>3, <1>4, <1>5, <1>6, <1>7 DEF Calls, Execute, Rollback

\* In every reachable state, under any interleaving of any callers, the undo
\* records of each document are the stack of the transactions in force.
THEOREM UndoStackCorrect == Spec => []UndoIsAStack
  <1>1. Init => UndoIsAStack
    BY DEF Init, NoDocument, UndoIsAStack, ExistsIffRevised, OneRecordPerRevision,
           DistinctReceipts, RecordsChain
  <1>2. TypeOK /\ UndoIsAStack /\ [Calls]_vars => UndoIsAStack'
    BY StackStep DEF StackInv
  <1>3. QED
    BY <1>1, <1>2, TypeCorrect, NextIsACall, PTL DEF Spec

-----------------------------------------------------------------------------
\* No receipt lies: what a call reports is what it did to the documents.
THEOREM ReceiptsCorrect == Spec => ReceiptsTellTheTruth
  <1> DEFINE Truth ==
        \A c \in Callers :
           receipts'[c] # receipts[c] =>
               \/ receipts'[c].status \in {"refused", "dry_run"} /\ documents' = documents
               \/ /\ receipts'[c].status \in {"applied", "rolled_back"}
                  /\ \E d \in Documents :
                         /\ documents[d] = receipts'[c].before
                         /\ documents' = [documents EXCEPT ![d] = receipts'[c].after]
  <1>1. TypeOK /\ [Calls]_vars => [Truth]_vars
    <2> SUFFICES ASSUME TypeOK, Calls, NEW b \in Callers, receipts'[b] # receipts[b]
                 PROVE  \/ /\ receipts'[b].status \in {"refused", "dry_run"}
                           /\ documents' = documents
                        \/ /\ receipts'[b].status \in {"applied", "rolled_back"}
                           /\ \E d \in Documents :
                                 /\ documents[d] = receipts'[b].before
                                 /\ documents' = [documents EXCEPT ![d] = receipts'[b].after]
      BY DEF Truth
    <2> DEFINE Goal ==
          \/ receipts'[b].status \in {"refused", "dry_run"} /\ documents' = documents
          \/ /\ receipts'[b].status \in {"applied", "rolled_back"}
             /\ \E d \in Documents :
                   /\ documents[d] = receipts'[b].before
                   /\ documents' = [documents EXCEPT ![d] = receipts'[b].after]
    <2>0. ASSUME NEW c \in Callers, NEW r, Return(c, r)
          PROVE  receipts'[b] = r
      BY <2>0 DEF Return, TypeOK
    <2>1. ASSUME NEW c \in Callers, NEW plan \in AnyPlan, ExecuteRefused(c, plan)
          PROVE  Goal
      BY <2>0, <2>1 DEF ExecuteRefused, ReceiptFor
    <2>2. ASSUME NEW c \in Callers, NEW plan \in AnyPlan, ExecuteDryRun(c, plan)
          PROVE  Goal
      BY <2>0, <2>2 DEF ExecuteDryRun, ReceiptFor
    <2>3. ASSUME NEW c \in Callers, NEW plan \in AnyPlan, ExecuteApplied(c, plan)
          PROVE  Goal
      <3>1. receipts'[b] = ReceiptFor(issued + 1, "applied",
                                      documents[plan.document_id], After(plan))
        BY <2>0, <2>3 DEF ExecuteApplied
      <3>2. plan.document_id \in Documents
        BY DEF AnyPlan
      <3>3. /\ receipts'[b].status = "applied"
            /\ documents[plan.document_id] = receipts'[b].before
            /\ receipts'[b].after = After(plan)
        BY <3>1 DEF ReceiptFor
      <3>4. documents' = [documents EXCEPT ![plan.document_id] = receipts'[b].after]
        BY <2>3, <3>3 DEF ExecuteApplied
      <3>5. QED
        BY <3>2, <3>3, <3>4
    <2>4. ASSUME NEW c \in Callers, NEW id \in Nat, RollbackRefused(c, id)
          PROVE  Goal
      BY <2>0, <2>4 DEF RollbackRefused, ReceiptFor
    <2>5. ASSUME NEW c \in Callers, NEW id \in Nat, RolledBack(c, id)
          PROVE  Goal
      <3>1. PICK record \in undo :
               /\ documents' = [documents EXCEPT ![record.document_id] = record.before]
               /\ Return(c, ReceiptFor(0, "rolled_back",
                                       documents[record.document_id], record.before))
        BY <2>5 DEF RolledBack, RecordsUnder
      <3>2. record.document_id \in Documents
        BY DEF TypeOK, UndoRecord
      <3>3. receipts'[b] = ReceiptFor(0, "rolled_back",
                                      documents[record.document_id], record.before)
        BY <2>0, <3>1
      <3>4. /\ receipts'[b].status = "rolled_back"
            /\ documents[record.document_id] = receipts'[b].before
            /\ receipts'[b].after = record.before
        BY <3>3 DEF ReceiptFor
      <3>5. documents' = [documents EXCEPT ![record.document_id] = receipts'[b].after]
        BY <3>1, <3>4
      <3>6. QED
        BY <3>2, <3>4, <3>5
    <2>6. QED
      BY <2>1, <2>2, <2>3, <2>4, <2>5 DEF Calls, Execute, Rollback
  <1>2. QED
    BY <1>1, TypeCorrect, NextIsACall, PTL DEF Spec, ReceiptsTellTheTruth

-----------------------------------------------------------------------------
(***************************************************************************)
(* Refinement of VersionStack.                                             *)
(***************************************************************************)

\* Each version of a document is held by exactly one undo record.
LEMMA RecordAtIs ==
    ASSUME UndoIsAStack, NEW record \in undo
    PROVE  RecordAt(record.document_id, record.expected_revision) = record
  BY DEF UndoIsAStack, OneRecordPerRevision, RecordAt

\* versionsBar is a sequence of contents for every document.
LEMMA VersionsType ==
    ASSUME StackInv, NEW d \in Documents
    PROVE  /\ documents[d].revision \in Nat
           /\ versionsBar[d] \in Seq(Contents)
           /\ Len(versionsBar[d]) = documents[d].revision
           /\ \A record \in undo : record.document_id = d =>
                 /\ record.expected_revision \in 1..documents[d].revision
                 /\ versionsBar[d][record.expected_revision]
                        = record.original_receipt.after.features
  <1> DEFINE n == documents[d].revision
  <1>1. n \in Nat
    BY DEF StackInv, TypeOK, Document
  <1>2. versionsBar[d] = [k \in 1..n |-> RecordAt(d, k).original_receipt.after.features]
    BY DEF versionsBar
  <1>3. \A k \in 1..n : RecordAt(d, k).original_receipt.after.features \in Contents
    <2> TAKE k \in 1..n
    <2>1. PICK record \in undo : record.document_id = d /\ record.expected_revision = k
      BY DEF StackInv, UndoIsAStack, OneRecordPerRevision
    <2>2. RecordAt(d, k) = record
      BY <2>1, RecordAtIs DEF StackInv
    <2>3. record.original_receipt.after \in Document
      BY DEF StackInv, TypeOK, UndoRecord, Receipt
    <2>4. record.original_receipt.after.features # Absent
      BY DEF StackInv, UndoIsAStack, RecordsChain
    <2>5. QED
      BY <2>2, <2>3, <2>4 DEF Document
  <1>4. versionsBar[d] \in [1..n -> Contents]
    BY <1>2, <1>3
  <1>5. versionsBar[d] \in Seq(Contents) /\ Len(versionsBar[d]) = n
    BY <1>1, <1>4, SeqDef, LenProperties
  <1>6. \A record \in undo : record.document_id = d =>
           /\ record.expected_revision \in 1..n
           /\ versionsBar[d][record.expected_revision] = record.original_receipt.after.features
    <2> SUFFICES ASSUME NEW record \in undo, record.document_id = d
                 PROVE  /\ record.expected_revision \in 1..n
                        /\ versionsBar[d][record.expected_revision]
                               = record.original_receipt.after.features
      OBVIOUS
    <2>1. record.expected_revision \in 1..n
      BY <1>1 DEF StackInv, TypeOK, UndoRecord, UndoIsAStack, OneRecordPerRevision
    <2>2. QED
      BY <1>2, <2>1, RecordAtIs DEF StackInv
  <1>7. QED
    BY <1>1, <1>5, <1>6

\* The same as one state predicate, so that it holds in the next state too.
VersionsTyped ==
    \A d \in Documents :
        /\ documents[d].revision \in Nat
        /\ versionsBar[d] \in Seq(Contents)
        /\ Len(versionsBar[d]) = documents[d].revision
        /\ \A record \in undo : record.document_id = d =>
              /\ record.expected_revision \in 1..documents[d].revision
              /\ versionsBar[d][record.expected_revision]
                     = record.original_receipt.after.features

\* The stack invariant makes the abstract versions well typed, so that the
\* theorems about sequences apply to them.
LEMMA StackIsTyped == StackInv => VersionsTyped
  BY VersionsType DEF VersionsTyped

\* The same of the state after a step.
LEMMA StackIsTypedNext == StackInv' => VersionsTyped'
  BY StackIsTyped, PTL

\* An applied transaction is a Commit of the abstract store.
LEMMA AppliedIsCommit ==
    ASSUME StackInv, StackInv', NEW c \in Callers, NEW plan \in AnyPlan,
           ExecuteApplied(c, plan)
    PROVE  Store!Commit(plan.document_id, Candidate(plan)) /\ Candidate(plan) \in Contents
  <1> DEFINE d == plan.document_id
             n == documents[d].revision
  <1>1. /\ d \in Documents
        /\ documents'[d] = After(plan)
        /\ After(plan).revision = n + 1
        /\ \A e \in Documents : e # d => documents'[e] = documents[e]
        /\ undo' = undo \cup {Pushed(plan)}
        /\ Pushed(plan).document_id = d
        /\ Pushed(plan).expected_revision = n + 1
        /\ Pushed(plan).original_receipt.after = After(plan)
    BY PushedFacts DEF StackInv, TypeOK, Document
  <1>2. After(plan).features = Candidate(plan) /\ Candidate(plan) \in Contents
    BY CandidateType DEF After, ExecuteApplied, StackInv
  <1>3. \A e \in Documents :
           /\ versionsBar[e] \in Seq(Contents)
           /\ Len(versionsBar[e]) = documents[e].revision
           /\ documents[e].revision \in Nat
           /\ versionsBar'[e] \in Seq(Contents)
           /\ Len(versionsBar'[e]) = documents'[e].revision
    BY StackIsTyped, StackIsTypedNext DEF VersionsTyped
  <1> HIDE DEF d, n
  <1>4. \A e \in Documents : \A k \in 1..documents[e].revision :
           versionsBar'[e][k] = versionsBar[e][k]
    <2> SUFFICES ASSUME NEW e \in Documents, NEW k \in 1..documents[e].revision
                 PROVE  versionsBar'[e][k] = versionsBar[e][k]
      OBVIOUS
    <2>1. PICK record \in undo : record.document_id = e /\ record.expected_revision = k
      BY DEF StackInv, UndoIsAStack, OneRecordPerRevision
    <2>2. versionsBar[e][k] = record.original_receipt.after.features
      BY <2>1, VersionsType
    <2>3. versionsBar'[e][k] = record.original_receipt.after.features
      BY <1>1, <2>1, StackIsTypedNext DEF VersionsTyped
    <2>4. QED
      BY <2>2, <2>3
  <1>5. versionsBar'[d][n + 1] = Candidate(plan)
    BY <1>1, <1>2, StackIsTypedNext DEF VersionsTyped
  <1>6. versionsBar'[d] = Append(versionsBar[d], Candidate(plan))
    <2>1. Append(versionsBar[d], Candidate(plan)) \in Seq(Contents)
      BY <1>1, <1>2, <1>3
    <2>2. Len(Append(versionsBar[d], Candidate(plan))) = n + 1
      BY <1>1, <1>2, <1>3 DEF n
    <2>3. Len(versionsBar'[d]) = n + 1
      BY <1>1, <1>3
    <2>4. \A k \in 1..(n + 1) :
             versionsBar'[d][k] = Append(versionsBar[d], Candidate(plan))[k]
      <3> SUFFICES ASSUME NEW k \in 1..(n + 1)
                   PROVE  versionsBar'[d][k] = Append(versionsBar[d], Candidate(plan))[k]
        OBVIOUS
      <3>0. n \in Nat /\ Len(versionsBar[d]) = n /\ versionsBar[d] \in Seq(Contents)
        BY <1>1, <1>3 DEF n
      <3>1. CASE k = n + 1
        BY <1>2, <1>5, <3>0, <3>1
      <3>2. CASE k \in 1..n
        BY <1>1, <1>2, <1>4, <3>0, <3>2 DEF n
      <3>3. QED
        BY <3>0, <3>1, <3>2
    <2>5. QED
      BY <1>1, <1>3, <2>1, <2>2, <2>3, <2>4, SeqEqual
  <1>7. \A e \in Documents : e # d => versionsBar'[e] = versionsBar[e]
    <2> SUFFICES ASSUME NEW e \in Documents, e # d PROVE versionsBar'[e] = versionsBar[e]
      OBVIOUS
    <2>1. documents'[e] = documents[e]
      BY <1>1
    <2>2. QED
      BY <1>3, <1>4, <2>1, SeqEqual
  <1>8. versionsBar' = [versionsBar EXCEPT ![d] = Append(versionsBar[d], Candidate(plan))]
    BY <1>1, <1>6, <1>7 DEF versionsBar
  <1>9. QED
    BY <1>2, <1>8 DEF Store!Commit, d

\* A successful rollback is an Undo of the abstract store.
LEMMA RolledBackIsUndo ==
    ASSUME StackInv, StackInv', NEW record \in undo, Undoable(record),
           documents' = [documents EXCEPT ![record.document_id] = record.before],
           undo' = undo \ {record}
    PROVE  record.document_id \in Documents /\ Store!Undo(record.document_id)
  <1> DEFINE d == record.document_id
             n == documents[d].revision
  <1>1. /\ d \in Documents
        /\ n \in Nat \ {0}
        /\ record.expected_revision = n
        /\ documents'[d].revision = n - 1
        /\ \A e \in Documents : e # d => documents'[e] = documents[e]
    BY PopFacts
  <1>2. \A e \in Documents :
           /\ versionsBar[e] \in Seq(Contents)
           /\ Len(versionsBar[e]) = documents[e].revision
           /\ documents[e].revision \in Nat
           /\ versionsBar'[e] \in Seq(Contents)
           /\ Len(versionsBar'[e]) = documents'[e].revision
    BY StackIsTyped, StackIsTypedNext DEF VersionsTyped
  <1> HIDE DEF d, n
  <1>3. \A e \in Documents : \A k \in 1..documents[e].revision :
           e # d \/ k # n => versionsBar'[e][k] = versionsBar[e][k]
    <2> SUFFICES ASSUME NEW e \in Documents, NEW k \in 1..documents[e].revision,
                        e # d \/ k # n
                 PROVE  versionsBar'[e][k] = versionsBar[e][k]
      OBVIOUS
    <2>1. PICK r \in undo : r.document_id = e /\ r.expected_revision = k
      BY DEF StackInv, UndoIsAStack, OneRecordPerRevision
    <2>2. r \in undo'
      BY <1>1, <2>1 DEF d
    <2>3. versionsBar[e][k] = r.original_receipt.after.features
      BY <2>1, StackIsTyped DEF VersionsTyped
    <2>4. versionsBar'[e][k] = r.original_receipt.after.features
      BY <2>1, <2>2, StackIsTypedNext DEF VersionsTyped
    <2>5. QED
      BY <2>3, <2>4
  <1>4. versionsBar[d] # <<>>
    BY <1>1, <1>2, EmptySeq DEF n
  <1>5. versionsBar'[d] = SubSeq(versionsBar[d], 1, Len(versionsBar[d]) - 1)
    <2>0. /\ versionsBar[d] \in Seq(Contents)
          /\ Len(versionsBar[d]) = n
          /\ n \in Nat \ {0}
          /\ versionsBar'[d] \in Seq(Contents)
          /\ Len(versionsBar'[d]) = n - 1
      BY <1>1, <1>2 DEF n
    <2> DEFINE popped == SubSeq(versionsBar[d], 1, n - 1)
    <2>1. /\ popped \in Seq(Contents)
          /\ Len(popped) = n - 1
          /\ \A k \in 1..(n - 1) : popped[k] = versionsBar[d][k]
      BY <2>0
    <2>2. \A k \in 1..(n - 1) : versionsBar'[d][k] = versionsBar[d][k]
      BY <1>1, <1>3, <2>0 DEF n
    <2> HIDE DEF popped
    <2>3. versionsBar'[d] = popped
      BY <2>0, <2>1, <2>2, SeqEqual
    <2>4. QED
      BY <2>0, <2>3 DEF popped
  <1>6. \A e \in Documents : e # d => versionsBar'[e] = versionsBar[e]
    <2> SUFFICES ASSUME NEW e \in Documents, e # d PROVE versionsBar'[e] = versionsBar[e]
      OBVIOUS
    <2>1. documents'[e] = documents[e]
      BY <1>1
    <2>2. QED
      BY <1>2, <1>3, <2>1, SeqEqual
  <1>7. versionsBar' = [versionsBar EXCEPT
                           ![d] = SubSeq(versionsBar[d], 1, Len(versionsBar[d]) - 1)]
    <2>1. /\ versionsBar = [e \in Documents |-> versionsBar[e]]
          /\ versionsBar' = [e \in Documents |-> versionsBar'[e]]
      BY DEF versionsBar
    <2>2. QED
      BY <1>1, <1>5, <1>6, <2>1
  <1>8. QED
    BY <1>1, <1>4, <1>7 DEF Store!Undo, d

\* Every step of the adapter is a step of the abstract store or leaves it alone.
LEMMA StepImplements ==
    StackInv /\ StackInv' /\ [Calls]_vars => [Store!Next]_versionsBar
  <1> SUFFICES ASSUME StackInv, StackInv', [Calls]_vars
               PROVE  [Store!Next]_versionsBar
    OBVIOUS
  <1>1. ASSUME UNCHANGED <<documents, undo>>
        PROVE  versionsBar' = versionsBar
    BY <1>1 DEF versionsBar, RecordAt
  <1>2. ASSUME NEW c \in Callers, NEW plan \in AnyPlan, ExecuteRefused(c, plan)
        PROVE  versionsBar' = versionsBar
    BY <1>1, <1>2 DEF ExecuteRefused
  <1>3. ASSUME NEW c \in Callers, NEW plan \in AnyPlan, ExecuteDryRun(c, plan)
        PROVE  versionsBar' = versionsBar
    BY <1>1, <1>3 DEF ExecuteDryRun
  <1>4. ASSUME NEW c \in Callers, NEW plan \in AnyPlan, ExecuteApplied(c, plan)
        PROVE  Store!Next
    BY <1>4, AppliedIsCommit DEF Store!Next, AnyPlan
  <1>5. ASSUME NEW c \in Callers, NEW id \in Nat, RollbackRefused(c, id)
        PROVE  versionsBar' = versionsBar
    BY <1>1, <1>5 DEF RollbackRefused
  <1>6. ASSUME NEW c \in Callers, NEW id \in Nat, RolledBack(c, id)
        PROVE  Store!Next
    BY <1>6, RolledBackIsUndo DEF RolledBack, RecordsUnder, Store!Next
  <1>7. CASE UNCHANGED vars
    BY <1>1, <1>7 DEF vars
  <1>8. QED
    BY <1>2, <1>3, <1>4, <1>5, <1>6, <1>7 DEF Calls, Execute, Rollback

\* Without documents there are no versions.
LEMMA InitImplements == Init => Store!Init
  <1> SUFFICES ASSUME Init PROVE Store!Init
    OBVIOUS
  <1>1. \A d \in Documents : 1..documents[d].revision = {}
    BY DEF Init, NoDocument
  <1>2. QED
    BY <1>1 DEF Store!Init, versionsBar

\* The adapter implements the stack of versions: whatever its callers do, an
\* accepted rollback restores exactly the version before the transaction it
\* undoes and no version is ever lost or changed in any other way.
THEOREM AdapterImplementsVersionStack == Spec => ImplementsVersionStack
  <1>1. Spec => [](TypeOK /\ UndoIsAStack)
    BY TypeCorrect, UndoStackCorrect, PTL
  <1>2. TypeOK /\ UndoIsAStack /\ TypeOK' /\ UndoIsAStack' /\ [Calls]_vars
            => [Store!Next]_versionsBar
    BY StepImplements DEF StackInv
  <1>3. QED
    BY <1>1, <1>2, InitImplements, NextIsACall, PTL DEF Spec, ImplementsVersionStack, Store!Spec

-----------------------------------------------------------------------------
(***************************************************************************)
(* The agent and the recording of its runs.                                *)
(***************************************************************************)
Run == [phase : Phases, status : RunStatuses, document_id : Documents \cup {Absent},
        apply : BOOLEAN, contract : Contracts \cup {Absent}, snapshot : Document,
        attempts : 0..(MaxRepairs + 1), plan : AnyPlan \cup {Absent},
        preview : Receipt, applied : Receipt]

\* A record remembers what its receipt says.
RecordsRemember ==
    \A record \in undo : /\ record.before = record.original_receipt.before
                         /\ record.original_receipt.status = "applied"

\* The local state of a run between its calls.
Local(a) ==
    /\ run[a].status # "none" <=> run[a].phase = "done"
    /\ run[a].phase \notin {"observe", "done"} => run[a].document_id \in Documents
    /\ run[a].phase \in {"preflight", "preview", "apply"} => run[a].plan \in AnyPlan
    /\ run[a].phase \notin {"rollback", "done"} => run[a].applied.status # "applied"
    /\ run[a].applied.status # "applied" => run[a].applied.id = 0

\* What the accepted preview of the plan showed.
PreviewShows(a) ==
    /\ Verified(run[a].contract, run[a].preview)
    /\ run[a].preview.before.revision = run[a].plan.base_revision
    /\ run[a].preview.after =
           [revision |-> run[a].plan.base_revision + 1,
            features |-> Apply(run[a].preview.before.features, run[a].plan.actions)]

\* The apply was of the previewed plan: at the same revision, and rejected only
\* for other features.
AppliedAsPreviewed(a) ==
    run[a].applied.status = "applied" /\ ~Verified(run[a].contract, run[a].applied) =>
        /\ run[a].applied.before.revision = run[a].preview.before.revision
        /\ run[a].applied.before.features # run[a].preview.before.features

\* What a run's edit has come to by each outcome.
Outcome(a) ==
    /\ run[a].phase = "apply" => PreviewShows(a)
    /\ run[a].phase = "rollback" => /\ run[a].applied.status = "applied"
                                    /\ ~Verified(run[a].contract, run[a].applied)
    /\ run[a].status \in {"previewed", "failed"} => run[a].applied.status # "applied"
    /\ run[a].status = "committed" => /\ run[a].document_id \in Documents
                                      /\ Verified(run[a].contract, run[a].applied)
    /\ run[a].status = "rolled_back" => EditOf(a) = {}
    /\ run[a].status = "refused" /\ run[a].applied.status = "applied" =>
           /\ ~Verified(run[a].contract, run[a].applied)
           /\ receipts[a].status = "refused"

\* A run's edit is the one its receipt shows; no later record bears its number.
Edited(a) ==
    /\ run[a].applied.id <= issued
    /\ \A record \in EditOf(a) : record.original_receipt = run[a].applied

AgentInv ==
    /\ StackInv /\ RecordsRemember
    /\ run \in [Agents -> Run]
    /\ \A a \in Agents : Local(a) /\ AppliedAsPreviewed(a) /\ Outcome(a) /\ Edited(a)

\* What is recorded of a run, and where its recording is.
Recorder == [phase : {"idle", "stage", "write", "move", "returned", "raised", "killed"},
             capture : Contents \cup {Absent, Nothing}, error : BOOLEAN, tries : Nat]

Recorded(a) ==
    /\ recorder[a].phase \in {"idle", "stage", "write", "move"} => episodes[a] = Nothing
    /\ recorder[a].phase # "idle" =>
           /\ run[a].phase = "done"
           /\ recorder[a].capture # Nothing <=> run[a].status = "committed"
    /\ episodes[a] # Nothing => /\ episodes[a].status = run[a].status
                                /\ episodes[a].capture = recorder[a].capture
    /\ recorder[a].phase = "returned" /\ ~recorder[a].error => episodes[a] # Nothing
    /\ a \in staging => recorder[a].phase \in {"write", "move", "killed"}

RecordInv ==
    /\ AgentInv
    /\ recorder \in [Agents -> Recorder] /\ episodes \in [Agents -> Episode \cup {Nothing}]
    /\ \A a \in Agents : Recorded(a)
-----------------------------------------------------------------------------
(***************************************************************************)
(* What a call of the adapter leaves, whoever makes it.                    *)
(***************************************************************************)

\* The adapter's invariant holds on, and records are new by their number.
Called ==
    /\ StackInv' /\ RecordsRemember'
    /\ issued \in Nat /\ issued <= issued' /\ issued' \in Nat
    /\ \A record \in undo' : record \in undo \/ record.original_receipt.id > issued

\* The receipt is what the plan does to the document it finds.
Shows(plan, receipt) ==
    /\ receipt.before.revision = plan.base_revision
    /\ receipt.after = [revision |-> plan.base_revision + 1,
                        features |-> Apply(receipt.before.features, plan.actions)]

\* A call of the adapter keeps its types and its stack.
LEMMA CallKeepsStack ==
    ASSUME StackInv, Calls
    PROVE  StackInv' /\ issued \in Nat /\ issued' \in Nat
  <1>1. TypeOK' /\ UndoIsAStack'
    BY TypeStep, StackStep DEF StackInv
  <1>2. QED
    BY <1>1, ConstantsAssumption DEF StackInv, TypeOK

\* No call, no change.
LEMMA NoCall ==
    ASSUME StackInv, RecordsRemember, UNCHANGED vars
    PROVE  Called
  <1>1. TypeOK' /\ UndoIsAStack'
    BY TypeStep, StackStep DEF StackInv
  <1>2. issued \in Nat /\ issued' = issued /\ undo' = undo
    BY ConstantsAssumption DEF StackInv, TypeOK, vars
  <1>3. QED
    BY <1>1, <1>2 DEF Called, StackInv, RecordsRemember

\* What execute returns and keeps.
LEMMA ExecuteFacts ==
    ASSUME StackInv, RecordsRemember, NEW c \in Callers, NEW plan \in AnyPlan,
           NEW dry_run \in BOOLEAN, Execute(c, plan, dry_run)
    PROVE  /\ Called
           /\ receipts'[c] \in Receipt
           /\ \A b \in Callers : b # c => receipts'[b] = receipts[b]
           /\ \/ /\ receipts'[c].status = "refused" /\ receipts'[c].id = 0
                 /\ undo' = undo
              \/ /\ dry_run /\ receipts'[c].status = "dry_run" /\ receipts'[c].id = 0
                 /\ undo' = undo /\ Shows(plan, receipts'[c])
              \/ /\ ~dry_run /\ receipts'[c].status = "applied"
                 /\ receipts'[c].id = issued + 1 /\ issued' = issued + 1
                 /\ Shows(plan, receipts'[c])
                 /\ \A record \in undo' : record \in undo
                                          \/ record.original_receipt = receipts'[c]
  <1>1. StackInv' /\ issued \in Nat /\ issued' \in Nat
    BY CallKeepsStack DEF Calls
  <1>2. receipts'[c] \in Receipt
    BY <1>1 DEF StackInv, TypeOK
  <1>3. receipts \in [Callers -> Receipt]
    BY DEF StackInv, TypeOK
  <1>4. CASE ExecuteRefused(c, plan)
    <2>1. undo' = undo /\ issued' = issued
      BY <1>4 DEF ExecuteRefused
    <2>2. receipts'[c].status = "refused" /\ receipts'[c].id = 0
          /\ \A b \in Callers : b # c => receipts'[b] = receipts[b]
      BY <1>3, <1>4 DEF ExecuteRefused, Return, ReceiptFor
    <2>3. Called
      BY <1>1, <2>1 DEF Called, RecordsRemember
    <2>4. QED
      BY <1>2, <2>1, <2>2, <2>3
  <1>5. CASE dry_run /\ ExecuteDryRun(c, plan)
    <2>1. undo' = undo /\ issued' = issued
      BY <1>5 DEF ExecuteDryRun
    <2>2. receipts'[c] = ReceiptFor(0, "dry_run", documents[plan.document_id], After(plan))
          /\ \A b \in Callers : b # c => receipts'[b] = receipts[b]
      BY <1>3, <1>5 DEF ExecuteDryRun, Return
    <2>3. receipts'[c].status = "dry_run" /\ receipts'[c].id = 0
      BY <2>2 DEF ReceiptFor
    <2>4. documents[plan.document_id].revision = plan.base_revision
      BY <1>5, CandidateType DEF ExecuteDryRun, StackInv
    <2>5. Shows(plan, receipts'[c])
      BY <2>2, <2>4 DEF Shows, ReceiptFor, After, Candidate
    <2>6. Called
      BY <1>1, <2>1 DEF Called, RecordsRemember
    <2>7. QED
      BY <1>2, <1>5, <2>1, <2>2, <2>3, <2>5, <2>6
  <1>6. CASE ~dry_run /\ ExecuteApplied(c, plan)
    <2> DEFINE receipt == ReceiptFor(issued + 1, "applied", documents[plan.document_id],
                                     After(plan))
    <2>1. /\ undo' = undo \cup {Pushed(plan)} /\ issued' = issued + 1
          /\ receipts' = [receipts EXCEPT ![c] = receipt]
      BY <1>6 DEF ExecuteApplied, Return, Pushed
    <2>2. receipts'[c] = receipt /\ \A b \in Callers : b # c => receipts'[b] = receipts[b]
      BY <1>3, <2>1
    <2>3. receipt.status = "applied" /\ receipt.id = issued + 1
          /\ receipt.before = documents[plan.document_id] /\ receipt.after = After(plan)
      BY DEF ReceiptFor
    <2>4. documents[plan.document_id].revision = plan.base_revision
      BY <1>6, CandidateType DEF ExecuteApplied, StackInv
    <2>5. Shows(plan, receipt)
      BY <2>3, <2>4 DEF Shows, After, Candidate
    <2>6. Pushed(plan).original_receipt = receipt /\ Pushed(plan).before = receipt.before
      BY <2>3 DEF Pushed
    <2> HIDE DEF receipt
    <2>7. RecordsRemember'
      BY <2>1, <2>3, <2>6 DEF RecordsRemember
    <2>8. \A record \in undo' : record \in undo \/ record.original_receipt = receipt
      BY <2>1, <2>6
    <2>9. Called
      BY <1>1, <2>1, <2>3, <2>7, <2>8 DEF Called
    <2>10. QED
      BY <1>2, <1>6, <2>1, <2>2, <2>3, <2>5, <2>8, <2>9
  <1>7. QED
    BY <1>4, <1>5, <1>6 DEF Execute

\* What rollback returns, and which record is gone.
LEMMA RollbackFacts ==
    ASSUME StackInv, RecordsRemember, NEW c \in Callers, NEW id \in Nat, Rollback(c, id)
    PROVE  /\ Called /\ undo' \subseteq undo
           /\ \A b \in Callers : b # c => receipts'[b] = receipts[b]
           /\ receipts'[c].status \in {"refused", "rolled_back"}
           /\ receipts'[c].status = "rolled_back" =>
                  \A record \in undo' : record.original_receipt.id # id
  <1>1. StackInv' /\ issued \in Nat /\ issued' \in Nat
    BY CallKeepsStack DEF Calls
  <1>2. receipts \in [Callers -> Receipt]
    BY DEF StackInv, TypeOK
  <1>3. CASE RollbackRefused(c, id)
    <2>1. undo' = undo /\ issued' = issued
      BY <1>3 DEF RollbackRefused
    <2>2. receipts'[c].status = "refused"
          /\ \A b \in Callers : b # c => receipts'[b] = receipts[b]
      BY <1>2, <1>3 DEF RollbackRefused, Return, ReceiptFor
    <2>3. Called
      BY <1>1, <2>1 DEF Called, RecordsRemember
    <2>4. QED
      BY <2>1, <2>2, <2>3
  <1>4. CASE RolledBack(c, id)
    <2>1. PICK record \in RecordsUnder(id) :
             /\ undo' = undo \ {record} /\ issued' = issued
             /\ Return(c, ReceiptFor(0, "rolled_back",
                                     documents[record.document_id], record.before))
      BY <1>4 DEF RolledBack
    <2>2. receipts'[c].status = "rolled_back"
          /\ \A b \in Callers : b # c => receipts'[b] = receipts[b]
      BY <1>2, <2>1 DEF Return, ReceiptFor
    <2>3. \A other \in undo' : other.original_receipt.id # id
      BY <2>1 DEF RecordsUnder, StackInv, UndoIsAStack, DistinctReceipts
    <2>4. Called
      BY <1>1, <2>1 DEF Called, RecordsRemember
    <2>5. QED
      BY <2>1, <2>2, <2>3, <2>4
  <1>5. QED
    BY <1>3, <1>4 DEF Rollback
-----------------------------------------------------------------------------
(***************************************************************************)
(* What a step leaves of the runs.                                         *)
(***************************************************************************)
Sane(a) == Local(a) /\ AppliedAsPreviewed(a) /\ Outcome(a) /\ Edited(a)

\* A run that has not applied its plan.
Unapplied(a) ==
    /\ run[a].applied.status # "applied" /\ run[a].applied.id = 0
    /\ run[a].phase # "rollback" /\ run[a].status # "committed"
    /\ run[a].status # "none" <=> run[a].phase = "done"
    /\ run[a].phase \notin {"observe", "done"} => run[a].document_id \in Documents
    /\ run[a].phase \in {"preflight", "preview", "apply"} => run[a].plan \in AnyPlan
    /\ run[a].phase = "apply" => PreviewShows(a)

\* Such a run has no edit to answer for.
UnappliedAreSane == \A a \in Agents : Unapplied(a) => Sane(a)

\* A run that applied nothing has no edit in the document to answer for.
LEMMA UnappliedIsSane == StackInv => UnappliedAreSane
  <1> SUFFICES ASSUME StackInv, NEW a \in Agents, Unapplied(a) PROVE Sane(a)
    BY DEF UnappliedAreSane
  <1>1. EditOf(a) = {} /\ issued \in Nat
    BY ConstantsAssumption
       DEF StackInv, UndoIsAStack, DistinctReceipts, TypeOK, EditOf, Unapplied
  <1>2. Local(a) /\ AppliedAsPreviewed(a)
    BY DEF Unapplied, Local, AppliedAsPreviewed
  <1>3. Outcome(a)
    BY <1>1 DEF Unapplied, Outcome
  <1>4. Edited(a)
    BY <1>1 DEF Unapplied, Edited
  <1>5. QED
    BY <1>2, <1>3, <1>4 DEF Sane

\* The same of the state after a step.
LEMMA UnappliedIsSaneNext == StackInv' => UnappliedAreSane'
  BY UnappliedIsSane, PTL

Fields == {"phase", "status", "document_id", "apply", "contract", "snapshot", "attempts",
           "plan", "preview", "applied"}

\* What a run is made of.
LEMMA RunFacts ==
    ASSUME AgentInv, NEW a \in Agents
    PROVE  /\ run \in [Agents -> Run] /\ run[a] \in Run /\ a \in Callers
           /\ DOMAIN run[a] = Fields
           /\ run[a].phase \in Phases /\ run[a].status \in RunStatuses
           /\ run[a].document_id \in Documents \cup {Absent}
           /\ run[a].apply \in BOOLEAN /\ run[a].contract \in Contracts \cup {Absent}
           /\ run[a].snapshot \in Document /\ run[a].attempts \in 0..(MaxRepairs + 1)
           /\ run[a].plan \in AnyPlan \cup {Absent}
           /\ run[a].preview \in Receipt /\ run[a].applied \in Receipt
           /\ run[a].applied.id \in Nat
           /\ Sane(a) /\ StackInv /\ RecordsRemember
  <1>1. run \in [Agents -> Run] /\ run[a] \in Run /\ a \in Callers
    BY AgentsAssumption DEF AgentInv
  <1>2. /\ DOMAIN run[a] = Fields
        /\ run[a].phase \in Phases /\ run[a].status \in RunStatuses
        /\ run[a].document_id \in Documents \cup {Absent}
        /\ run[a].apply \in BOOLEAN /\ run[a].contract \in Contracts \cup {Absent}
        /\ run[a].snapshot \in Document /\ run[a].attempts \in 0..(MaxRepairs + 1)
        /\ run[a].plan \in AnyPlan \cup {Absent}
        /\ run[a].preview \in Receipt /\ run[a].applied \in Receipt
    BY <1>1 DEF Run, Fields
  <1>3. run[a].applied.id \in Nat
    BY <1>2, ConstantsAssumption DEF Receipt
  <1>4. QED
    BY <1>1, <1>2, <1>3 DEF AgentInv, Sane

\* A run in a phase before its apply has applied nothing.
LEMMA EarlyIsUnapplied ==
    ASSUME AgentInv, NEW a \in Agents, run[a].phase \notin {"rollback", "done"}
    PROVE  Unapplied(a) /\ run[a].status = "none"
  BY RunFacts DEF Sane, Local, Outcome, Unapplied

\* A call by somebody else leaves a run, and what is said of it.
LEMMA OthersAreKept ==
    ASSUME AgentInv, NEW a \in Agents, Called, run'[a] = run[a], receipts'[a] = receipts[a]
    PROVE  Sane(a)'
  <1>1. Sane(a) /\ run[a].applied.id \in Nat
    BY RunFacts
  <1>2. EditOf(a)' \subseteq EditOf(a)
    <2> SUFFICES ASSUME NEW record \in undo',
                        record.original_receipt.id = run[a].applied.id
                 PROVE  record \in undo
      BY DEF EditOf
    <2>1. record.original_receipt.id <= issued
      BY <1>1 DEF Sane, Edited
    <2>2. QED
      BY <1>1, <2>1 DEF Called
  <1>3. Local(a)' /\ AppliedAsPreviewed(a)'
    BY <1>1 DEF Sane, Local, AppliedAsPreviewed
  <1>4. Outcome(a)'
    BY <1>1, <1>2 DEF Sane, Outcome, PreviewShows
  <1>5. Edited(a)'
    BY <1>1, <1>2 DEF Sane, Edited, Called
  <1>6. QED
    BY <1>3, <1>4, <1>5 DEF Sane

\* After a step of run a the invariant is what it is for a, for the others it
\* is kept.
LEMMA OneRunMoves ==
    ASSUME AgentInv, NEW a \in Agents, Called,
           \A b \in Callers : b # a => receipts'[b] = receipts[b],
           \A b \in Agents : b # a => run'[b] = run[b],
           run' \in [Agents -> Run], Sane(a)'
    PROVE  AgentInv'
  <1>1. \A b \in Agents : b # a => Sane(b)'
    BY OthersAreKept, AgentsAssumption
  <1>2. QED
    BY <1>1 DEF AgentInv, Called, Sane

\* Nothing changes but a run that has applied nothing.
LEMMA LocalStep ==
    ASSUME AgentInv, NEW a \in Agents, UNCHANGED vars,
           \A b \in Agents : b # a => run'[b] = run[b],
           run' \in [Agents -> Run], Unapplied(a)'
    PROVE  AgentInv'
  <1>1. Called
    BY NoCall DEF AgentInv
  <1>2. Sane(a)'
    BY <1>1, UnappliedIsSaneNext DEF Called, UnappliedAreSane
  <1>3. receipts' = receipts
    BY DEF vars
  <1>4. QED
    BY <1>1, <1>2, <1>3, OneRunMoves
-----------------------------------------------------------------------------
(***************************************************************************)
(* The steps of a run.                                                     *)
(***************************************************************************)

\* A local step keeps every field it does not name.
Updated(a, fields) ==
    [f \in Fields |-> IF f \in DOMAIN fields THEN fields[f] ELSE run[a][f]]

\* An assignment to local variables of one run leaves the others alone.
LEMMA UpdateFacts ==
    ASSUME AgentInv, NEW a \in Agents, NEW fields, Update(a, fields)
    PROVE  /\ DOMAIN run' = Agents /\ \A b \in Agents : b # a => run'[b] = run[b]
           /\ run' = [b \in Agents |-> run'[b]]
           /\ run'[a] = Updated(a, fields)
  BY RunFacts DEF Update, Updated

\* The runs are well typed if the fields of the one that was updated are.
LEMMA UpdateType ==
    ASSUME AgentInv, NEW a \in Agents, NEW fields, Update(a, fields),
           /\ run'[a].phase \in Phases /\ run'[a].status \in RunStatuses
           /\ run'[a].document_id \in Documents \cup {Absent}
           /\ run'[a].apply \in BOOLEAN /\ run'[a].contract \in Contracts \cup {Absent}
           /\ run'[a].snapshot \in Document /\ run'[a].attempts \in 0..(MaxRepairs + 1)
           /\ run'[a].plan \in AnyPlan \cup {Absent}
           /\ run'[a].preview \in Receipt /\ run'[a].applied \in Receipt
    PROVE  run' \in [Agents -> Run]
  <1>1. run'[a] = [f \in Fields |-> run'[a][f]]
    BY UpdateFacts DEF Updated
  <1>2. run'[a] \in Run
    BY <1>1 DEF Fields, Run
  <1>3. \A b \in Agents : run'[b] \in Run
    BY <1>2, UpdateFacts, RunFacts
  <1>4. run' = [b \in Agents |-> run'[b]]
    BY UpdateFacts
  <1>5. QED
    BY <1>3, <1>4

\* A run observes and compiles: it has a document, and applied nothing.
LEMMA ObserveStep ==
    ASSUME AgentInv, NEW a \in Agents, NEW d \in Documents, NEW apply \in BOOLEAN,
           NEW contract \in Contracts, ObserveAndCompile(a, d, apply, contract)
    PROVE  AgentInv'
  <1> DEFINE fields == [phase |-> "plan", document_id |-> d, apply |-> apply,
                        contract |-> contract, snapshot |-> Observe(d), attempts |-> 1]
  <1>1. run[a].phase = "observe" /\ Update(a, fields) /\ UNCHANGED vars
    BY DEF ObserveAndCompile
  <1>2. Observe(d) \in Document /\ 1 \in 0..(MaxRepairs + 1)
    BY RunFacts, AgentsAssumption DEF StackInv, TypeOK, Observe
  <1> HIDE DEF fields
  <1>3. run'[a] = Updated(a, fields)
    BY <1>1, UpdateFacts
  <1>4. /\ run'[a].phase = "plan" /\ run'[a].status = run[a].status
        /\ run'[a].document_id = d /\ run'[a].apply = apply /\ run'[a].contract = contract
        /\ run'[a].snapshot = Observe(d) /\ run'[a].attempts = 1
        /\ run'[a].plan = run[a].plan /\ run'[a].preview = run[a].preview
        /\ run'[a].applied = run[a].applied
    BY <1>3 DEF Updated, Fields, fields
  <1>5. run' \in [Agents -> Run]
    BY <1>1, <1>2, <1>4, RunFacts, UpdateType DEF Phases
  <1>6. Unapplied(a)'
    BY <1>1, <1>4, EarlyIsUnapplied DEF Unapplied
  <1>7. QED
    BY <1>1, <1>5, <1>6, LocalStep, UpdateFacts

\* A run that cannot observe or compile is over, and applied nothing.
LEMMA CompileFailsStep ==
    ASSUME AgentInv, NEW a \in Agents, CompileFails(a)
    PROVE  AgentInv'
  <1> DEFINE fields == Finish(a, "failed")
  <1>1. run[a].phase = "observe" /\ Update(a, fields) /\ UNCHANGED vars
    BY DEF CompileFails
  <1> HIDE DEF fields
  <1>2. run'[a] = Updated(a, fields)
    BY <1>1, UpdateFacts
  <1>3. /\ run'[a].phase = "done" /\ run'[a].status = "failed"
        /\ run'[a].document_id = run[a].document_id /\ run'[a].apply = run[a].apply
        /\ run'[a].contract = run[a].contract /\ run'[a].snapshot = run[a].snapshot
        /\ run'[a].attempts = run[a].attempts /\ run'[a].plan = run[a].plan
        /\ run'[a].preview = run[a].preview /\ run'[a].applied = run[a].applied
    BY <1>2 DEF Updated, Fields, fields, Finish
  <1>4. run' \in [Agents -> Run]
    BY <1>1, <1>3, RunFacts, UpdateType DEF Phases, RunStatuses
  <1>5. Unapplied(a)'
    BY <1>1, <1>3, EarlyIsUnapplied DEF Unapplied
  <1>6. QED
    BY <1>1, <1>4, <1>5, LocalStep, UpdateFacts

\* What the planner accepts is a plan for the observed revision.
LEMMA ProposeStep ==
    ASSUME AgentInv, NEW a \in Agents, NEW actions \in ActionLists, Propose(a, actions)
    PROVE  AgentInv'
  <1> DEFINE plan == ProposedPlan(a, actions)
             fields == [phase |-> "preflight", plan |-> plan]
  <1>1. run[a].phase = "plan" /\ Update(a, fields) /\ UNCHANGED vars
    BY DEF Propose
  <1>2. Unapplied(a) /\ run[a].document_id \in Documents
    BY <1>1, EarlyIsUnapplied DEF Unapplied
  <1>3. plan \in AnyPlan
    BY <1>2, RunFacts DEF ProposedPlan, AnyPlan, Document
  <1> HIDE DEF fields, plan
  <1>4. run'[a] = Updated(a, fields)
    BY <1>1, UpdateFacts
  <1>5. /\ run'[a].phase = "preflight" /\ run'[a].status = run[a].status
        /\ run'[a].document_id = run[a].document_id /\ run'[a].apply = run[a].apply
        /\ run'[a].contract = run[a].contract /\ run'[a].snapshot = run[a].snapshot
        /\ run'[a].attempts = run[a].attempts /\ run'[a].plan = plan
        /\ run'[a].preview = run[a].preview /\ run'[a].applied = run[a].applied
    BY <1>4 DEF Updated, Fields, fields
  <1>6. run' \in [Agents -> Run]
    BY <1>1, <1>3, <1>5, RunFacts, UpdateType DEF Phases
  <1>7. Unapplied(a)'
    BY <1>1, <1>2, <1>3, <1>5 DEF Unapplied
  <1>8. QED
    BY <1>1, <1>6, <1>7, LocalStep, UpdateFacts

\* An attempt was rejected: there is another one, or the run is refused.
Rejected(a) ==
    \/ /\ run[a].attempts <= MaxRepairs
       /\ run'[a].phase = "plan" /\ run'[a].status = run[a].status
       /\ run'[a].attempts = run[a].attempts + 1
    \/ /\ run'[a].phase = "done" /\ run'[a].status = "refused"
       /\ run'[a].attempts = run[a].attempts

\* A rejected attempt, whether it is repaired or ends the run, leaves a run that
\* applied nothing (the repair loop of run).
LEMMA RejectedFacts ==
    ASSUME AgentInv, NEW a \in Agents, run[a].phase \notin {"rollback", "done"}, Rejected(a),
           run'[a].document_id = run[a].document_id, run'[a].applied = run[a].applied
    PROVE  /\ run'[a].phase \in Phases /\ run'[a].status \in RunStatuses
           /\ run'[a].attempts \in 0..(MaxRepairs + 1)
           /\ run[a].phase # "observe" => Unapplied(a)'
  <1>1. Unapplied(a) /\ run[a].status = "none"
    BY EarlyIsUnapplied
  <1>2. run'[a].phase \in Phases /\ run'[a].status \in RunStatuses
    BY <1>1 DEF Rejected, Phases, RunStatuses
  <1>3. run'[a].attempts \in 0..(MaxRepairs + 1)
    BY RunFacts, AgentsAssumption DEF Rejected
  <1>4. run[a].phase # "observe" => Unapplied(a)'
    BY <1>1 DEF Rejected, Unapplied
  <1>5. QED
    BY <1>2, <1>3, <1>4

\* The local step by which an attempt is rejected.
LEMMA RejectionStep ==
    ASSUME AgentInv, NEW a \in Agents, run[a].phase \in {"plan", "preflight"},
           Update(a, AfterRejection(a)), UNCHANGED vars
    PROVE  AgentInv'
  <1> DEFINE fields == AfterRejection(a)
  <1>1. \/ run[a].attempts <= MaxRepairs
           /\ fields = [phase |-> "plan", attempts |-> run[a].attempts + 1]
        \/ fields = [phase |-> "done", status |-> "refused"]
    BY DEF AfterRejection, Finish
  <1>2. Update(a, fields)
    OBVIOUS
  <1> HIDE DEF fields
  <1>3. run'[a] = Updated(a, fields)
    BY <1>2, UpdateFacts
  <1>4. /\ run'[a].document_id = run[a].document_id /\ run'[a].apply = run[a].apply
        /\ run'[a].contract = run[a].contract /\ run'[a].snapshot = run[a].snapshot
        /\ run'[a].plan = run[a].plan
        /\ run'[a].preview = run[a].preview /\ run'[a].applied = run[a].applied
        /\ Rejected(a)
    BY <1>1, <1>3 DEF Updated, Fields, Rejected
  <1>5. run' \in [Agents -> Run] /\ Unapplied(a)'
    BY <1>2, <1>4, RejectedFacts, RunFacts, UpdateType
  <1>6. QED
    BY <1>2, <1>5, LocalStep, UpdateFacts

\* The preflight of a plan calls no adapter and keeps the invariant.
LEMMA PreflightStep ==
    ASSUME AgentInv, NEW a \in Agents, Preflight(a)
    PROVE  AgentInv'
  <1>1. run[a].phase = "preflight" /\ UNCHANGED vars
    BY DEF Preflight
  <1>2. CASE ~Valid(run[a].plan)
    BY <1>1, <1>2, RejectionStep DEF Preflight
  <1>3. CASE Valid(run[a].plan)
    <2> DEFINE fields == [phase |-> "preview"]
    <2>1. Update(a, fields)
      BY <1>3 DEF Preflight
    <2> HIDE DEF fields
    <2>2. run'[a] = Updated(a, fields)
      BY <2>1, UpdateFacts
    <2>3. /\ run'[a].phase = "preview" /\ run'[a].status = run[a].status
          /\ run'[a].document_id = run[a].document_id /\ run'[a].apply = run[a].apply
          /\ run'[a].contract = run[a].contract /\ run'[a].snapshot = run[a].snapshot
          /\ run'[a].attempts = run[a].attempts /\ run'[a].plan = run[a].plan
          /\ run'[a].preview = run[a].preview /\ run'[a].applied = run[a].applied
      BY <2>2 DEF Updated, Fields, fields
    <2>4. run' \in [Agents -> Run]
      BY <2>1, <2>3, RunFacts, UpdateType DEF Phases
    <2>5. Unapplied(a)'
      BY <1>1, <2>3, EarlyIsUnapplied DEF Unapplied
    <2>6. QED
      BY <1>1, <2>1, <2>4, <2>5, LocalStep, UpdateFacts
  <1>4. QED
    BY <1>2, <1>3

\* The dry run: an accepted one shows what the plan does at its revision.
LEMMA PreviewStep ==
    ASSUME AgentInv, NEW a \in Agents, Preview(a)
    PROVE  AgentInv'
  <1> DEFINE receipt == receipts'[a]
             good == Verified(run[a].contract, receipt)
             next == IF ~good THEN AfterRejection(a)
                     ELSE IF run[a].apply THEN [phase |-> "apply"]
                     ELSE Finish(a, "previewed")
             fields == [f \in DOMAIN next \cup {"preview"} |->
                           IF f = "preview" THEN receipt ELSE next[f]]
  <1>1. run[a].phase = "preview" /\ Execute(a, run[a].plan, TRUE) /\ Update(a, fields)
    BY DEF Preview
  <1>2. Unapplied(a) /\ run[a].plan \in AnyPlan /\ run[a].status = "none"
    BY <1>1, EarlyIsUnapplied DEF Unapplied
  <1>3. /\ Called /\ receipt \in Receipt
        /\ \A b \in Callers : b # a => receipts'[b] = receipts[b]
        /\ \/ receipt.status = "refused"
           \/ receipt.status = "dry_run" /\ Shows(run[a].plan, receipt)
    BY <1>1, <1>2, RunFacts, ExecuteFacts
  <1>4. good => Shows(run[a].plan, receipt)
    BY <1>3 DEF Verified, Accepted
  <1>5. \/ ~good /\ run[a].attempts <= MaxRepairs
           /\ next = [phase |-> "plan", attempts |-> run[a].attempts + 1]
        \/ ~good /\ next = [phase |-> "done", status |-> "refused"]
        \/ good /\ next = [phase |-> "apply"]
        \/ good /\ next = [phase |-> "done", status |-> "previewed"]
    BY DEF AfterRejection, Finish
  <1> HIDE DEF next, receipt, good
  <1>6. run'[a] = Updated(a, fields)
    BY <1>1, UpdateFacts
  <1>7. /\ run'[a].document_id = run[a].document_id /\ run'[a].apply = run[a].apply
        /\ run'[a].contract = run[a].contract /\ run'[a].snapshot = run[a].snapshot
        /\ run'[a].plan = run[a].plan
        /\ run'[a].preview = receipt /\ run'[a].applied = run[a].applied
        /\ \/ Rejected(a)
           \/ /\ good /\ run'[a].attempts = run[a].attempts
              /\ \/ run'[a].phase = "apply" /\ run'[a].status = run[a].status
                 \/ run'[a].phase = "done" /\ run'[a].status = "previewed"
    BY <1>5, <1>6 DEF Updated, Fields, Rejected
  <1> HIDE DEF fields
  <1>8. run' \in [Agents -> Run] /\ Unapplied(a)'
    <2>1. CASE Rejected(a)
      BY <1>1, <1>3, <1>7, <2>1, RejectedFacts, RunFacts, UpdateType
    <2>2. CASE good /\ run'[a].phase = "apply" /\ run'[a].status = run[a].status
               /\ run'[a].attempts = run[a].attempts
      <3>1. PreviewShows(a)'
        BY <1>4, <1>7, <2>2 DEF PreviewShows, Shows, good
      <3>2. Unapplied(a)'
        BY <1>1, <1>2, <1>7, <2>2, <3>1 DEF Unapplied
      <3>3. run' \in [Agents -> Run]
        BY <1>1, <1>3, <1>7, <2>2, RunFacts, UpdateType DEF Phases
      <3>4. QED
        BY <3>2, <3>3
    <2>3. CASE run'[a].phase = "done" /\ run'[a].status = "previewed"
               /\ run'[a].attempts = run[a].attempts
      <3>1. Unapplied(a)'
        BY <1>1, <1>2, <1>7, <2>3 DEF Unapplied
      <3>2. run' \in [Agents -> Run]
        BY <1>1, <1>3, <1>7, <2>3, RunFacts, UpdateType DEF Phases, RunStatuses
      <3>3. QED
        BY <3>1, <3>2
    <2>4. QED
      BY <1>7, <2>1, <2>2, <2>3
  <1>9. Sane(a)'
    BY <1>3, <1>8, UnappliedIsSaneNext DEF Called, UnappliedAreSane
  <1>10. QED
    BY <1>1, <1>3, <1>8, <1>9, OneRunMoves, UpdateFacts

\* Preview and apply of one plan agree on equal documents.
LEMMA SameContentSameVerdict ==
    ASSUME NEW contract, NEW plan, NEW preview \in Receipt, NEW applied \in Receipt,
           Verified(contract, preview), Shows(plan, preview), Shows(plan, applied),
           applied.status = "applied", applied.before.features = preview.before.features
    PROVE  Verified(contract, applied)
  <1>1. preview.before \in Document /\ applied.before \in Document
    BY DEF Receipt
  <1>2. preview.before = applied.before
    BY <1>1 DEF Document, Shows
  <1>3. preview.after = applied.after
    BY DEF Shows
  <1>4. QED
    BY <1>2, <1>3 DEF Verified, Accepted

\* The apply: committed if verified, refused if nothing was applied, and to be
\* rolled back otherwise, which only other features than previewed can bring about.
LEMMA ApplyStep ==
    ASSUME AgentInv, NEW a \in Agents, ApplyPlan(a)
    PROVE  AgentInv'
  <1> DEFINE receipt == receipts'[a]
             good == Verified(run[a].contract, receipt)
             next == IF good THEN Finish(a, "committed")
                     ELSE IF Accepted(receipt) THEN [phase |-> "rollback"]
                     ELSE Finish(a, "refused")
             fields == [f \in DOMAIN next \cup {"applied"} |->
                           IF f = "applied" THEN receipt ELSE next[f]]
  <1>1. run[a].phase = "apply" /\ Execute(a, run[a].plan, FALSE) /\ Update(a, fields)
    BY DEF ApplyPlan
  <1>2. /\ Unapplied(a) /\ run[a].plan \in AnyPlan /\ run[a].status = "none"
        /\ PreviewShows(a) /\ run[a].document_id \in Documents
    BY <1>1, EarlyIsUnapplied DEF Unapplied
  <1>3. /\ Called /\ receipt \in Receipt
        /\ \A b \in Callers : b # a => receipts'[b] = receipts[b]
        /\ \/ receipt.status = "refused" /\ receipt.id = 0
           \/ /\ receipt.status = "applied" /\ receipt.id = issued + 1 /\ issued' = issued + 1
              /\ Shows(run[a].plan, receipt)
              /\ \A record \in undo' : record \in undo \/ record.original_receipt = receipt
    BY <1>1, <1>2, RunFacts, ExecuteFacts
  <1>4. good => receipt.status # "refused"
    BY DEF Verified, Accepted
  <1>5. \/ good /\ next = [phase |-> "done", status |-> "committed"]
        \/ ~good /\ receipt.status = "applied" /\ next = [phase |-> "rollback"]
        \/ ~good /\ receipt.status # "applied" /\ next = [phase |-> "done", status |-> "refused"]
    BY <1>3 DEF Finish, Accepted
  <1> HIDE DEF next, receipt, good
  <1>6. run'[a] = Updated(a, fields)
    BY <1>1, UpdateFacts
  <1>7. /\ run'[a].document_id = run[a].document_id /\ run'[a].apply = run[a].apply
        /\ run'[a].contract = run[a].contract /\ run'[a].snapshot = run[a].snapshot
        /\ run'[a].attempts = run[a].attempts /\ run'[a].plan = run[a].plan
        /\ run'[a].preview = run[a].preview /\ run'[a].applied = receipt
        /\ \/ good /\ run'[a].phase = "done" /\ run'[a].status = "committed"
           \/ /\ ~good /\ receipt.status = "applied"
              /\ run'[a].phase = "rollback" /\ run'[a].status = run[a].status
           \/ /\ ~good /\ receipt.status # "applied"
              /\ run'[a].phase = "done" /\ run'[a].status = "refused"
    BY <1>5, <1>6 DEF Updated, Fields
  <1> HIDE DEF fields
  <1>8. run' \in [Agents -> Run]
    BY <1>1, <1>3, <1>7, RunFacts, UpdateType DEF Phases, RunStatuses
  <1>9. Sane(a)'
    <2>1. CASE receipt.status = "refused" /\ receipt.id = 0
      <3>1. Unapplied(a)'
        BY <1>2, <1>4, <1>7, <2>1 DEF Unapplied
      <3>2. QED
        BY <1>3, <3>1, UnappliedIsSaneNext DEF Called, UnappliedAreSane
    <2>2. CASE /\ receipt.status = "applied" /\ receipt.id = issued + 1 /\ issued' = issued + 1
               /\ Shows(run[a].plan, receipt)
               /\ \A record \in undo' : record \in undo \/ record.original_receipt = receipt
      <3>1. /\ \/ good /\ run'[a].phase = "done" /\ run'[a].status = "committed"
               \/ ~good /\ run'[a].phase = "rollback" /\ run'[a].status = "none"
              /\ good <=> Verified(run'[a].contract, run'[a].applied)
        BY <1>2, <1>7, <2>2 DEF good
      <3>2. Local(a)'
        BY <1>2, <1>7, <2>2, <3>1 DEF Local
      <3>3. AppliedAsPreviewed(a)'
        <4>1. /\ Shows(run[a].plan, run[a].preview)
              /\ Verified(run[a].contract, run[a].preview) /\ run[a].preview \in Receipt
          BY <1>2, RunFacts DEF PreviewShows, Shows
        <4>2. ~good => receipt.before.features # run[a].preview.before.features
          BY <1>3, <2>2, <4>1, SameContentSameVerdict DEF good
        <4>3. receipt.before.revision = run[a].preview.before.revision
          BY <2>2, <4>1 DEF Shows
        <4>4. QED
          BY <1>7, <3>1, <4>2, <4>3 DEF AppliedAsPreviewed
      <3>4. Outcome(a)'
        BY <1>2, <1>7, <2>2, <3>1 DEF Outcome
      <3>5. Edited(a)'
        <4>1. \A record \in undo : record.original_receipt.id <= issued
          BY RunFacts DEF StackInv, UndoIsAStack, DistinctReceipts
        <4>2. \A record \in undo' : record.original_receipt.id = receipt.id
                                        => record.original_receipt = receipt
          BY <1>3, <2>2, <4>1 DEF Called
        <4>3. run'[a].applied.id <= issued'
          BY <1>3, <1>7, <2>2 DEF Called
        <4>4. QED
          BY <1>7, <4>2, <4>3 DEF Edited, EditOf
      <3>6. QED
        BY <3>2, <3>3, <3>4, <3>5 DEF Sane
    <2>3. QED
      BY <1>3, <2>1, <2>2
  <1>10. QED
    BY <1>1, <1>3, <1>8, <1>9, OneRunMoves, UpdateFacts

\* The rollback: the run's edit is gone, or it is refused and says so.
LEMMA RollBackStep ==
    ASSUME AgentInv, NEW a \in Agents, RollBackRun(a)
    PROVE  AgentInv'
  <1> DEFINE st == IF Accepted(receipts'[a]) THEN "rolled_back" ELSE "refused"
             fields == Finish(a, st)
  <1>1. run[a].phase = "rollback" /\ Rollback(a, run[a].applied.id) /\ Update(a, fields)
    BY DEF RollBackRun
  <1>2. Sane(a) /\ StackInv /\ RecordsRemember /\ a \in Callers /\ run[a].applied.id \in Nat
    BY RunFacts
  <1>3. /\ Called /\ undo' \subseteq undo
        /\ \A b \in Callers : b # a => receipts'[b] = receipts[b]
        /\ receipts'[a].status \in {"refused", "rolled_back"}
        /\ receipts'[a].status = "rolled_back" =>
               \A record \in undo' : record.original_receipt.id # run[a].applied.id
    BY <1>1, <1>2, RollbackFacts
  <1>4. \/ st = "rolled_back" /\ receipts'[a].status = "rolled_back"
        \/ st = "refused" /\ receipts'[a].status = "refused"
    BY <1>3 DEF Accepted
  <1> HIDE DEF st, fields
  <1>5. run'[a] = Updated(a, fields)
    BY <1>1, UpdateFacts
  <1>6. /\ run'[a].document_id = run[a].document_id /\ run'[a].apply = run[a].apply
        /\ run'[a].contract = run[a].contract /\ run'[a].snapshot = run[a].snapshot
        /\ run'[a].attempts = run[a].attempts /\ run'[a].plan = run[a].plan
        /\ run'[a].preview = run[a].preview /\ run'[a].applied = run[a].applied
        /\ run'[a].phase = "done" /\ run'[a].status = st
    BY <1>5 DEF Updated, Fields, fields, Finish
  <1>7. run' \in [Agents -> Run]
    BY <1>1, <1>4, <1>6, RunFacts, UpdateType DEF Phases, RunStatuses
  <1>8. Local(a)' /\ AppliedAsPreviewed(a)'
    BY <1>2, <1>4, <1>6 DEF Sane, Local, AppliedAsPreviewed
  <1>9. Outcome(a)'
    BY <1>1, <1>2, <1>3, <1>4, <1>6 DEF Sane, Outcome, EditOf
  <1>10. Edited(a)'
    BY <1>2, <1>3, <1>6 DEF Sane, Edited, EditOf, Called
  <1>11. Sane(a)'
    BY <1>8, <1>9, <1>10 DEF Sane
  <1>12. QED
    BY <1>1, <1>3, <1>7, <1>11, OneRunMoves, UpdateFacts

\* A user's call leaves every run alone.
LEMMA UserStepKeeps ==
    ASSUME AgentInv, NEW u \in Users, UserStep(u)
    PROVE  AgentInv'
  <1>1. u \in Callers /\ u \notin Agents /\ StackInv /\ RecordsRemember
    BY DEF Users, AgentInv
  <1>2. Called /\ run' = run /\ \A b \in Callers : b # u => receipts'[b] = receipts[b]
    <2>1. CASE \E plan \in Plan : UserApplies(u, plan)
      <3>1. PICK plan \in AnyPlan : Execute(u, plan, FALSE) /\ run' = run
        BY <2>1, ConstantsAssumption DEF UserApplies, Execute, Plan, AnyPlan
      <3>2. QED
        BY <1>1, <3>1, ExecuteFacts
    <2>2. CASE \E id \in 1..issued : UserRollsBack(u, id)
      <3>1. PICK id \in Nat : Rollback(u, id) /\ run' = run
        BY <2>2 DEF UserRollsBack, Rollback
      <3>2. QED
        BY <1>1, <3>1, RollbackFacts
    <2>3. QED
      BY <2>1, <2>2 DEF UserStep
  <1>3. \A a \in Agents : Sane(a)'
    BY <1>1, <1>2, OthersAreKept, AgentsAssumption
  <1>4. QED
    BY <1>2, <1>3 DEF AgentInv, Called, Sane
-----------------------------------------------------------------------------
(***************************************************************************)
(* The invariant of the runs holds, and with it their safety properties.   *)
(***************************************************************************)

\* No run has started, nothing is recorded.
LEMMA AgentInitInv == AgentInit => AgentInv
  <1> SUFFICES ASSUME AgentInit PROVE AgentInv
    OBVIOUS
  <1>1. StackInv
    BY ConstantsAssumption
       DEF AgentInit, Init, StackInv, TypeOK, NoReceipt, NoDocument, Receipt, Statuses,
           Document, UndoIsAStack, ExistsIffRevised, OneRecordPerRevision,
           DistinctReceipts, RecordsChain
  <1>2. RecordsRemember
    BY DEF AgentInit, Init, RecordsRemember
  <1>3. NoDocument \in Document /\ NoReceipt \in Receipt
    BY ConstantsAssumption DEF NoReceipt, NoDocument, Receipt, Statuses, Document
  <1>4. 0 \in 0..(MaxRepairs + 1)
    BY AgentsAssumption
  <1>5. NotStarted \in Run
    BY <1>3, <1>4 DEF NotStarted, Run, Phases, RunStatuses
  <1>6. /\ NotStarted.phase = "observe" /\ NotStarted.status = "none"
        /\ NotStarted.applied = NoReceipt
    BY DEF NotStarted
  <1>7. NoReceipt.status = "none" /\ NoReceipt.id = 0
    BY DEF NoReceipt
  <1>8. run \in [Agents -> Run] /\ \A a \in Agents : run[a] = NotStarted
    BY <1>5 DEF AgentInit
  <1>9. \A a \in Agents : Unapplied(a)
    BY <1>6, <1>7, <1>8 DEF Unapplied
  <1>10. QED
    BY <1>1, <1>2, <1>8, <1>9, UnappliedIsSane DEF AgentInv, UnappliedAreSane, Sane

\* Each step of a run or of a user keeps the invariant.
LEMMA AgentStepKeeps == AgentInv /\ [AgentNext]_agentVars => AgentInv'
  <1> SUFFICES ASSUME AgentInv, [AgentNext]_agentVars PROVE AgentInv'
    OBVIOUS
  <1>1. ASSUME NEW a \in Agents, AgentStep(a)
        PROVE  AgentInv'
    <2>1. CASE \E d \in Documents, apply \in BOOLEAN, contract \in Contracts :
                   ObserveAndCompile(a, d, apply, contract)
      BY <2>1, ObserveStep
    <2>2. CASE CompileFails(a)
      BY <2>2, CompileFailsStep
    <2>3. CASE \E actions \in ActionLists : Propose(a, actions)
      BY <2>3, ProposeStep
    <2>4. CASE ProposeFails(a)
      BY <2>4, RejectionStep DEF ProposeFails
    <2>5. CASE Preflight(a)
      BY <2>5, PreflightStep
    <2>6. CASE Preview(a)
      BY <2>6, PreviewStep
    <2>7. CASE ApplyPlan(a)
      BY <2>7, ApplyStep
    <2>8. CASE RollBackRun(a)
      BY <2>8, RollBackStep
    <2>9. QED
      BY <1>1, <2>1, <2>2, <2>3, <2>4, <2>5, <2>6, <2>7, <2>8 DEF AgentStep
  <1>2. CASE UNCHANGED agentVars
    <2>1. UNCHANGED vars /\ run' = run /\ receipts' = receipts
      BY <1>2 DEF agentVars, vars
    <2>2. Called
      BY <2>1, NoCall DEF AgentInv
    <2>3. \A a \in Agents : Sane(a)'
      BY <2>1, <2>2, OthersAreKept
    <2>4. QED
      BY <2>1, <2>2, <2>3 DEF AgentInv, Called, Sane
  <1>3. QED
    BY <1>1, <1>2, UserStepKeeps DEF AgentNext

\* The runs, without the fairness that only liveness needs.
AgentBehaviour == AgentInit /\ [][AgentNext]_agentVars

\* Any number of runs and users, in any interleaving of their calls, keep the
\* invariant of the runs.
THEOREM AgentInvariantHolds == AgentBehaviour => []AgentInv
  <1>1. QED
    BY AgentInitInv, AgentStepKeeps, PTL DEF AgentBehaviour

\* To the adapter a step of a run or of a user is a call, or nothing.
LEMMA AgentsCall == AgentInv /\ [AgentNext]_agentVars => [Calls]_vars
  <1> SUFFICES ASSUME AgentInv, [AgentNext]_agentVars, vars' # vars PROVE Calls
    OBVIOUS
  <1>1. ASSUME NEW a \in Agents, AgentStep(a)
        PROVE  Calls
    <2>1. a \in Callers /\ run[a].applied.id \in Nat
      BY <1>1, RunFacts
    <2>2. CASE Preview(a) \/ ApplyPlan(a)
      <3>1. run[a].plan \in AnyPlan
        BY <2>2, RunFacts DEF Preview, ApplyPlan, Sane, Local
      <3>2. \E dry_run \in BOOLEAN : Execute(a, run[a].plan, dry_run)
        BY <2>2 DEF Preview, ApplyPlan
      <3>3. QED
        BY <2>1, <3>1, <3>2 DEF Calls
    <2>3. CASE RollBackRun(a)
      BY <2>1, <2>3 DEF RollBackRun, Calls
    <2>4. QED
      BY <1>1, <2>2, <2>3 DEF AgentStep, ObserveAndCompile, CompileFails, Propose,
                              ProposeFails, Preflight
  <1>2. ASSUME NEW u \in Users, UserStep(u)
        PROVE  Calls
    <2>1. u \in Callers
      BY DEF Users
    <2>2. CASE \E plan \in Plan : UserApplies(u, plan)
      <3>1. PICK plan \in AnyPlan : Execute(u, plan, FALSE)
        BY <2>2, ConstantsAssumption DEF UserApplies, Execute, Plan, AnyPlan
      <3>2. QED
        BY <2>1, <3>1 DEF Calls
    <2>3. CASE \E id \in 1..issued : UserRollsBack(u, id)
      <3>1. PICK id \in Nat : Rollback(u, id)
        BY <2>3 DEF UserRollsBack, Rollback
      <3>2. QED
        BY <2>1, <3>1 DEF Calls
    <2>4. QED
      BY <1>2, <2>2, <2>3 DEF UserStep
  <1>3. QED
    BY <1>1, <1>2 DEF AgentNext, agentVars, vars

\* Recording a run takes no step of any run, user or document.
LEMMA RecordedIsAgents == RecordedSpec => AgentBehaviour
  <1>1. RecordedInit => AgentInit
    BY DEF RecordedInit
  <1>2. [RecordedNext]_recordedVars => [AgentNext]_agentVars
    BY DEF RecordedNext, recordedVars, AgentNext, RecordStep, Capture, Stage, StageFails,
           Write, Move, RecordFails, RecordAgain, Kill
  <1>3. QED
    BY <1>1, <1>2, PTL DEF RecordedSpec, AgentBehaviour

\* Runs, users and recordings together use the adapter as its own callers do:
\* the versions of a document are a stack, which only an applied transaction
\* and its rollback push and pop.
THEOREM AgentsImplementVersionStack == RecordedSpec => ImplementsVersionStack
  <1>1. AgentInit => Store!Init
    BY InitImplements DEF AgentInit
  <1>2. AgentInv /\ AgentInv' /\ [Calls]_vars => [Store!Next]_versionsBar
    BY StepImplements DEF AgentInv
  <1>3. AgentBehaviour => ImplementsVersionStack
    BY <1>1, <1>2, AgentsCall, AgentInvariantHolds, PTL
       DEF AgentBehaviour, ImplementsVersionStack, Store!Spec
  <1>4. QED
    BY <1>3, RecordedIsAgents, PTL

\* An edit without an applied receipt there is none of.
LEMMA EditsAreApplied ==
    ASSUME AgentInv, NEW a \in Agents, EditOf(a) # {}
    PROVE  run[a].applied.status = "applied"
  <1>1. PICK record \in undo : record.original_receipt.id = run[a].applied.id
    BY DEF EditOf
  <1>2. record.original_receipt.id \in 1..issued /\ issued \in Nat
    BY RunFacts, ConstantsAssumption DEF StackInv, UndoIsAStack, DistinctReceipts, TypeOK
  <1>3. run[a].applied.id # 0
    BY <1>1, <1>2
  <1>4. QED
    BY <1>3, RunFacts DEF Sane, Local

\* Runs stay well typed, with or without users and other runs: the attempts are
\* within the repair budget, and a status is there exactly when a run is over.
THEOREM AgentTypeCorrect == RecordedSpec => []AgentTypeOK
  <1>1. AgentInv => AgentTypeOK
    BY RunFacts DEF AgentTypeOK, Sane, Local
  <1>2. QED
    BY <1>1, AgentInvariantHolds, RecordedIsAgents, PTL

\* Whatever other runs and users do, an edit that a run committed and nobody has
\* undone is one its contract accepts over the version below it (verification
\* before commit).
THEOREM CommittedEditsAreVerified == RecordedSpec => []CommittedEditsSatisfyContract
  <1>1. AgentInv => CommittedEditsSatisfyContract
    <2> SUFFICES ASSUME AgentInv, NEW a \in Agents, NEW record \in EditOf(a),
                        run[a].status = "committed"
                 PROVE  Verifier!Satisfies(run[a].contract, record.before,
                                           record.original_receipt.after)
      BY DEF CommittedEditsSatisfyContract
    <2>1. /\ record \in undo /\ record.original_receipt = run[a].applied
          /\ Verified(run[a].contract, run[a].applied)
      BY RunFacts DEF Sane, Edited, Outcome, EditOf
    <2>2. record.before = run[a].applied.before
      BY <2>1, RunFacts DEF RecordsRemember
    <2>3. QED
      BY <2>1, <2>2 DEF Verified
  <1>2. QED
    BY <1>1, AgentInvariantHolds, RecordedIsAgents, PTL

\* A run that did not commit leaves nothing in the document, unless its rollback
\* was refused because somebody had built on the edit.
THEOREM UncommittedEditsAreConflicts == RecordedSpec => []OnlyAConflictLeavesAnEdit
  <1>1. AgentInv => OnlyAConflictLeavesAnEdit
    <2> SUFFICES ASSUME AgentInv, NEW a \in Agents, EditOf(a) # {},
                        run[a].status \notin {"none", "committed"}
                 PROVE  /\ run[a].status = "refused"
                        /\ run[a].applied.status = "applied"
                        /\ ~Verified(run[a].contract, run[a].applied)
                        /\ receipts[a].status = "refused"
      BY DEF OnlyAConflictLeavesAnEdit
    <2>1. run[a].applied.status = "applied"
      BY EditsAreApplied
    <2>2. Outcome(a) /\ run[a].status \in RunStatuses
      BY RunFacts DEF Sane
    <2>3. run[a].status = "refused"
      BY <2>1, <2>2 DEF Outcome, RunStatuses
    <2>4. QED
      BY <2>1, <2>2, <2>3 DEF Outcome
  <1>2. QED
    BY <1>1, AgentInvariantHolds, RecordedIsAgents, PTL

\* An applied edit is rejected only when the document had other features, at the
\* same revision, than the accepted preview was computed from.
THEOREM RejectedAppliesSawOtherContent == RecordedSpec => []RejectedApplyMeansOtherContent
  <1>1. AgentInv => RejectedApplyMeansOtherContent
    BY RunFacts DEF RejectedApplyMeansOtherContent, Sane, AppliedAsPreviewed
  <1>2. QED
    BY <1>1, AgentInvariantHolds, RecordedIsAgents, PTL
-----------------------------------------------------------------------------
(***************************************************************************)
(* Recording: its own steps, and those of runs and users meanwhile.        *)
(***************************************************************************)
RecordFields == {"phase", "capture", "error", "tries"}

\* A step of recording run a keeps every field it does not name.
Turned(a, fields) ==
    [f \in RecordFields |-> IF f \in DOMAIN fields THEN fields[f] ELSE recorder[a][f]]

\* What the recording of a run is made of.
LEMMA RecorderFacts ==
    ASSUME RecordInv, NEW a \in Agents
    PROVE  /\ AgentInv /\ Recorded(a)
           /\ recorder \in [Agents -> Recorder] /\ DOMAIN recorder[a] = RecordFields
           /\ recorder[a].phase \in {"idle", "stage", "write", "move", "returned",
                                     "raised", "killed"}
           /\ recorder[a].capture \in Contents \cup {Absent, Nothing}
           /\ recorder[a].error \in BOOLEAN /\ recorder[a].tries \in Nat
           /\ episodes \in [Agents -> Episode \cup {Nothing}]
  <1>1. recorder \in [Agents -> Recorder] /\ recorder[a] \in Recorder
    BY DEF RecordInv
  <1>2. QED
    BY <1>1 DEF RecordInv, Recorder, RecordFields

\* Turn changes one run's recording, and there the fields it names.
LEMMA TurnFacts ==
    ASSUME RecordInv, NEW a \in Agents, NEW fields, Turn(a, fields)
    PROVE  /\ \A b \in Agents : b # a => recorder'[b] = recorder[b]
           /\ recorder' = [b \in Agents |-> recorder'[b]]
           /\ recorder'[a] = Turned(a, fields)
  BY RecorderFacts DEF Turn, Turned

\* The recordings are well typed if the fields of the one that turned are.
LEMMA TurnType ==
    ASSUME RecordInv, NEW a \in Agents, NEW fields, Turn(a, fields),
           /\ recorder'[a].phase \in {"idle", "stage", "write", "move", "returned",
                                      "raised", "killed"}
           /\ recorder'[a].capture \in Contents \cup {Absent, Nothing}
           /\ recorder'[a].error \in BOOLEAN /\ recorder'[a].tries \in Nat
    PROVE  recorder' \in [Agents -> Recorder]
  <1>1. recorder'[a] = [f \in RecordFields |-> recorder'[a][f]]
    BY TurnFacts DEF Turned
  <1>2. recorder'[a] \in Recorder
    BY <1>1 DEF RecordFields, Recorder
  <1>3. \A b \in Agents : recorder'[b] \in Recorder
    BY <1>2, TurnFacts, RecorderFacts
  <1>4. QED
    BY <1>3, TurnFacts

\* After a step of recording run a the invariant is what it is for a.
LEMMA OneRecordingMoves ==
    ASSUME RecordInv, NEW a \in Agents, UNCHANGED agentVars,
           \A b \in Agents : b # a => /\ recorder'[b] = recorder[b]
                                      /\ episodes'[b] = episodes[b]
                                      /\ b \in staging' => b \in staging,
           recorder' \in [Agents -> Recorder],
           episodes' \in [Agents -> Episode \cup {Nothing}], Recorded(a)'
    PROVE  RecordInv'
  <1>1. AgentInv'
    BY AgentStepKeeps DEF RecordInv
  <1>2. run' = run
    BY DEF agentVars
  <1>3. \A b \in Agents : b # a => Recorded(b)'
    BY <1>2 DEF RecordInv, Recorded
  <1>4. QED
    BY <1>1, <1>3 DEF RecordInv

\* The store admits a run: to be staged, or refused for the episode there is.
LEMMA AdmitFacts ==
    ASSUME RecordInv, NEW a \in Agents, NEW fields, DOMAIN fields \subseteq {"capture"},
           Admit(a, fields),
           "capture" \in DOMAIN fields
               => fields["capture"] \in Contents \cup {Absent, Nothing}
    PROVE  /\ recorder' \in [Agents -> Recorder]
           /\ \A b \in Agents : b # a => recorder'[b] = recorder[b]
           /\ recorder'[a].capture = IF "capture" \in DOMAIN fields THEN fields["capture"]
                                     ELSE recorder[a].capture
           /\ \/ /\ episodes[a] = Nothing /\ recorder'[a].phase = "stage"
                 /\ recorder'[a].error = FALSE
              \/ /\ episodes[a] # Nothing /\ recorder'[a].phase = "returned"
                 /\ recorder'[a].error = TRUE
  <1> DEFINE all == [f \in DOMAIN fields \cup {"phase", "error", "tries"} |->
               CASE f = "phase" -> IF episodes[a] = Nothing THEN "stage" ELSE "returned"
                 [] f = "error" -> episodes[a] # Nothing
                 [] f = "tries" -> recorder[a].tries + 1
                 [] OTHER -> fields[f]]
  <1>1. Turn(a, all)
    BY DEF Admit
  <1>2. /\ DOMAIN all = DOMAIN fields \cup {"phase", "error", "tries"}
        /\ all["phase"] = IF episodes[a] = Nothing THEN "stage" ELSE "returned"
        /\ all["tries"] = recorder[a].tries + 1
        /\ "capture" \in DOMAIN fields => all["capture"] = fields["capture"]
    OBVIOUS
  <1>3. /\ episodes[a] = Nothing => all["error"] = FALSE
        /\ episodes[a] # Nothing => all["error"] = TRUE
    OBVIOUS
  <1> HIDE DEF all
  <1>4. recorder'[a] = Turned(a, all)
    BY <1>1, TurnFacts
  <1>5. /\ recorder'[a].phase = all["phase"] /\ recorder'[a].tries = recorder[a].tries + 1
        /\ recorder'[a].error = all["error"]
        /\ recorder'[a].capture = IF "capture" \in DOMAIN fields THEN fields["capture"]
                                  ELSE recorder[a].capture
    BY <1>2, <1>4 DEF Turned, RecordFields
  <1>6. recorder' \in [Agents -> Recorder]
    <2>1. recorder'[a].tries \in Nat
      BY <1>5, RecorderFacts
    <2>2. recorder'[a].error \in BOOLEAN
      <3>1. all["error"] \in {TRUE, FALSE}
        BY <1>3, Zenon
      <3>2. recorder'[a].error = all["error"]
        BY <1>5, Zenon
      <3>3. QED
        BY <3>1, <3>2, Zenon
    <2>3. recorder'[a].phase \in {"idle", "stage", "write", "move", "returned",
                                 "raised", "killed"}
      BY <1>2, <1>5
    <2>4. recorder'[a].capture \in Contents \cup {Absent, Nothing}
      BY <1>2, <1>5, RecorderFacts
    <2>5. QED
      BY <1>1, <2>1, <2>2, <2>3, <2>4, TurnType
  <1>7. QED
    BY <1>1, <1>2, <1>3, <1>5, <1>6, TurnFacts

\* What is captured: files, or none, of a committed run's document; nothing of
\* another's.
LEMMA CaptureStep ==
    ASSUME RecordInv, NEW a \in Agents, NEW files, Capture(a, files)
    PROVE  RecordInv'
  <1> DEFINE fields == [capture |-> files]
  <1>1. /\ recorder[a].phase = "idle" /\ run[a].phase = "done" /\ Admit(a, fields)
        /\ UNCHANGED <<agentVars, episodes, staging>>
    BY DEF Capture
  <1>2. files \in Contents \cup {Absent, Nothing}
        /\ (files # Nothing <=> run[a].status = "committed")
    <2>1. CASE run[a].status # "committed"
      BY <2>1 DEF Capture
    <2>2. CASE run[a].status = "committed"
      <3>1. run[a].document_id \in Documents /\ documents \in [Documents -> Document]
        BY <2>2, RecorderFacts, RunFacts DEF Sane, Outcome, StackInv, TypeOK
      <3>2. documents[run[a].document_id].features \in Contents \cup {Absent}
        BY <3>1 DEF Document
      <3>3. files \in Contents \cup {Absent}
        BY <2>2, <3>2 DEF Capture, EngineCaptures, CaptureArtifacts
      <3>4. QED
        BY <2>2, <3>3, NothingAssumption
    <2>3. QED
      BY <2>1, <2>2
  <1>3. episodes[a] = Nothing /\ a \notin staging
    BY <1>1, RecorderFacts DEF Recorded
  <1>4. DOMAIN fields = {"capture"} /\ fields["capture"] = files
    OBVIOUS
  <1> HIDE DEF fields
  <1>5. /\ recorder' \in [Agents -> Recorder] /\ recorder'[a].phase = "stage"
        /\ recorder'[a].capture = files
        /\ \A b \in Agents : b # a => recorder'[b] = recorder[b]
    BY <1>1, <1>2, <1>3, <1>4, AdmitFacts
  <1>6. run' = run /\ episodes' = episodes /\ staging' = staging
    BY <1>1 DEF agentVars
  <1>7. Recorded(a)'
    BY <1>1, <1>2, <1>3, <1>5, <1>6 DEF Recorded
  <1>8. QED
    BY <1>1, <1>5, <1>6, <1>7, OneRecordingMoves, RecorderFacts

\* A caller's try finds the episode, or stages another.
LEMMA RecordAgainStep ==
    ASSUME RecordInv, NEW a \in Agents, RecordAgain(a)
    PROVE  RecordInv'
  <1> DEFINE fields == << >>
  <1>1. /\ recorder[a].phase = "returned" /\ Admit(a, fields)
        /\ UNCHANGED <<agentVars, episodes, staging>>
    BY DEF RecordAgain
  <1>2. DOMAIN fields = {}
    OBVIOUS
  <1> HIDE DEF fields
  <1>3. /\ recorder' \in [Agents -> Recorder] /\ recorder'[a].capture = recorder[a].capture
        /\ \A b \in Agents : b # a => recorder'[b] = recorder[b]
        /\ \/ episodes[a] = Nothing /\ recorder'[a].phase = "stage"
           \/ episodes[a] # Nothing /\ recorder'[a].phase = "returned"
    BY <1>1, <1>2, AdmitFacts
  <1>4. run' = run /\ episodes' = episodes /\ staging' = staging
    BY <1>1 DEF agentVars
  <1>5. Recorded(a)'
    BY <1>1, <1>3, <1>4, RecorderFacts DEF Recorded
  <1>6. QED
    BY <1>1, <1>3, <1>4, <1>5, OneRecordingMoves, RecorderFacts

\* A step that only moves a run's recording on, to a phase that has no episode
\* to show, with what is staged.
LEMMA PhaseStep ==
    ASSUME RecordInv, NEW a \in Agents, NEW fields, Turn(a, fields),
           recorder[a].phase \in {"stage", "write", "move"},
           DOMAIN fields \subseteq {"phase", "error"}, "phase" \in DOMAIN fields,
           fields["phase"] \in {"write", "move", "returned", "raised", "killed"},
           "error" \in DOMAIN fields => fields["error"] \in BOOLEAN,
           fields["phase"] = "returned" => "error" \in DOMAIN fields /\ fields["error"],
           UNCHANGED <<agentVars, episodes>>, staging' \subseteq staging \cup {a},
           a \in staging' => fields["phase"] \in {"write", "move", "killed"}
    PROVE  RecordInv'
  <1>1. recorder'[a] = Turned(a, fields)
        /\ \A b \in Agents : b # a => recorder'[b] = recorder[b]
    BY TurnFacts
  <1>2. /\ recorder'[a].phase = fields["phase"] /\ recorder'[a].tries = recorder[a].tries
        /\ recorder'[a].capture = recorder[a].capture
        /\ recorder'[a].error = IF "error" \in DOMAIN fields THEN fields["error"]
                                ELSE recorder[a].error
    BY <1>1 DEF Turned, RecordFields
  <1>3. recorder' \in [Agents -> Recorder]
    BY <1>2, RecorderFacts, TurnType
  <1>4. run' = run /\ episodes' = episodes
    BY DEF agentVars
  <1>5. Recorded(a)'
    BY <1>2, <1>4, RecorderFacts DEF Recorded
  <1>6. QED
    BY <1>1, <1>3, <1>4, <1>5, OneRecordingMoves, RecorderFacts

\* The rename into place: the whole episode is there at once.
LEMMA MoveStep ==
    ASSUME RecordInv, NEW a \in Agents, Move(a)
    PROVE  RecordInv'
  <1> DEFINE fields == [phase |-> "returned", error |-> FALSE]
             episode == [status |-> run[a].status, capture |-> recorder[a].capture]
  <1>1. /\ recorder[a].phase = "move" /\ Turn(a, fields) /\ UNCHANGED agentVars
        /\ episodes' = [episodes EXCEPT ![a] = episode] /\ staging' = staging \ {a}
    BY DEF Move
  <1>2. episode \in Episode /\ episode # Nothing
    BY RecorderFacts, RunFacts, NothingAssumption DEF Episode
  <1>3. /\ DOMAIN fields = {"phase", "error"} /\ fields["phase"] = "returned"
        /\ fields["error"] = FALSE /\ episode.status = run[a].status
        /\ episode.capture = recorder[a].capture
    OBVIOUS
  <1> HIDE DEF fields, episode
  <1>4. recorder'[a] = Turned(a, fields)
        /\ \A b \in Agents : b # a => recorder'[b] = recorder[b]
    BY <1>1, TurnFacts
  <1>5. /\ recorder'[a].phase = "returned" /\ recorder'[a].tries = recorder[a].tries
        /\ recorder'[a].capture = recorder[a].capture /\ recorder'[a].error = FALSE
    BY <1>3, <1>4 DEF Turned, RecordFields
  <1>6. recorder' \in [Agents -> Recorder]
    BY <1>1, <1>5, RecorderFacts, TurnType
  <1>7. /\ episodes' \in [Agents -> Episode \cup {Nothing}] /\ episodes'[a] = episode
        /\ \A b \in Agents : b # a => episodes'[b] = episodes[b]
    BY <1>1, <1>2, RecorderFacts
  <1>8. run' = run
    BY <1>1 DEF agentVars
  <1>9. Recorded(a)'
    BY <1>1, <1>2, <1>3, <1>5, <1>7, <1>8, RecorderFacts DEF Recorded
  <1>10. QED
    BY <1>1, <1>4, <1>6, <1>7, <1>9, OneRecordingMoves

\* A run that is over takes no step, so that what is recorded of it stays true.
LEMMA OverStaysOver ==
    ASSUME RecordInv, NEW a \in Agents, run[a].phase = "done", [AgentNext]_agentVars
    PROVE  run'[a] = run[a]
  <1>1. CASE \E b \in Agents : AgentStep(b)
    <2>1. PICK b \in Agents : AgentStep(b)
      BY <1>1
    <2>2. b # a
      BY <2>1 DEF AgentStep, ObserveAndCompile, CompileFails, Propose, ProposeFails,
                  Preflight, Preview, ApplyPlan, RollBackRun
    <2>3. \E fields : Update(b, fields)
      BY <2>1 DEF AgentStep, ObserveAndCompile, CompileFails, Propose, ProposeFails,
                  Preflight, Preview, ApplyPlan, RollBackRun
    <2>4. QED
      BY <2>2, <2>3, UpdateFacts DEF RecordInv
  <1>2. QED
    BY <1>1 DEF AgentNext, UserStep, UserApplies, UserRollsBack, agentVars

\* While a run is not over its recording is idle: runs and users keep the
\* invariant of what is recorded.
LEMMA RunsKeepRecords ==
    ASSUME RecordInv, [AgentNext]_agentVars, UNCHANGED recordVars
    PROVE  RecordInv'
  <1>1. AgentInv'
    BY AgentStepKeeps DEF RecordInv
  <1>2. recorder' = recorder /\ episodes' = episodes /\ staging' = staging
    BY DEF recordVars
  <1>3. ASSUME NEW a \in Agents
        PROVE  Recorded(a)'
    <2>1. recorder[a].phase # "idle" => run'[a] = run[a]
      BY OverStaysOver, RecorderFacts DEF Recorded
    <2>2. QED
      BY <1>2, <2>1, RecorderFacts DEF Recorded
  <1>4. QED
    BY <1>1, <1>2, <1>3 DEF RecordInv

\* Nothing is recorded before anything ran.
LEMMA RecordedInitInv == RecordedInit => RecordInv
  <1> SUFFICES ASSUME RecordedInit PROVE RecordInv
    OBVIOUS
  <1>1. AgentInv
    BY AgentInitInv DEF RecordedInit
  <1>2. NotRecorded \in Recorder /\ NotRecorded.phase = "idle"
    BY DEF NotRecorded, Recorder
  <1>3. /\ recorder \in [Agents -> Recorder] /\ episodes \in [Agents -> Episode \cup {Nothing}]
        /\ \A a \in Agents : recorder[a].phase = "idle" /\ episodes[a] = Nothing
        /\ staging = {}
    BY <1>2 DEF RecordedInit
  <1>4. QED
    BY <1>1, <1>3 DEF RecordInv, Recorded

\* Each step of a run, of a user or of a recording keeps the invariant.
LEMMA RecordedStepKeeps == RecordInv /\ [RecordedNext]_recordedVars => RecordInv'
  <1> SUFFICES ASSUME RecordInv, [RecordedNext]_recordedVars PROVE RecordInv'
    OBVIOUS
  <1>1. CASE AgentNext /\ UNCHANGED recordVars
    BY <1>1, RunsKeepRecords
  <1>2. CASE UNCHANGED recordedVars
    BY <1>2, RunsKeepRecords DEF recordedVars
  <1>3. ASSUME NEW a \in Agents, RecordStep(a)
        PROVE  RecordInv'
    <2>1. CASE \E files \in Contents \cup {Nothing, Absent} : Capture(a, files)
      BY <2>1, CaptureStep
    <2>2. CASE Stage(a)
      <3> DEFINE fields == [phase |-> "write"]
      <3>1. /\ DOMAIN fields = {"phase"} /\ fields["phase"] = "write"
            /\ Turn(a, fields) /\ recorder[a].phase = "stage" /\ staging' = staging \cup {a}
            /\ UNCHANGED <<agentVars, episodes>>
        BY <2>2 DEF Stage
      <3> HIDE DEF fields
      <3>2. QED
        BY <3>1, PhaseStep
    <2>3. CASE StageFails(a)
      <3> DEFINE fields == [phase |-> "raised"]
      <3>1. /\ DOMAIN fields = {"phase"} /\ fields["phase"] = "raised"
            /\ Turn(a, fields) /\ recorder[a].phase = "stage" /\ staging' = staging
            /\ UNCHANGED <<agentVars, episodes>>
        BY <2>3 DEF StageFails
      <3>2. a \notin staging
        BY <3>1, RecorderFacts DEF Recorded
      <3> HIDE DEF fields
      <3>3. QED
        BY <3>1, <3>2, PhaseStep
    <2>4. CASE Write(a)
      <3> DEFINE fields == [phase |-> "move"]
      <3>1. /\ DOMAIN fields = {"phase"} /\ fields["phase"] = "move"
            /\ Turn(a, fields) /\ recorder[a].phase = "write" /\ staging' = staging
            /\ UNCHANGED <<agentVars, episodes>>
        BY <2>4 DEF Write
      <3> HIDE DEF fields
      <3>2. QED
        BY <3>1, PhaseStep
    <2>5. CASE Move(a)
      BY <2>5, MoveStep
    <2>6. CASE RecordFails(a)
      <3> DEFINE fields == [phase |-> "returned", error |-> TRUE]
      <3>1. /\ DOMAIN fields = {"phase", "error"} /\ fields["phase"] = "returned"
            /\ fields["error"] = TRUE
            /\ Turn(a, fields) /\ recorder[a].phase \in {"write", "move"}
            /\ staging' = staging \ {a} /\ UNCHANGED <<agentVars, episodes>>
        BY <2>6 DEF RecordFails, Refuse
      <3> HIDE DEF fields
      <3>2. QED
        BY <3>1, PhaseStep
    <2>7. QED
      BY <1>3, <2>1, <2>2, <2>3, <2>4, <2>5, <2>6 DEF RecordStep
  <1>4. ASSUME NEW a \in Agents, Kill(a)
        PROVE  RecordInv'
    <2> DEFINE fields == [phase |-> "killed"]
    <2>1. /\ DOMAIN fields = {"phase"} /\ fields["phase"] = "killed"
          /\ Turn(a, fields) /\ recorder[a].phase \in {"stage", "write", "move"}
          /\ staging' = staging /\ UNCHANGED <<agentVars, episodes>>
      BY <1>4 DEF Kill
    <2> HIDE DEF fields
    <2>2. QED
      BY <2>1, PhaseStep
  <1>5. QED
    BY <1>1, <1>2, <1>3, <1>4, RecordAgainStep DEF RecordedNext, AgentNext

\* Recording keeps its invariant through kills, failures and callers' tries.
THEOREM RecordInvariantHolds == RecordedSpec => []RecordInv
  <1>1. QED
    BY RecordedInitInv, RecordedStepKeeps, PTL DEF RecordedSpec

\* Whatever is under an episode's name is the whole episode of that run's
\* outcome, and a returned run without an error has one: _finish and the store.
THEOREM EpisodesAreTheOutcome == RecordedSpec => []EpisodesTellTheOutcome
  <1>1. RecordInv => EpisodesTellTheOutcome
    BY RecorderFacts DEF EpisodesTellTheOutcome, Recorded
  <1>2. QED
    BY <1>1, RecordInvariantHolds, PTL
=============================================================================

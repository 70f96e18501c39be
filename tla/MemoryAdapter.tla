--------------------------- MODULE MemoryAdapter ---------------------------
(***************************************************************************)
(* The transactional kernel adapter of src/src/cadrig/adapters/memory.py:  *)
(* documents with revision numbers, one undo record per applied            *)
(* transaction, and the last receipt each caller was given.                *)
(*                                                                         *)
(* Every public method holds the adapter's lock for its whole body, so     *)
(* each call is one step and callers interleave between calls.  What an    *)
(* action list does to a document's features is the parameter Apply, given *)
(* its value by FeatureEdits in the MC modules: the transaction protocol   *)
(* does not depend on it.                                                  *)
(*                                                                         *)
(* Bounds: receipts of applied transactions are numbered 1..MaxReceipts    *)
(* (the code draws fresh uuids); callers claim base revisions              *)
(* 0..MaxRevision.  A refusal or dry-run receipt has no undo record, so    *)
(* its id behaves like one that was never issued: it is 0 here.            *)
(***************************************************************************)
EXTENDS Integers, Sequences, FiniteSets

CONSTANTS
    Callers,        \* threads and sessions sharing the adapter
    Documents,      \* document ids
    Contents,       \* what the features of a document may be
    ActionLists,    \* the action sequences callers submit
    Supported,      \* action kinds the adapter advertises
    Apply(_, _),    \* features or Absent, action list -> features or Failed
    MaxReceipts,
    MaxRevision,
    Absent,         \* the features of a document that does not exist
    Failed          \* some action of the list failed

ASSUME ApplyAssumption ==
    \A features \in Contents \cup {Absent}, actions \in ActionLists :
        Apply(features, actions) \in Contents \cup {Failed}

ASSUME ConstantsAssumption ==
    /\ Absent \notin Contents
    /\ Failed \notin Contents
    /\ MaxReceipts \in Nat
    /\ MaxRevision \in Nat

VARIABLES
    documents,      \* _documents: what each id names now
    undo,           \* _undo: one record per transaction that can be undone
    issued,         \* how many applied receipts were handed out
    receipts        \* the last receipt returned to each caller

vars == <<documents, undo, issued, receipts>>

-----------------------------------------------------------------------------
Document == [revision : Nat, features : Contents \cup {Absent}]
NoDocument == [revision |-> 0, features |-> Absent]

Plan == [document_id : Documents, base_revision : 0..MaxRevision, actions : ActionLists]

Statuses == {"none", "refused", "dry_run", "applied", "rolled_back"}
Receipt == [id : 0..MaxReceipts, status : Statuses, before : Document, after : Document]
NoReceipt == [id |-> 0, status |-> "none", before |-> NoDocument, after |-> NoDocument]

\* ExecutionReceipt.accepted
Accepted(receipt) == receipt.status \in {"applied", "dry_run", "rolled_back"}

UndoRecord == [document_id : Documents, expected_revision : Nat \ {0},
               before : Document, original_receipt : Receipt]

Init ==
    /\ documents = [d \in Documents |-> NoDocument]
    /\ undo = {}
    /\ issued = 0
    /\ receipts = [c \in Callers |-> NoReceipt]

-----------------------------------------------------------------------------
(***************************************************************************)
(* The calls.                                                              *)
(***************************************************************************)

\* What observe returns; the snapshot is immutable, the document moves on.
Observe(d) == documents[d]

UsesUnsupported(plan) ==
    \E i \in DOMAIN plan.actions : plan.actions[i].kind \notin Supported

\* Faulty variant: only plans from a future revision are refused.
StaleOnlyAhead(plan) == documents[plan.document_id].revision < plan.base_revision

IsStale(plan) == documents[plan.document_id].revision # plan.base_revision

Creations(plan) ==
    {i \in DOMAIN plan.actions : plan.actions[i].kind = "create_document"}

\* A missing document must be created by the first action and by no other; an
\* existing one must not be created again.
CreatesWrongly(plan) ==
    IF documents[plan.document_id].features = Absent
    THEN Creations(plan) # {1}
    ELSE Creations(plan) # {}

\* validate returned no diagnostic.
Valid(plan) == ~UsesUnsupported(plan) /\ ~IsStale(plan) /\ ~CreatesWrongly(plan)

\* The features the plan would leave, computed on a deep copy.
Candidate(plan) == Apply(documents[plan.document_id].features, plan.actions)

Executable(plan) == Valid(plan) /\ Candidate(plan) # Failed

ReceiptFor(id, status, before, after) ==
    [id |-> id, status |-> status, before |-> before, after |-> after]

After(plan) == [revision |-> plan.base_revision + 1, features |-> Candidate(plan)]

Return(c, receipt) == receipts' = [receipts EXCEPT ![c] = receipt]

\* execute refuses: a diagnostic, or an action of the list failed.  The
\* candidate is dropped, whatever the actions before the failing one did to it.
ExecuteRefused(c, plan) ==
    /\ ~Executable(plan)
    /\ LET before == documents[plan.document_id] IN
           Return(c, ReceiptFor(0, "refused", before, before))
    /\ UNCHANGED <<documents, undo, issued>>

\* Faulty variant: the dry run keeps its candidate.
ExecuteDryRunKept(c, plan) ==
    /\ Executable(plan)
    /\ Return(c, ReceiptFor(0, "dry_run", documents[plan.document_id], After(plan)))
    /\ documents' = [documents EXCEPT ![plan.document_id] = After(plan)]
    /\ UNCHANGED <<undo, issued>>

\* execute with dry_run: the receipt shows the result, nothing is kept.
ExecuteDryRun(c, plan) ==
    /\ Executable(plan)
    /\ Return(c, ReceiptFor(0, "dry_run", documents[plan.document_id], After(plan)))
    /\ UNCHANGED <<documents, undo, issued>>

\* execute without dry_run: the document is replaced and an undo record kept.
ExecuteApplied(c, plan) ==
    LET before  == documents[plan.document_id]
        receipt == ReceiptFor(issued + 1, "applied", before, After(plan))
    IN  /\ issued < MaxReceipts
        /\ Executable(plan)
        /\ documents' = [documents EXCEPT ![plan.document_id] = After(plan)]
        /\ undo' = undo \cup {[document_id       |-> plan.document_id,
                               expected_revision |-> plan.base_revision + 1,
                               before            |-> before,
                               original_receipt  |-> receipt]}
        /\ issued' = issued + 1
        /\ Return(c, receipt)

Execute(c, plan, dry_run) ==
    \/ ExecuteRefused(c, plan)
    \/ dry_run /\ ExecuteDryRun(c, plan)
    \/ ~dry_run /\ ExecuteApplied(c, plan)

RecordsUnder(id) == {record \in undo : record.original_receipt.id = id}

\* Faulty variant: any record can be rolled back, newer work or not.
AlwaysUndoable(record) == documents[record.document_id].features # Absent

\* The document is still what this transaction left.
Undoable(record) ==
    /\ documents[record.document_id].features # Absent
    /\ documents[record.document_id].revision = record.expected_revision

\* rollback refuses an unknown receipt and a document that moved on.
RollbackRefused(c, id) ==
    /\ \A record \in RecordsUnder(id) : ~Undoable(record)
    /\ Return(c, ReceiptFor(0, "refused", NoDocument, NoDocument))
    /\ UNCHANGED <<documents, undo, issued>>

\* rollback restores what the record holds (no document, if the transaction
\* created it) and drops the record.
RolledBack(c, id) ==
    \E record \in RecordsUnder(id) :
        /\ Undoable(record)
        /\ documents' = [documents EXCEPT ![record.document_id] = record.before]
        /\ undo' = undo \ {record}
        /\ Return(c, ReceiptFor(0, "rolled_back",
                                documents[record.document_id], record.before))
        /\ UNCHANGED issued

Rollback(c, id) == RollbackRefused(c, id) \/ RolledBack(c, id)

Next ==
    \E c \in Callers :
        \/ \E plan \in Plan, dry_run \in BOOLEAN : Execute(c, plan, dry_run)
        \/ \E id \in 0..MaxReceipts : Rollback(c, id)

Spec == Init /\ [][Next]_vars
-----------------------------------------------------------------------------
(***************************************************************************)
(* Properties.                                                             *)
(***************************************************************************)

\* Every variable stays in its type; in particular no record or document
\* ever holds the outcome of a failed action list.
TypeOK ==
    /\ documents \in [Documents -> Document]
    /\ undo \subseteq UndoRecord
    /\ issued \in 0..MaxReceipts
    /\ receipts \in [Callers -> Receipt]

\* A document exists exactly when its revision is positive.
ExistsIffRevised ==
    \A d \in Documents : documents[d].features = Absent <=> documents[d].revision = 0

\* The undo records of a document are one per revision, 1 to the present one:
\* no transaction is both superseded and lost, and none is recorded twice.
OneRecordPerRevision ==
    /\ \A d \in Documents : \A k \in 1..documents[d].revision :
           \E record \in undo : record.document_id = d /\ record.expected_revision = k
    /\ \A record \in undo :
           record.expected_revision <= documents[record.document_id].revision
    /\ \A r, s \in undo :
           r.document_id = s.document_id /\ r.expected_revision = s.expected_revision => r = s

\* Receipt ids of the records are distinct and were all issued.
DistinctReceipts ==
    /\ \A record \in undo : record.original_receipt.id \in 1..issued
    /\ \A r, s \in undo : r.original_receipt.id = s.original_receipt.id => r = s

\* What a record would restore is what the record below it left; the top
\* record's receipt shows the document as it is.
RecordsChain ==
    /\ \A record \in undo :
           /\ record.original_receipt.after.revision = record.expected_revision
           /\ record.original_receipt.after.features # Absent
           /\ record.before.revision = record.expected_revision - 1
           /\ record.expected_revision = 1 => record.before = NoDocument
           /\ record.expected_revision = documents[record.document_id].revision
                  => documents[record.document_id] = record.original_receipt.after
    /\ \A r, s \in undo :
           /\ r.document_id = s.document_id
           /\ s.expected_revision = r.expected_revision + 1
           => s.before = r.original_receipt.after

\* Why rollback is safe: whatever the interleaving of commits and rollbacks of
\* all callers, the undo records of each document are the stack of the
\* transactions in force, so the one record whose revision matches restores
\* exactly the document its transaction was applied to (memory.py, rollback:
\* "rollback would discard newer work" is refused).
UndoIsAStack ==
    ExistsIffRevised /\ OneRecordPerRevision /\ DistinctReceipts /\ RecordsChain

\* What a caller is told is what happened: a refused call or a dry run changes
\* no document, an accepted apply or rollback changes exactly one document,
\* from the receipt's before to its after ("Apply all actions atomically, or
\* refuse without mutation", adapters/base.py, execute).
ReceiptsTellTheTruth ==
    [][\A c \in Callers :
           receipts'[c] # receipts[c] =>
               \/ receipts'[c].status \in {"refused", "dry_run"} /\ documents' = documents
               \/ /\ receipts'[c].status \in {"applied", "rolled_back"}
                  /\ \E d \in Documents :
                         /\ documents[d] = receipts'[c].before
                         /\ documents' = [documents EXCEPT ![d] = receipts'[c].after]]_vars

-----------------------------------------------------------------------------
(***************************************************************************)
(* The adapter implements VersionStack: version k of a document is what    *)
(* the transaction recorded at revision k left.                            *)
(***************************************************************************)
RecordAt(d, k) ==
    CHOOSE record \in undo : record.document_id = d /\ record.expected_revision = k

versionsBar ==
    [d \in Documents |->
        [k \in 1..documents[d].revision |->
            RecordAt(d, k).original_receipt.after.features]]

Store == INSTANCE VersionStack WITH versions <- versionsBar

\* An applied transaction pushes one version, a rollback pops exactly that
\* version and restores what was under it, and nothing else touches a document.
ImplementsVersionStack == Store!Spec
=============================================================================

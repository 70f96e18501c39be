--------------------------- MODULE FreeCADAdapter ---------------------------
(***************************************************************************)
(* The FreeCAD adapter (src/src/cadrig/adapters/freecad.py): the same four *)
(* calls as the memory adapter, over documents that belong to a host and   *)
(* that its user edits, undoes, closes and opens between any two calls.    *)
(* The adapter learns of that only by comparing a fingerprint of the       *)
(* semantic snapshot with the one it stored; it undoes its transactions    *)
(* with the host's own undo list, which holds the user's as well.          *)
(*                                                                         *)
(* Everything runs in the host's main thread, so a call is one action.     *)
(*                                                                         *)
(* A document's contents are its features, which the snapshot shows, and   *)
(* the rest (hidden), which it does not: placements, constraint values,    *)
(* view properties.  What an action list does to features is a parameter.  *)
(* Left out: selections, the syntax of document names, lists with a        *)
(* misplaced create_document (refused like any invalid list), the export   *)
(* of artifacts, a cleanup that fails after a failed execution, and redo.  *)
(*                                                                         *)
(* Bounds: MaxReceipts applied transactions, MaxUserActs acts of the user. *)
(***************************************************************************)
EXTENDS Integers, Sequences

CONSTANTS
    Documents,
    Contents,           \* what the features of a document may be
    Hidden,             \* what the rest of it may be
    Blank, Plain,       \* the features and the rest of a new document
    UndoModes,          \* 0: the host keeps no undo list for the document
    ActionLists,
    Creates(_),         \* it begins with its only create_document (or has none)
    Preflight(_, _),    \* no diagnostic for the list on these features
    Apply(_, _),        \* [done, features]: all applied, or stopped at these
    MaxReceipts, MaxUserActs, Absent

ASSUME HostAssumption ==
    /\ Blank \in Contents /\ Plain \in Hidden /\ Absent \notin Contents
    /\ UndoModes \subseteq {0, 1}
    /\ MaxReceipts \in Nat /\ MaxUserActs \in Nat

\* Whatever actions do, and wherever they stop, leaves features.
ASSUME ApplyAssumption ==
    \A features \in Contents, actions \in ActionLists :
        Preflight(features, actions) =>
            /\ Apply(features, actions).done \in BOOLEAN
            /\ Apply(features, actions).features \in Contents

VARIABLES
    host,       \* the document of each name in the host, or NoHostDocument
    revisions,  \* _revisions: the last fingerprint and its number
    undo,       \* _undo
    issued,     \* receipts issued so far
    reply,      \* the receipt the last call returned
    acts,       \* acts of the user so far
    unseen,     \* history: documents changed from outside since last observed
    missed      \* history: documents where the adapter missed such a change

vars == <<host, revisions, undo, issued, reply, acts, unseen, missed>>

NoHostDocument ==
    [created_by |-> 0, features |-> Absent, hidden |-> Plain, undo_mode |-> 1,
     transactions |-> <<>>]
Unknown        == [fingerprint |-> Absent, revision |-> 0]
NoDocument     == [revision |-> 0, features |-> Absent]

ReceiptFor(id, status, before, after) ==
    [id |-> id, status |-> status, before |-> before, after |-> after]

Init ==
    /\ host = [d \in Documents |-> NoHostDocument]
    /\ revisions = [d \in Documents |-> Unknown]
    /\ undo = {} /\ issued = 0 /\ acts = 0 /\ unseen = {} /\ missed = {}
    /\ reply = ReceiptFor(0, "none", NoDocument, NoDocument)

Exists(d) == host[d] # NoHostDocument
-----------------------------------------------------------------------------
(***************************************************************************)
(* The host, as the adapter uses it.                                       *)
(***************************************************************************)

\* newDocument, or a file opened by the user: its undo list is empty.
NewDocument(id, features, mode) ==
    [created_by |-> id, features |-> features, hidden |-> Plain, undo_mode |-> mode,
     transactions |-> <<>>]

\* A committed transaction: what was there before goes on the undo list.
Committed(document, id, features, hidden) ==
    [document EXCEPT
        !.features = features, !.hidden = hidden,
        !.transactions = IF document.undo_mode = 0 THEN @
                         ELSE Append(@, [by |-> id, features |-> document.features,
                                         hidden |-> document.hidden])]

\* An aborted transaction: without an undo list nothing is taken back.
Aborted(document, features) ==
    IF document.undo_mode = 0 THEN [document EXCEPT !.features = features] ELSE document

Newest(document) == document.transactions[Len(document.transactions)]

Undone(document) ==
    [document EXCEPT
        !.features = Newest(document).features, !.hidden = Newest(document).hidden,
        !.transactions = SubSeq(@, 1, Len(@) - 1)]
-----------------------------------------------------------------------------
(***************************************************************************)
(* observe: every call begins with it.                                     *)
(***************************************************************************)

\* Faulty variant: another fingerprint is stored under the same revision.
ObservedWithoutBump(d) ==
    IF ~Exists(d) THEN Unknown
    ELSE IF revisions[d] = Unknown THEN [fingerprint |-> host[d].features, revision |-> 0]
    ELSE [revisions[d] EXCEPT !.fingerprint = host[d].features]

Observed(d) ==
    IF ~Exists(d) THEN Unknown
    ELSE IF revisions[d] = Unknown THEN [fingerprint |-> host[d].features, revision |-> 0]
    ELSE IF revisions[d].fingerprint = host[d].features THEN revisions[d]
    ELSE [fingerprint |-> host[d].features, revision |-> revisions[d].revision + 1]

Revision(d) == Observed(d).revision
Snapshot(d) ==
    IF Exists(d) THEN [revision |-> Revision(d), features |-> host[d].features] ELSE NoDocument

\* A change from outside is missed if the fingerprint does not show it.
Notice(d) ==
    /\ unseen' = unseen \ {d}
    /\ missed' = IF d \in unseen /\ Exists(d) /\ revisions[d] # Unknown
                    /\ Observed(d) = revisions[d]
                 THEN missed \cup {d} ELSE missed

Observe(d) ==
    /\ revisions' = [revisions EXCEPT ![d] = Observed(d)]
    /\ Notice(d)
    /\ UNCHANGED <<host, undo, issued, reply, acts>>
-----------------------------------------------------------------------------
(***************************************************************************)
(* execute                                                                 *)
(***************************************************************************)

Valid(d, base, actions) ==
    /\ base = Revision(d)
    /\ Creates(actions) <=> ~Exists(d)
    /\ Preflight(IF Exists(d) THEN host[d].features ELSE Blank, actions)

Refuse(d) ==
    /\ reply' = ReceiptFor(0, "refused", Snapshot(d), Snapshot(d))
    /\ revisions' = [revisions EXCEPT ![d] = Observed(d)]
    /\ Notice(d)
    /\ UNCHANGED <<undo, issued, acts>>

\* Diagnostics, or a document whose changes could not be undone.
ExecuteRefused(d, base, actions, dry_run) ==
    /\ \/ ~Valid(d, base, actions)
       \/ ~dry_run /\ Exists(d) /\ host[d].undo_mode = 0
    /\ Refuse(d)
    /\ UNCHANGED host

Admitted(d, base, actions, dry_run) ==
    /\ Valid(d, base, actions)
    /\ dry_run \/ ~Exists(d) \/ host[d].undo_mode = 1

Result(d, actions) == Apply(IF Exists(d) THEN host[d].features ELSE Blank, actions)

\* Faulty variant: a failed execution keeps what its actions had done.
ExecuteFailsHalfway(d, base, actions, dry_run) ==
    /\ Admitted(d, base, actions, dry_run)
    /\ Refuse(d)
    /\ host' = [host EXCEPT ![d] =
                   IF Exists(d) THEN [@ EXCEPT !.features = Result(d, actions).features] ELSE @]

\* An action failed, or the recompute did although every action was applied:
\* the transaction is aborted, a document just created is closed again.
ExecuteFails(d, base, actions, dry_run) ==
    /\ Admitted(d, base, actions, dry_run)
    /\ Refuse(d)
    /\ host' = [host EXCEPT ![d] =
                   IF Exists(d) THEN Aborted(@, Result(d, actions).features) ELSE @]

ExecuteDryRun(d, base, actions) ==
    LET after == [revision |-> base + 1, features |-> Result(d, actions).features]
    IN  /\ Admitted(d, base, actions, TRUE) /\ Result(d, actions).done
        /\ reply' = ReceiptFor(0, "dry_run", Snapshot(d), after)
        /\ revisions' = [revisions EXCEPT ![d] = Observed(d)]
        /\ Notice(d)
        /\ host' = [host EXCEPT ![d] = IF Exists(d) THEN Aborted(@, after.features) ELSE @]
        /\ UNCHANGED <<undo, issued, acts>>

\* Faulty variant: a receipt's id is used again.
ReceiptIdReused == issued

\* Ids are uuids in the code, numbers in order of issue here.
ReceiptId == issued + 1

\* Committed as one native transaction, on a new document if it is missing.
ExecuteApplied(d, base, actions) ==
    LET after   == [revision |-> base + 1, features |-> Result(d, actions).features]
        receipt == ReceiptFor(ReceiptId, "applied", Snapshot(d), after)
    IN  /\ issued < MaxReceipts
        /\ Admitted(d, base, actions, FALSE) /\ Result(d, actions).done
        /\ \E mode \in UndoModes :
               LET document == IF Exists(d) THEN host[d]
                               ELSE NewDocument(receipt.id, Blank, mode)
               IN  host' = [host EXCEPT ![d] =
                               Committed(document, receipt.id, after.features, document.hidden)]
        /\ revisions' = [revisions EXCEPT ![d] =
                            [fingerprint |-> after.features, revision |-> after.revision]]
        /\ undo' = undo \cup {[document_id |-> d, expected_revision |-> after.revision,
                               created_document |-> ~Exists(d), original_receipt |-> receipt]}
        /\ issued' = issued + 1
        /\ reply' = receipt
        /\ Notice(d)
        /\ UNCHANGED acts
-----------------------------------------------------------------------------
(***************************************************************************)
(* rollback                                                                *)
(***************************************************************************)
RecordsUnder(id) == {record \in undo : record.original_receipt.id = id}

Undoable(record) ==
    /\ Exists(record.document_id)
    /\ Revision(record.document_id) = record.expected_revision

RefuseRollback == reply' = ReceiptFor(0, "refused", NoDocument, NoDocument)

RollbackUnknown(id) ==
    /\ RecordsUnder(id) = {}
    /\ RefuseRollback
    /\ UNCHANGED <<host, revisions, undo, issued, acts, unseen, missed>>

RollbackConflict(record) ==
    /\ ~Undoable(record)
    /\ RefuseRollback
    /\ revisions' = [revisions EXCEPT ![record.document_id] = Observed(record.document_id)]
    /\ Notice(record.document_id)
    /\ UNCHANGED <<host, undo, issued, acts>>

\* The document the transaction created is closed; the host may refuse to.
RollbackCreation(record) ==
    LET d == record.document_id
    IN  /\ Undoable(record) /\ record.created_document
        /\ Notice(d)
        /\ \/ /\ host' = [host EXCEPT ![d] = NoHostDocument]
              /\ revisions' = [revisions EXCEPT ![d] = Unknown]
              /\ undo' = undo \ {record}
              /\ reply' = ReceiptFor(record.original_receipt.id, "rolled_back",
                                     Snapshot(d), NoDocument)
           \/ /\ RefuseRollback
              /\ revisions' = [revisions EXCEPT ![d] = Observed(d)]
              /\ UNCHANGED <<host, undo>>
        /\ UNCHANGED <<issued, acts>>

Restored(record, features) ==
    [fingerprint |-> features, revision |-> record.original_receipt.before.revision]

\* The newest transaction on the host's undo list is undone.
RollbackEdit(record) ==
    LET d     == record.document_id
        after == Restored(record, Newest(host[d]).features)
    IN  /\ Undoable(record) /\ ~record.created_document
        /\ host[d].transactions # <<>>
        /\ Notice(d)
        /\ host' = [host EXCEPT ![d] = Undone(@)]
        /\ revisions' = [revisions EXCEPT ![d] = after]
        /\ undo' = undo \ {record}
        /\ reply' = ReceiptFor(record.original_receipt.id, "rolled_back", Snapshot(d),
                               [revision |-> after.revision, features |-> after.fingerprint])
        /\ UNCHANGED <<issued, acts>>

\* There is nothing to undo, or the recompute after the undo raised: refused,
\* and in the second case undone all the same.
RollbackEditFails(record) ==
    LET d == record.document_id
    IN  /\ Undoable(record) /\ ~record.created_document
        /\ RefuseRollback
        /\ revisions' = [revisions EXCEPT ![d] = Observed(d)]
        /\ \/ host[d].transactions = <<>> /\ Notice(d) /\ UNCHANGED host
           \/ /\ host[d].transactions # <<>>
              /\ host' = [host EXCEPT ![d] = Undone(@)]
              /\ unseen' = unseen \cup {d}
              /\ missed' = IF d \in unseen /\ Observed(d) = revisions[d]
                           THEN missed \cup {d} ELSE missed
        /\ UNCHANGED <<undo, issued, acts>>
-----------------------------------------------------------------------------
(***************************************************************************)
(* The user of the host.                                                   *)
(***************************************************************************)
Act(d, document) ==
    /\ acts < MaxUserActs /\ acts' = acts + 1
    /\ host' = [host EXCEPT ![d] = document]
    /\ unseen' = unseen \cup {d}
    /\ UNCHANGED <<revisions, undo, issued, reply>>

\* She edits what the snapshot shows, or something else.
UserEdits(d) ==
    /\ Exists(d)
    /\ \/ \E features \in Contents \ {host[d].features} :
              Act(d, Committed(host[d], 0, features, host[d].hidden))
       \/ \E hidden \in Hidden \ {host[d].hidden} :
              Act(d, Committed(host[d], 0, host[d].features, hidden))
    /\ UNCHANGED missed

UserUndoes(d) ==
    /\ Exists(d) /\ host[d].transactions # <<>>
    /\ Act(d, Undone(host[d]))
    /\ UNCHANGED missed

UserOpens(d) ==
    /\ ~Exists(d)
    /\ \E features \in Contents, mode \in UndoModes : Act(d, NewDocument(0, features, mode))
    /\ UNCHANGED missed

\* A closed document is never noticed to be gone by the records of it.
UserCloses(d) ==
    /\ Exists(d)
    /\ Act(d, NoHostDocument)
    /\ missed' = missed \cup {d}

\* Revisions a plan may name: the current one, and one that is not.
Bases(d) == {Revision(d), Revision(d) + 1}

Execute(d, base, actions, dry_run) ==
    \/ ExecuteRefused(d, base, actions, dry_run)
    \/ ExecuteFails(d, base, actions, dry_run)
    \/ dry_run /\ ExecuteDryRun(d, base, actions)
    \/ ~dry_run /\ ExecuteApplied(d, base, actions)

Rollback(id) ==
    \/ RollbackUnknown(id)
    \/ \E record \in RecordsUnder(id) :
           \/ RollbackConflict(record) \/ RollbackCreation(record)
           \/ RollbackEdit(record) \/ RollbackEditFails(record)

DocumentStep(d) ==
    \/ Observe(d)
    \/ \E base \in Bases(d), actions \in ActionLists, dry_run \in BOOLEAN :
           Execute(d, base, actions, dry_run)
    \/ UserEdits(d) \/ UserUndoes(d) \/ UserOpens(d) \/ UserCloses(d)

Next ==
    \/ \E d \in Documents : DocumentStep(d)
    \/ \E id \in 1..MaxReceipts : Rollback(id)

Spec == Init /\ [][Next]_vars
-----------------------------------------------------------------------------
(***************************************************************************)
(* Properties.                                                             *)
(***************************************************************************)

Content  == Contents \cup {Absent}
Versions == [revision : Nat, features : Content]
Receipt  ==
    [id : 0..issued, status : {"none", "refused", "dry_run", "applied", "rolled_back"},
     before : Versions, after : Versions]

\* The state is well typed, and receipts tell transactions apart.
TypeOK ==
    /\ \A d \in Documents :
           /\ host[d].features \in Content /\ host[d].created_by \in 0..issued
           /\ revisions[d].fingerprint \in Content /\ revisions[d].revision \in Nat
    /\ reply \in Receipt
    /\ \A record \in undo :
           /\ record.original_receipt \in Receipt /\ record.original_receipt.id # 0
           /\ record.expected_revision = record.original_receipt.before.revision + 1
    /\ \A r, s \in undo : r.original_receipt.id = s.original_receipt.id => r = s

\* The record's transaction is the last thing that happened to its document,
\* and this step takes back exactly it.
UndoesItsOwn(record) ==
    LET d  == record.document_id
        id == record.original_receipt.id
    IN  /\ host[d].features = record.original_receipt.after.features
        /\ IF record.created_document
           THEN host[d].created_by = id /\ host'[d] = NoHostDocument
           ELSE /\ Newest(host[d]).by = id
                /\ host'[d].features = record.original_receipt.before.features

\* However adapter calls, failures and acts of the user interleave, a rollback
\* is accepted only when it takes back its own transaction and nothing else,
\* as long as every change of the user was one the adapter could notice.
NoticedWorkIsSafe ==
    [][\A record \in undo \ undo' :
           record.document_id \notin missed' => UndoesItsOwn(record)]_vars

\* What a step of the adapter does to a document is what its receipt says, but
\* for two cases: a document without an undo list keeps what a dry run or a
\* failed execution did to it, and a rollback whose recompute raised has undone
\* its transaction although it is reported as refused.
ChangesAreReported ==
    [][\A d \in Documents :
           host'[d] # host[d] /\ acts' = acts =>
               \/ /\ reply'.status \in {"applied", "rolled_back"} /\ reply' # reply
                  /\ reply'.before.features = host[d].features
                  /\ reply'.after.features = host'[d].features
               \/ host[d].undo_mode = 0 /\ reply'.status \in {"dry_run", "refused"}
               \/ /\ \E record \in undo : Undoable(record) /\ record.document_id = d
                  /\ host'[d] = Undone(host[d]) /\ reply'.status = "refused"]_vars

\* "Rollback a committed transaction when it is still safe to do so"
\* (adapters/base.py, rollback), a rollback being refused when it "would
\* discard newer work" (adapters/freecad.py, rollback): whatever the user did,
\* the edit that is taken back is the one of the receipt.
RollbacksUndoTheirOwn ==
    [][\A record \in undo \ undo' :
           ~record.created_document => UndoesItsOwn(record)]_vars

\* The same of a creation: the document that is closed is the one of the receipt.
\* This does not hold (README, disagreements).
RollbacksCloseTheirOwn ==
    [][\A record \in undo \ undo' :
           record.created_document => UndoesItsOwn(record)]_vars
=============================================================================

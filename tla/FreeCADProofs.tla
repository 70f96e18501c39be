---------------------------- MODULE FreeCADProofs ----------------------------
(***************************************************************************)
(* Proofs about FreeCADAdapter and Macros, for any documents, contents,    *)
(* semantics of actions, numbers of transactions and of acts of the user.  *)
(*                                                                         *)
(* The host's undo list is shared with the user, and the adapter sees her  *)
(* changes through a fingerprint.  So the invariant is conditional: as     *)
(* long as no change to a document was missed, no record is ahead of it;   *)
(* while none is waiting to be observed either, the records that reach up  *)
(* to its revision without a gap are on its undo list, in their order.  A  *)
(* change that is noticed makes a gap that is never closed.                *)
(***************************************************************************)
EXTENDS Macros, SequenceTheorems, TLAPS

\* What the host keeps of a transaction, and of a document.
Transaction == [by : Nat, features : Contents, hidden : Hidden]

HostDocument ==
    [created_by : 0..issued, features : Contents, hidden : Hidden, undo_mode : {0, 1},
     transactions : Seq(Transaction)]

\* What the adapter keeps of a document, and of a transaction.
Observation == [fingerprint : Content, revision : Nat]

UndoRecord ==
    [document_id : Documents, expected_revision : Nat, created_document : BOOLEAN,
     original_receipt : Receipt]

Typed ==
    /\ issued \in Nat
    /\ host \in [Documents -> HostDocument \cup {NoHostDocument}]
    /\ revisions \in [Documents -> Observation]
    /\ reply \in Receipt
    /\ undo \subseteq UndoRecord

\* Records tell their transactions apart and are one revision above where
\* those began; a receipt of a roll-back has no record any more.
Issued ==
    /\ \A record \in undo :
           /\ record.original_receipt.id # 0
           /\ record.expected_revision = record.original_receipt.before.revision + 1
           /\ record.created_document => record.expected_revision = 1
    /\ \A r, s \in undo : r.original_receipt.id = s.original_receipt.id => r = s
    /\ reply.status = "rolled_back" => RecordsUnder(reply.id) = {}

RecordsOf(d) == {record \in undo : record.document_id = d}

\* No record is ahead of its document, and no two are for one revision.
Behind(d) ==
    /\ \A r \in RecordsOf(d) : r.expected_revision <= revisions[d].revision
    /\ \A r, s \in RecordsOf(d) : r.expected_revision = s.expected_revision => r = s

\* The adapter knows nothing of a document that is not there.
Forgotten(d) == ~Exists(d) => revisions[d] = Unknown

\* How many revisions of its document are above the record's.
Height(r) == revisions[r.document_id].revision - r.expected_revision

\* Every revision from the record's on is of a transaction with a record.
Live(r) ==
    \A k \in r.expected_revision..revisions[r.document_id].revision :
        \E s \in RecordsOf(r.document_id) : s.expected_revision = k

\* The record's transaction will be the newest on the host's list when those
\* above it have been undone.
OnTheList(r) ==
    LET list == host[r.document_id].transactions
        own  == list[Len(list) - Height(r)]
    IN  /\ Height(r) < Len(list)
        /\ own.by = r.original_receipt.id
        /\ own.features = r.original_receipt.before.features

\* What the record's transaction left is what the next one found, or what the
\* adapter last saw.
InPlace(r) ==
    /\ Height(r) = 0 =>
           revisions[r.document_id].fingerprint = r.original_receipt.after.features
    /\ \A s \in RecordsOf(r.document_id) :
           s.expected_revision = r.expected_revision + 1 =>
               s.original_receipt.before.features = r.original_receipt.after.features
    /\ IF r.created_document THEN host[r.document_id].created_by = r.original_receipt.id
       ELSE OnTheList(r)

Stacked(d) == \A r \in RecordsOf(d) : Live(r) => InPlace(r)

Kept(d) ==
    d \notin missed => Behind(d) /\ Forgotten(d) /\ (d \notin unseen => Stacked(d))

HostInv == Typed /\ Issued /\ \A d \in Documents : Kept(d)

\* A document that is there is one the host keeps.
LEMMA ExistsIs ==
    ASSUME Typed, NEW d \in Documents
    PROVE  /\ Exists(d) => host[d] \in HostDocument
           /\ Exists(d) <=> host[d].features # Absent
           /\ ~Exists(d) => host[d].features = Absent
  BY HostAssumption DEF Typed, Exists, HostDocument, NoHostDocument

\* What a call observes is an observation, and what it shows is well typed.
LEMMA ObservedType ==
    ASSUME Typed, NEW d \in Documents
    PROVE  Observed(d) \in Observation /\ Snapshot(d) \in Versions
  <1>1. Observed(d) \in Observation
    BY ExistsIs DEF Typed, Observed, Observation, Unknown, Content, HostDocument
  <1>2. QED
    BY <1>1, ExistsIs DEF Snapshot, Revision, Versions, Observation, NoDocument, Content,
       HostDocument

\* The result of an admitted list is features.
LEMMA ResultType ==
    ASSUME Typed, NEW d \in Documents, NEW base, NEW actions \in ActionLists,
           Valid(d, base, actions)
    PROVE  Result(d, actions).features \in Contents
  BY ExistsIs, ApplyAssumption, HostAssumption DEF Valid, Result, HostDocument

\* Committing to, undoing and aborting in a document leave a document.
LEMMA CommittedType ==
    ASSUME NEW id \in Nat, NEW document \in HostDocument, NEW features \in Contents,
           NEW hidden \in Hidden
    PROVE  /\ Committed(document, id, features, hidden) \in HostDocument
           /\ Committed(document, id, features, hidden).features = features
           /\ Committed(document, id, features, hidden).created_by = document.created_by
           /\ document.undo_mode = 1 =>
                  LET new == [by |-> id, features |-> document.features,
                              hidden |-> document.hidden]
                  IN  Committed(document, id, features, hidden).transactions =
                          Append(document.transactions, new)
  <1> DEFINE new == [by |-> id, features |-> document.features, hidden |-> document.hidden]
             list == Append(document.transactions, new)
  <1>1. new \in Transaction
    BY DEF HostDocument, Transaction
  <1>2. list \in Seq(Transaction)
    BY <1>1, AppendProperties DEF HostDocument
  <1> HIDE DEF new, list
  <1>3. Committed(document, id, features, hidden) =
            [document EXCEPT !.features = features, !.hidden = hidden,
                 !.transactions = IF document.undo_mode = 0 THEN @ ELSE list]
    BY DEF Committed, list, new
  <1>4. Committed(document, id, features, hidden) \in HostDocument
    BY <1>2, <1>3 DEF HostDocument
  <1>5. /\ Committed(document, id, features, hidden).features = features
        /\ Committed(document, id, features, hidden).created_by = document.created_by
        /\ document.undo_mode = 1 =>
               Committed(document, id, features, hidden).transactions = list
    BY <1>3 DEF HostDocument
  <1>6. QED
    BY <1>4, <1>5 DEF list, new

\* The same document after an undo is one of the host's.
LEMMA UndoneType ==
    ASSUME NEW document \in HostDocument, document.transactions # <<>>
    PROVE  /\ Undone(document) \in HostDocument
           /\ Newest(document) \in Transaction
           /\ Undone(document).features = Newest(document).features
           /\ Undone(document).created_by = document.created_by
           /\ Len(document.transactions) > 0
           /\ Len(Undone(document).transactions) = Len(document.transactions) - 1
           /\ \A i \in 1..Len(document.transactions) - 1 :
                  Undone(document).transactions[i] = document.transactions[i]
  <1> DEFINE list == document.transactions
             shorter == SubSeq(list, 1, Len(list) - 1)
  <1>1. list \in Seq(Transaction) /\ Len(list) > 0
    BY EmptySeq, LenProperties DEF HostDocument
  <1>2. Newest(document) \in Transaction
    BY <1>1, ElementOfSeq DEF Newest
  <1>3. /\ shorter \in Seq(Transaction) /\ Len(shorter) = Len(list) - 1
        /\ \A i \in 1..Len(list) - 1 : shorter[i] = list[i]
    BY <1>1
  <1> HIDE DEF shorter
  <1>4. Undone(document) =
            [document EXCEPT !.features = Newest(document).features,
                 !.hidden = Newest(document).hidden, !.transactions = shorter]
    BY DEF Undone, shorter
  <1>5. QED
    BY <1>1, <1>2, <1>3, <1>4 DEF HostDocument, Transaction

\* ... and after an abort.
LEMMA AbortedType ==
    ASSUME NEW document \in HostDocument, NEW features \in Contents
    PROVE  /\ Aborted(document, features) \in HostDocument
           /\ Aborted(document, features).created_by = document.created_by
           /\ Aborted(document, features).transactions = document.transactions
           /\ document.undo_mode # 0 => Aborted(document, features) = document
  BY DEF Aborted, HostDocument

-----------------------------------------------------------------------------
(***************************************************************************)
(* The kinds of steps, by what they do to the adapter's knowledge.         *)
(***************************************************************************)

\* The adapter observes a document and commits nothing.
Looked(d) ==
    /\ \E document \in HostDocument \cup {NoHostDocument} :
           /\ host' = [host EXCEPT ![d] = document]
           /\ Exists(d) <=> document \in HostDocument
           /\ document.created_by = host[d].created_by
           /\ document.transactions = host[d].transactions
    /\ revisions' = [revisions EXCEPT ![d] = Observed(d)]
    /\ Notice(d)
    /\ reply' = reply \/ (reply' \in Receipt /\ reply'.status # "rolled_back")
    /\ UNCHANGED <<undo, issued>>

\* Documents are changed behind the adapter's back.
Touched ==
    /\ host' \in [Documents -> HostDocument \cup {NoHostDocument}]
    /\ \A d \in Documents :
           /\ host'[d] # host[d] => d \in unseen'
           /\ Exists(d) /\ host'[d] = NoHostDocument => d \in missed'
    /\ unseen \subseteq unseen' /\ missed \subseteq missed'
    /\ reply' = reply \/ (reply' \in Receipt /\ reply'.status # "rolled_back")
    /\ UNCHANGED <<revisions, undo, issued>>

\* The document a transaction created is closed.
ClosedAgain(record) ==
    LET d == record.document_id
    IN  /\ Undoable(record) /\ record.created_document
        /\ Notice(d)
        /\ host' = [host EXCEPT ![d] = NoHostDocument]
        /\ revisions' = [revisions EXCEPT ![d] = Unknown]
        /\ undo' = undo \ {record}
        /\ reply' = ReceiptFor(record.original_receipt.id, "rolled_back", Snapshot(d), NoDocument)
        /\ UNCHANGED <<issued, acts>>

\* A transaction is undone and the roll-back fails all the same.
HalfUndone(record) ==
    LET d == record.document_id
    IN  /\ Undoable(record)
        /\ RefuseRollback
        /\ revisions' = [revisions EXCEPT ![d] = Observed(d)]
        /\ host[d].transactions # <<>>
        /\ host' = [host EXCEPT ![d] = Undone(@)]
        /\ unseen' = unseen \cup {d} /\ missed \subseteq missed'
        /\ UNCHANGED <<undo, issued, acts>>

\* A call that leaves its document alone looks at it.
LEMMA LookedOnly ==
    ASSUME Typed, NEW d \in Documents, host' = host, Notice(d),
           revisions' = [revisions EXCEPT ![d] = Observed(d)],
           reply' = reply \/ (reply' \in Receipt /\ reply'.status # "rolled_back"),
           UNCHANGED <<undo, issued>>
    PROVE  Looked(d)
  <1>1. host' = [host EXCEPT ![d] = host[d]] /\ host[d] \in HostDocument \cup {NoHostDocument}
    BY DEF Typed
  <1>2. Exists(d) <=> host[d] \in HostDocument
    BY ExistsIs, HostAssumption DEF Exists, HostDocument, NoHostDocument
  <1>3. QED
    BY <1>1, <1>2 DEF Looked

\* The receipts of calls that committed nothing.
LEMMA RefusalType ==
    ASSUME Typed, NEW d \in Documents, NEW s \in {"refused", "dry_run"},
           NEW before \in Versions, NEW after \in Versions
    PROVE  /\ ReceiptFor(0, s, before, after) \in Receipt
           /\ ReceiptFor(0, s, before, after).status # "rolled_back"
  BY DEF ReceiptFor, Receipt, Typed

\* A refused, failed or dry execution looks at its document.
LEMMA RefusedLooks ==
    ASSUME Typed, NEW d \in Documents, NEW base, NEW actions \in ActionLists,
           NEW dry_run \in BOOLEAN,
           \/ ExecuteRefused(d, base, actions, dry_run)
           \/ ExecuteFails(d, base, actions, dry_run)
    PROVE  Looked(d)
  <1>1. /\ reply' \in Receipt /\ reply'.status # "rolled_back"
        /\ revisions' = [revisions EXCEPT ![d] = Observed(d)]
        /\ Notice(d) /\ UNCHANGED <<undo, issued>>
    BY ObservedType, RefusalType DEF ExecuteRefused, ExecuteFails, Refuse
  <1>2. CASE host' = host
    BY <1>1, <1>2, LookedOnly
  <1>3. CASE ExecuteFails(d, base, actions, dry_run) /\ ~Exists(d)
    BY <1>1, <1>3, LookedOnly DEF ExecuteFails, Typed
  <1>4. CASE ExecuteFails(d, base, actions, dry_run) /\ Exists(d)
    <2> DEFINE document == Aborted(host[d], Result(d, actions).features)
    <2>1. host[d] \in HostDocument /\ Result(d, actions).features \in Contents
      BY <1>4, ExistsIs, ResultType DEF ExecuteFails, Admitted
    <2>2. /\ document \in HostDocument
          /\ document.created_by = host[d].created_by
          /\ document.transactions = host[d].transactions
      BY <2>1, AbortedType
    <2>3. host' = [host EXCEPT ![d] = document]
      BY <1>4 DEF ExecuteFails
    <2> HIDE DEF document
    <2>4. QED
      BY <1>1, <1>4, <2>2, <2>3 DEF Looked
  <1>5. QED
    BY <1>2, <1>3, <1>4 DEF ExecuteRefused

\* A dry run ends as an observation of the document it has restored, or of what it left.
LEMMA DryRunLooks ==
    ASSUME Typed, NEW d \in Documents, NEW base, NEW actions \in ActionLists,
           ExecuteDryRun(d, base, actions)
    PROVE  Looked(d)
  <1> DEFINE after == [revision |-> base + 1, features |-> Result(d, actions).features]
             document == Aborted(host[d], after.features)
  <1>1. Result(d, actions).features \in Contents /\ base \in Nat
    BY ResultType, ObservedType DEF ExecuteDryRun, Admitted, Valid, Revision, Observation
  <1>2. after \in Versions
    BY <1>1 DEF Versions, Content
  <1>3. /\ reply' \in Receipt /\ reply'.status # "rolled_back"
        /\ revisions' = [revisions EXCEPT ![d] = Observed(d)]
        /\ Notice(d) /\ UNCHANGED <<undo, issued>>
    BY <1>2, ObservedType, RefusalType DEF ExecuteDryRun
  <1>4. CASE ~Exists(d)
    BY <1>3, <1>4, LookedOnly DEF ExecuteDryRun, Typed
  <1>5. CASE Exists(d)
    <2>1. /\ document \in HostDocument
          /\ document.created_by = host[d].created_by
          /\ document.transactions = host[d].transactions
      BY <1>1, <1>5, ExistsIs, AbortedType
    <2>2. host' = [host EXCEPT ![d] = document]
      BY <1>5 DEF ExecuteDryRun
    <2> HIDE DEF document
    <2>3. QED
      BY <1>3, <1>5, <2>1, <2>2 DEF Looked
  <1>6. QED
    BY <1>4, <1>5

\* What the user does, she does behind the adapter's back.
LEMMA UserTouches ==
    ASSUME Typed, NEW d \in Documents,
           UserEdits(d) \/ UserUndoes(d) \/ UserOpens(d) \/ UserCloses(d)
    PROVE  Touched
  <1>1. ASSUME NEW document \in HostDocument \cup {NoHostDocument}, Act(d, document),
               missed \subseteq missed',
               Exists(d) /\ document = NoHostDocument => d \in missed'
        PROVE  Touched
    <2>1. /\ host' = [host EXCEPT ![d] = document]
          /\ unseen' = unseen \cup {d}
          /\ UNCHANGED <<revisions, undo, issued, reply>>
      BY <1>1 DEF Act
    <2>2. host' \in [Documents -> HostDocument \cup {NoHostDocument}]
      BY <2>1 DEF Typed
    <2>3. \A x \in Documents :
              /\ host'[x] # host[x] => x \in unseen'
              /\ Exists(x) /\ host'[x] = NoHostDocument => x \in missed'
      BY <1>1, <2>1 DEF Typed, Exists
    <2>4. QED
      BY <1>1, <2>1, <2>2, <2>3 DEF Touched
  <1>2. ASSUME NEW document \in HostDocument
        PROVE  document # NoHostDocument
    BY HostAssumption DEF HostDocument, NoHostDocument
  <1>3. CASE UserEdits(d)
    <2>1. host[d] \in HostDocument /\ host[d].features \in Contents /\ host[d].hidden \in Hidden
      BY <1>3, ExistsIs DEF UserEdits, HostDocument
    <2>2. ASSUME NEW features \in Contents, NEW hidden \in Hidden
          PROVE  Committed(host[d], 0, features, hidden) \in HostDocument
      BY <2>1, CommittedType
    <2>3. CASE \E features \in Contents \ {host[d].features} :
                   Act(d, Committed(host[d], 0, features, host[d].hidden))
      BY <1>1, <1>2, <1>3, <2>1, <2>2, <2>3 DEF UserEdits
    <2>4. CASE \E hidden \in Hidden \ {host[d].hidden} :
                   Act(d, Committed(host[d], 0, host[d].features, hidden))
      BY <1>1, <1>2, <1>3, <2>1, <2>2, <2>4 DEF UserEdits
    <2>5. QED
      BY <1>3, <2>3, <2>4 DEF UserEdits
  <1>4. CASE UserUndoes(d)
    <2>1. Undone(host[d]) \in HostDocument
      BY <1>4, ExistsIs, UndoneType DEF UserUndoes
    <2>2. QED
      BY <1>1, <1>2, <1>4, <2>1 DEF UserUndoes
  <1>5. CASE UserOpens(d)
    <2>1. ASSUME NEW features \in Contents, NEW mode \in UndoModes
          PROVE  NewDocument(0, features, mode) \in HostDocument
      BY HostAssumption, EmptySeq DEF NewDocument, HostDocument, Typed
    <2>2. QED
      BY <1>1, <1>2, <1>5, <2>1 DEF UserOpens
  <1>6. CASE UserCloses(d)
    BY <1>1, <1>6 DEF UserCloses
  <1>7. QED
    BY <1>3, <1>4, <1>5, <1>6

\* Opening a transaction leaves a document that keeps an undo list.
LEMMA OpenedType ==
    ASSUME NEW document \in HostDocument
    PROVE  /\ Opened(document) \in HostDocument
           /\ Opened(document).features = document.features
           /\ Opened(document).transactions = document.transactions
           /\ Opened(document).undo_mode = 1
  BY DEF Opened, HostDocument

\* Whatever the code does with the transaction leaves a document, or none.
LEMMA EndedType ==
    ASSUME NEW document \in HostDocument, NEW conduct \in Conducts, NEW features \in Contents,
           NEW abort \in BOOLEAN, conduct = "undoes" => document.transactions # <<>>
    PROVE  /\ conduct = "closes" => Ended(document, conduct, features, abort) = NoHostDocument
           /\ conduct # "closes" => Ended(document, conduct, features, abort) \in HostDocument
  <1> DEFINE opened == Opened(document)
  <1>1. /\ opened \in HostDocument /\ opened.hidden \in Hidden
        /\ opened.transactions = document.transactions /\ opened.hidden = document.hidden
    BY OpenedType DEF Opened, HostDocument
  <1> HIDE DEF opened
  <1>2. Committed(opened, 0, features, document.hidden) \in HostDocument
    BY <1>1, CommittedType
  <1>3. Aborted(opened, features) \in HostDocument
    BY <1>1, AbortedType
  <1>4. CASE conduct = "keeps"
    BY <1>2, <1>3, <1>4 DEF Ended, opened
  <1>5. CASE conduct = "commits"
    BY <1>1, <1>2, <1>5 DEF Ended, Left, opened
  <1>6. CASE conduct = "undoes"
    <2>1. Undone(opened) \in HostDocument
      BY <1>1, <1>6, UndoneType
    <2>2. [Undone(opened) EXCEPT !.features = features] \in HostDocument
      BY <2>1 DEF HostDocument
    <2>3. QED
      BY <1>6, <2>2 DEF Ended, Left, opened
  <1>7. CASE conduct = "clears"
    <2>1. [opened EXCEPT !.features = features, !.undo_mode = 0, !.transactions = <<>>]
             \in HostDocument
      BY <1>1, EmptySeq DEF HostDocument
    <2>2. QED
      BY <1>7, <2>1 DEF Ended, Left, opened
  <1>8. CASE conduct = "closes"
    BY <1>8 DEF Ended, Left
  <1>9. QED
    BY <1>4, <1>5, <1>6, <1>7, <1>8 DEF Conducts

\* A macro acts behind the adapter's back, too.
LEMMA MacroTouches ==
    ASSUME Typed, MacroStep
    PROVE  Touched
  <1>1. PICK active \in {d \in Documents : Exists(d)} \cup {Nobody}, features \in Made,
             conduct \in Conducts, ending \in Endings, refused \in SUBSET {"abort", "close"},
             other \in Documents \cup {Nobody}, theirs \in Made :
                /\ other # active
                /\ ExecuteMacro(active, features, other, theirs, conduct, ending, refused)
    BY DEF MacroStep
  <1> DEFINE failed == ending = "exception" \/ (ending = "normal" /\ conduct = "closes")
             abort == failed /\ "abort" \notin refused
             After(d) ==
                 IF d = active THEN Ended(host[d], conduct, features, abort)
                 ELSE IF d # other THEN host[d]
                 ELSE IF failed /\ ~Exists(d) /\ "close" \notin refused THEN NoHostDocument
                 ELSE MacroRun(d, theirs)
  <1>2. /\ host' = [d \in Documents |-> After(d)]
        /\ active = Nobody => conduct = "keeps"
        /\ conduct = "undoes" => host[active].transactions # <<>>
        /\ unseen' = unseen \cup {d \in Documents : host'[d] # host[d]}
        /\ missed' = IF conduct = "closes" THEN missed \cup {active} ELSE missed
        /\ UNCHANGED <<revisions, undo, issued, reply>>
    BY <1>1 DEF ExecuteMacro
  <1>3. ASSUME NEW d \in Documents
        PROVE  /\ After(d) \in HostDocument \cup {NoHostDocument}
               /\ Exists(d) /\ After(d) = NoHostDocument => d \in missed'
    <2>0. HostDocument \cap {NoHostDocument} = {}
      BY HostAssumption DEF HostDocument, NoHostDocument
    <2>1. CASE d = active
      <3>1. host[d] \in HostDocument
        BY <2>1, MacroAssumption, ExistsIs
      <3>2. After(d) = Ended(host[d], conduct, features, abort)
        BY <2>1
      <3>3. abort \in BOOLEAN /\ features \in Contents
        BY MacroAssumption
      <3> HIDE DEF After, abort
      <3>4. /\ conduct = "closes" => After(d) = NoHostDocument
            /\ conduct # "closes" => After(d) \in HostDocument
        BY <1>2, <2>1, <3>1, <3>2, <3>3, EndedType
      <3>5. QED
        BY <1>2, <2>0, <2>1, <3>4
    <2>2. CASE d # active /\ d = other
      <3>1. theirs \in Contents
        BY MacroAssumption
      <3>2. MacroRun(d, theirs) \in HostDocument
        <4>1. CASE Exists(d)
          BY <3>1, <4>1, ExistsIs DEF HostDocument, MacroRun
        <4>2. CASE ~Exists(d)
          BY <3>1, <4>2, HostAssumption, EmptySeq
          DEF NewDocument, HostDocument, Typed, MacroRun
        <4>3. QED
          BY <4>1, <4>2
      <3>3. QED
        BY <2>0, <2>2, <3>2
    <2>3. CASE d # active /\ d # other
      BY <2>3 DEF Typed, Exists
    <2>4. QED
      BY <2>1, <2>2, <2>3
  <1> HIDE DEF After
  <1>4. /\ host' \in [Documents -> HostDocument \cup {NoHostDocument}]
        /\ \A d \in Documents : host'[d] = After(d)
    BY <1>2, <1>3
  <1>5. unseen \subseteq unseen' /\ missed \subseteq missed'
    BY <1>2
  <1>6. QED
    BY <1>2, <1>3, <1>4, <1>5 DEF Touched

\* A roll-back is of one of four kinds, if it does more than refuse.
LEMMA RollbackKinds ==
    ASSUME Typed, NEW id, Rollback(id)
    PROVE  \/ Touched
           \/ \E d \in Documents : Looked(d)
           \/ \E record \in undo : ClosedAgain(record) \/ HalfUndone(record)
                                   \/ RollbackEdit(record)
  <1>1. RefuseRollback => reply' \in Receipt /\ reply'.status # "rolled_back"
    BY RefusalType DEF RefuseRollback, NoDocument, Versions, Content, ReceiptFor, Receipt, Typed
  <1>2. CASE RollbackUnknown(id)
    <2>1. Touched
      BY <1>1, <1>2 DEF RollbackUnknown, Touched, Typed, Exists
    <2>2. QED
      BY <2>1
  <1>3. ASSUME NEW record \in undo, RollbackConflict(record)
        PROVE  Looked(record.document_id)
    BY <1>1, <1>3, LookedOnly DEF RollbackConflict, Typed, UndoRecord
  <1>4. ASSUME NEW record \in undo, RollbackCreation(record)
        PROVE  Looked(record.document_id) \/ ClosedAgain(record)
    <2>1. CASE RefuseRollback /\ revisions' = [revisions EXCEPT ![record.document_id] =
                                                  Observed(record.document_id)]
                              /\ UNCHANGED <<host, undo>>
      BY <1>1, <1>4, <2>1, LookedOnly DEF RollbackCreation, Typed, UndoRecord
    <2>2. QED
      BY <1>4, <2>1 DEF RollbackCreation, ClosedAgain
  <1>5. ASSUME NEW record \in undo, RollbackEditFails(record)
        PROVE  Looked(record.document_id) \/ HalfUndone(record)
    <2>1. CASE Notice(record.document_id) /\ UNCHANGED host
      BY <1>1, <1>5, <2>1, LookedOnly DEF RollbackEditFails, Typed, UndoRecord
    <2>2. QED
      BY <1>5, <2>1 DEF RollbackEditFails, HalfUndone
  <1>6. QED
    BY <1>2, <1>3, <1>4, <1>5 DEF Rollback, RecordsUnder, Typed, UndoRecord

\* Every step of the host, the adapter, the user and the macros is of a kind
\* that follows.
LEMMA StepKinds ==
    ASSUME Typed, [MacroNext]_macroVars
    PROVE  \/ Touched
           \/ \E d \in Documents : Looked(d)
           \/ \E record \in undo : ClosedAgain(record) \/ HalfUndone(record)
                                   \/ RollbackEdit(record)
           \/ \E d \in Documents, base \in Nat, actions \in ActionLists :
                  ExecuteApplied(d, base, actions)
  <1>1. CASE UNCHANGED macroVars
    <2>1. Touched
      BY <1>1 DEF Touched, Typed, Exists, macroVars, vars
    <2>2. QED
      BY <2>1
  <1>2. ASSUME NEW d \in Documents, Observe(d)
        PROVE  Looked(d)
    BY <1>2, LookedOnly DEF Observe
  <1>3. ASSUME NEW d \in Documents, DocumentStep(d)
        PROVE  Touched \/ Looked(d) \/ \E base \in Nat, actions \in ActionLists :
                                           ExecuteApplied(d, base, actions)
    <2>1. CASE \E base \in Bases(d), actions \in ActionLists, dry_run \in BOOLEAN :
                   Execute(d, base, actions, dry_run)
      <3>1. PICK base \in Bases(d), actions \in ActionLists, dry_run \in BOOLEAN :
                Execute(d, base, actions, dry_run)
        BY <2>1
      <3>2. base \in Nat
        BY ObservedType DEF Bases, Revision, Observation
      <3>3. QED
        BY <3>1, <3>2, RefusedLooks, DryRunLooks DEF Execute
    <2>2. QED
      BY <1>2, <1>3, <2>1, UserTouches DEF DocumentStep
  <1>4. QED
    BY <1>1, <1>3, RollbackKinds, MacroTouches, UserTouches, MacroAssumption DEF MacroNext

-----------------------------------------------------------------------------
(***************************************************************************)
(* Types, and what tells records apart.                                    *)
(***************************************************************************)

\* Types that mention the receipts issued only grow.
LEMMA TypesGrow ==
    ASSUME Typed, issued' \in Nat, issued' >= issued
    PROVE  /\ HostDocument \subseteq HostDocument'
           /\ Receipt \subseteq Receipt' /\ UndoRecord \subseteq UndoRecord'
  <1>1. 0..issued \subseteq 0..issued'
    BY DEF Typed
  <1>2. Receipt \subseteq Receipt'
    BY <1>1 DEF Receipt
  <1>3. QED
    BY <1>1, <1>2 DEF HostDocument, UndoRecord

\* Steps that issue no receipt keep the types when they keep them of what they
\* write.
LEMMA TypedKept ==
    ASSUME Typed, UNCHANGED issued, undo' \subseteq undo, reply' \in Receipt,
           host' \in [Documents -> HostDocument \cup {NoHostDocument}],
           revisions' \in [Documents -> Observation]
    PROVE  Typed'
  <1>1. /\ HostDocument \subseteq HostDocument'
        /\ Receipt \subseteq Receipt' /\ UndoRecord \subseteq UndoRecord'
    BY TypesGrow DEF Typed
  <1>2. host' \in [Documents -> HostDocument' \cup {NoHostDocument}]
    BY <1>1
  <1>3. QED
    BY <1>1, <1>2 DEF Typed

\* A record that is not known any more stays so.
LEMMA IssuedKept ==
    ASSUME Issued, undo' \subseteq undo,
           reply'.status = "rolled_back" => RecordsUnder(reply.id)' = {}
    PROVE  Issued'
  BY DEF Issued

\* Looking, and acts behind the adapter's back.
LEMMA QuietKeepsTypes ==
    ASSUME Typed, Issued, Touched \/ \E d \in Documents : Looked(d)
    PROVE  Typed' /\ Issued'
  <1>1. /\ reply' = reply \/ (reply' \in Receipt /\ reply'.status # "rolled_back")
        /\ UNCHANGED <<undo, issued>>
    BY DEF Touched, Looked
  <1>2. Issued'
    BY <1>1 DEF Issued, RecordsUnder
  <1>3. revisions' \in [Documents -> Observation]
    BY ObservedType DEF Touched, Looked, Typed
  <1>4. host' \in [Documents -> HostDocument \cup {NoHostDocument}]
    BY DEF Touched, Looked, Typed
  <1>5. QED
    BY <1>1, <1>2, <1>3, <1>4, TypedKept DEF Typed

\* What a record is.
LEMMA RecordFacts ==
    ASSUME Typed, Issued, NEW record \in undo
    PROVE  /\ record.document_id \in Documents
           /\ record.expected_revision \in Nat /\ record.expected_revision > 0
           /\ record.original_receipt.id \in 1..issued
           /\ record.original_receipt.before \in Versions
           /\ record.original_receipt.before.revision = record.expected_revision - 1
  BY DEF Typed, Issued, UndoRecord, Receipt, Versions

\* Undoing a creation, which closes the document, keeps the types.
LEMMA ClosingKeepsTypes ==
    ASSUME Typed, Issued, NEW record \in undo, ClosedAgain(record)
    PROVE  Typed' /\ Issued'
  <1> DEFINE d == record.document_id
  <1>1. d \in Documents /\ record.original_receipt.id \in 0..issued
    BY RecordFacts DEF Typed
  <1>2. /\ host' = [host EXCEPT ![d] = NoHostDocument]
        /\ revisions' = [revisions EXCEPT ![d] = Unknown]
        /\ undo' = undo \ {record} /\ UNCHANGED issued
        /\ reply' = ReceiptFor(record.original_receipt.id, "rolled_back",
                               Snapshot(d), NoDocument)
    BY DEF ClosedAgain
  <1>3. reply' \in Receipt
    BY <1>1, <1>2, ObservedType
       DEF ReceiptFor, Receipt, Versions, NoDocument, Content
  <1>4. Issued'
    BY <1>2, IssuedKept DEF Issued, RecordsUnder, ReceiptFor
  <1>5. revisions' \in [Documents -> Observation] /\ Unknown \in Observation
    BY <1>1, <1>2 DEF Typed, Unknown, Observation, Content
  <1>6. host' \in [Documents -> HostDocument \cup {NoHostDocument}]
    BY <1>1, <1>2 DEF Typed
  <1>7. QED
    BY <1>2, <1>3, <1>4, <1>5, <1>6, TypedKept

\* What undoing the newest transaction of a record's document makes.
LEMMA UndoneFacts ==
    ASSUME Typed, Issued, NEW record \in undo, Undoable(record),
           host[record.document_id].transactions # <<>>
    PROVE  LET document == host[record.document_id]
           IN  /\ document \in HostDocument
               /\ Undone(document) \in HostDocument
               /\ Newest(document) \in Transaction
               /\ Newest(document).features \in Contents
               /\ Undone(document).features = Newest(document).features
               /\ Undone(document).created_by = document.created_by
               /\ Len(document.transactions) \in Nat /\ Len(document.transactions) > 0
               /\ Len(Undone(document).transactions) = Len(document.transactions) - 1
               /\ \A i \in 1..Len(document.transactions) - 1 :
                      Undone(document).transactions[i] = document.transactions[i]
  <1>1. host[record.document_id] \in HostDocument
    BY ExistsIs, RecordFacts DEF Undoable
  <1>2. host[record.document_id].transactions \in Seq(Transaction)
    BY <1>1 DEF HostDocument
  <1>3. Len(host[record.document_id].transactions) \in Nat
    BY <1>2, LenProperties
  <1>4. QED
    BY <1>1, <1>3, UndoneType DEF Transaction

\* Undoing keeps the types.
LEMMA UndoingKeepsTypes ==
    ASSUME Typed, Issued, NEW record \in undo, RollbackEdit(record) \/ HalfUndone(record)
    PROVE  Typed' /\ Issued'
  <1> DEFINE d == record.document_id
             document == Undone(host[d])
             newest == Newest(host[d])
  <1>1. d \in Documents /\ record.original_receipt.id \in 0..issued
        /\ record.original_receipt.before.revision \in Nat
    BY RecordFacts DEF Typed, Versions
  <1>2. document \in HostDocument /\ newest.features \in Contents
    BY UndoneFacts DEF RollbackEdit, HalfUndone
  <1>3. host' = [host EXCEPT ![d] = document] /\ UNCHANGED issued /\ undo' \subseteq undo
    BY DEF RollbackEdit, HalfUndone
  <1> HIDE DEF document
  <1>4. host' \in [Documents -> HostDocument \cup {NoHostDocument}]
    BY <1>1, <1>2, <1>3 DEF Typed
  <1>5. CASE RollbackEdit(record)
    <2> DEFINE after == Restored(record, newest.features)
    <2>1. after \in Observation
      BY <1>1, <1>2 DEF Restored, Observation, Content
    <2>2. /\ revisions' = [revisions EXCEPT ![d] = after]
          /\ undo' = undo \ {record}
          /\ reply' = ReceiptFor(record.original_receipt.id, "rolled_back", Snapshot(d),
                                 [revision |-> after.revision, features |-> after.fingerprint])
      BY <1>5 DEF RollbackEdit
    <2>3. reply' \in Receipt
      BY <1>1, <2>1, <2>2, ObservedType DEF ReceiptFor, Receipt, Versions, Observation
    <2>4. revisions' \in [Documents -> Observation]
      BY <1>1, <2>1, <2>2 DEF Typed
    <2>5. Issued'
      BY <2>2, IssuedKept DEF Issued, RecordsUnder, ReceiptFor
    <2>6. QED
      BY <1>3, <1>4, <2>3, <2>4, <2>5, TypedKept
  <1>6. CASE HalfUndone(record)
    <2>1. reply' \in Receipt /\ reply'.status # "rolled_back"
      BY <1>6 DEF HalfUndone, RefuseRollback, NoDocument, Versions, Content, ReceiptFor,
         Receipt, Typed
    <2>2. revisions' \in [Documents -> Observation]
      BY <1>1, <1>6, ObservedType DEF HalfUndone, Typed
    <2>3. Issued'
      BY <1>3, <2>1, IssuedKept
    <2>4. QED
      BY <1>3, <1>4, <2>1, <2>2, <2>3, TypedKept
  <1>7. QED
    BY <1>5, <1>6

\* What an applied transaction writes.
NewReceipt(d, base, actions) ==
    ReceiptFor(ReceiptId, "applied", Snapshot(d),
               [revision |-> base + 1, features |-> Result(d, actions).features])

NewRecord(d, base, actions) ==
    [document_id |-> d, expected_revision |-> base + 1, created_document |-> ~Exists(d),
     original_receipt |-> NewReceipt(d, base, actions)]

\* What an applied transaction does, to a document that was there or not.
LEMMA AppliedFacts ==
    ASSUME Typed, NEW d \in Documents, NEW base \in Nat, NEW actions \in ActionLists,
           ExecuteApplied(d, base, actions)
    PROVE  LET features == Result(d, actions).features
               list     == host[d].transactions
           IN  /\ base = Observed(d).revision
               /\ features \in Contents
               /\ host' = [host EXCEPT ![d] = host'[d]]
               /\ host'[d].features = features
               /\ host'[d].created_by \in 0..issued + 1
               /\ host'[d].hidden \in Hidden /\ host'[d].undo_mode \in {0, 1}
               /\ host'[d].transactions \in Seq(Transaction)
               /\ host'[d] = [created_by |-> host'[d].created_by, features |-> features,
                              hidden |-> host'[d].hidden, undo_mode |-> host'[d].undo_mode,
                              transactions |-> host'[d].transactions]
               /\ Exists(d) =>
                      /\ host'[d].created_by = host[d].created_by
                      /\ host'[d].transactions =
                             Append(list, [by |-> issued + 1, features |-> host[d].features,
                                           hidden |-> host[d].hidden])
               /\ ~Exists(d) => host'[d].created_by = issued + 1
  <1> DEFINE features == Result(d, actions).features
             document(mode) == IF Exists(d) THEN host[d]
                               ELSE NewDocument(ReceiptId, Blank, mode)
             after(mode) == Committed(document(mode), ReceiptId, features,
                                      document(mode).hidden)
             Any == [created_by : 0..issued + 1, features : Contents, hidden : Hidden,
                     undo_mode : {0, 1}, transactions : Seq(Transaction)]
  <1>1. base = Observed(d).revision /\ features \in Contents
    BY ResultType DEF ExecuteApplied, Admitted, Valid, Revision
  <1>2. PICK mode \in UndoModes : host' = [host EXCEPT ![d] = after(mode)]
    BY DEF ExecuteApplied, NewReceipt, ReceiptFor
  <1>3. host'[d] = after(mode) /\ host' = [host EXCEPT ![d] = host'[d]]
    BY <1>2 DEF Typed
  <1>4. Exists(d) => host[d] \in HostDocument /\ host[d].undo_mode = 1
    BY ExistsIs DEF ExecuteApplied, Admitted
  <1>5. document(mode) \in Any
    BY <1>4, HostAssumption, EmptySeq DEF HostDocument, NewDocument, ReceiptId, Typed
  <1>6. ReceiptId \in Nat /\ ReceiptId = issued + 1
    BY DEF ReceiptId, Typed
  <1> DEFINE new == [by |-> ReceiptId, features |-> document(mode).features,
                     hidden |-> document(mode).hidden]
             longer == IF document(mode).undo_mode = 0 THEN document(mode).transactions
                       ELSE Append(document(mode).transactions, new)
  <1>7. longer \in Seq(Transaction)
    <2>1. new \in Transaction
      BY <1>5, <1>6 DEF Transaction
    <2>2. QED
      BY <1>5, <2>1, AppendProperties
  <1>8. after(mode) = [document(mode) EXCEPT !.features = features, !.transactions = longer]
    <2>1. after(mode) = [document(mode) EXCEPT !.features = features,
                            !.hidden = document(mode).hidden, !.transactions = longer]
      BY DEF Committed
    <2>2. QED
      BY <1>5, <2>1
  <1>9. /\ after(mode) \in Any /\ after(mode).features = features
        /\ after(mode).created_by = document(mode).created_by
        /\ after(mode).transactions = longer
    <2> HIDE DEF document, longer
    <2>1. QED
      BY <1>1, <1>5, <1>7, <1>8
  <1>10. Exists(d) =>
            /\ after(mode).created_by = host[d].created_by
            /\ after(mode).transactions =
                   Append(host[d].transactions,
                          [by |-> issued + 1, features |-> host[d].features,
                           hidden |-> host[d].hidden])
    <2> SUFFICES ASSUME Exists(d)
                 PROVE  /\ after(mode).created_by = host[d].created_by
                        /\ after(mode).transactions =
                               Append(host[d].transactions,
                                      [by |-> issued + 1, features |-> host[d].features,
                                       hidden |-> host[d].hidden])
      OBVIOUS
    <2>1. document(mode) = host[d] /\ document(mode).undo_mode = 1
      BY <1>4
    <2>2. longer = Append(host[d].transactions, [by |-> issued + 1, features |-> host[d].features,
                                                 hidden |-> host[d].hidden])
      BY <1>6, <2>1
    <2> HIDE DEF document, longer, after
    <2>3. QED
      BY <1>9, <2>1, <2>2
  <1>11. ~Exists(d) => after(mode).created_by = issued + 1
    BY <1>6, <1>9 DEF NewDocument
  <1> HIDE DEF after
  <1>12. QED
    BY <1>1, <1>3, <1>9, <1>10, <1>11

\* An applied execution keeps the types.
LEMMA ApplyingKeepsTypes ==
    ASSUME Typed, Issued, NEW d \in Documents, NEW base \in Nat, NEW actions \in ActionLists,
           ExecuteApplied(d, base, actions)
    PROVE  Typed' /\ Issued'
  <1> DEFINE receipt == NewReceipt(d, base, actions)
             record == NewRecord(d, base, actions)
             features == Result(d, actions).features
  <1>1. /\ undo' = undo \cup {record} /\ reply' = receipt /\ issued' = issued + 1
        /\ revisions' = [revisions EXCEPT ![d] = [fingerprint |-> features,
                                                  revision |-> base + 1]]
    BY DEF ExecuteApplied, NewRecord, NewReceipt, ReceiptFor
  <1>2. issued \in Nat /\ features \in Contents
    BY AppliedFacts DEF Typed
  <1>3. /\ HostDocument \subseteq HostDocument'
        /\ Receipt \subseteq Receipt' /\ UndoRecord \subseteq UndoRecord'
    BY <1>1, <1>2, TypesGrow
  <1>4. Snapshot(d) \in Versions /\ [revision |-> base + 1, features |-> features] \in Versions
    BY <1>2, ObservedType DEF Versions, Content
  <1>5. receipt \in Receipt' /\ receipt.id = issued + 1 /\ receipt.status = "applied"
        /\ receipt.before = Snapshot(d)
    BY <1>1, <1>2, <1>4 DEF NewReceipt, ReceiptFor, ReceiptId, Receipt
  <1>6. record \in UndoRecord'
    BY <1>2, <1>5 DEF NewRecord, UndoRecord
  <1>7. host'[d] \in HostDocument'
    <2>1. /\ host'[d].created_by \in 0..issued' /\ host'[d].hidden \in Hidden
          /\ host'[d].undo_mode \in {0, 1} /\ host'[d].transactions \in Seq(Transaction)
          /\ host'[d] = [created_by |-> host'[d].created_by, features |-> features,
                         hidden |-> host'[d].hidden, undo_mode |-> host'[d].undo_mode,
                         transactions |-> host'[d].transactions]
      BY <1>1, AppliedFacts
    <2>2. QED
      BY <1>2, <2>1 DEF HostDocument
  <1>8. host' \in [Documents -> HostDocument' \cup {NoHostDocument}]
    <2>1. host' = [host EXCEPT ![d] = host'[d]]
      BY AppliedFacts
    <2>2. QED
      BY <1>3, <1>7, <2>1 DEF Typed
  <1>9. revisions' \in [Documents -> Observation]
    BY <1>1, <1>2 DEF Typed, Observation, Content
  <1>10. Typed'
    BY <1>1, <1>2, <1>3, <1>5, <1>6, <1>8, <1>9 DEF Typed
  <1>11. /\ record.original_receipt.id = issued + 1
         /\ record.expected_revision = record.original_receipt.before.revision + 1
         /\ record.created_document => record.expected_revision = 1
    <2>1. Exists(d) => Snapshot(d).revision = base
      BY AppliedFacts DEF Snapshot, Revision
    <2>2. ~Exists(d) => Snapshot(d).revision = 0 /\ base = 0
      BY AppliedFacts DEF Snapshot, NoDocument, Observed, Unknown
    <2>3. /\ record.original_receipt = receipt /\ record.expected_revision = base + 1
          /\ record.created_document => ~Exists(d)
      BY DEF NewRecord
    <2> HIDE DEF record, receipt
    <2>4. QED
      BY <1>5, <2>1, <2>2, <2>3
  <1>12. \A r \in undo : r.original_receipt.id \in 1..issued
    BY RecordFacts
  <1> HIDE DEF record, receipt
  <1>13. Issued'
    BY <1>1, <1>2, <1>5, <1>11, <1>12 DEF Issued
  <1>14. QED
    BY <1>10, <1>13

-----------------------------------------------------------------------------
(***************************************************************************)
(* The records of each document, step by step.                             *)
(***************************************************************************)

\* Records that are in place stay there while their document, the revision of
\* it and its records stay.
LEMMA SamePlace ==
    ASSUME NEW x, Stacked(x),
           host'[x].created_by = host[x].created_by,
           host'[x].transactions = host[x].transactions,
           revisions'[x] = revisions[x], RecordsOf(x)' = RecordsOf(x)
    PROVE  Stacked(x)'
  <1> SUFFICES ASSUME NEW r \in RecordsOf(x)', Live(r)'
               PROVE  InPlace(r)'
    BY DEF Stacked
  <1>1. r \in RecordsOf(x) /\ r.document_id = x
    BY DEF RecordsOf
  <1>2. Height(r)' = Height(r)
    BY <1>1 DEF Height
  <1>3. Live(r)
    BY <1>1 DEF Live
  <1>4. InPlace(r)
    BY <1>1, <1>3 DEF Stacked
  <1>5. OnTheList(r)' <=> OnTheList(r)
    BY <1>1, <1>2 DEF OnTheList
  <1>6. QED
    BY <1>1, <1>2, <1>4, <1>5 DEF InPlace

\* A document nothing happens to keeps its records as they are.
LEMMA Elsewhere ==
    ASSUME NEW x, Kept(x),
           host'[x] = host[x], revisions'[x] = revisions[x], RecordsOf(x)' = RecordsOf(x),
           x \in unseen => x \in unseen', x \in missed => x \in missed'
    PROVE  Kept(x)'
  <1>1. Behind(x) => Behind(x)'
    BY DEF Behind
  <1>2. Forgotten(x) => Forgotten(x)'
    BY DEF Forgotten, Exists
  <1>3. QED
    BY <1>1, <1>2, SamePlace DEF Kept

\* What the user or a macro does keeps what is known of every document.
LEMMA TouchedKeeps ==
    ASSUME HostInv, Touched, NEW x \in Documents
    PROVE  Kept(x)'
  <1>1. Kept(x) /\ RecordsOf(x)' = RecordsOf(x)
    BY DEF HostInv, Touched, RecordsOf
  <1>2. CASE host'[x] = host[x]
    BY <1>1, <1>2, Elsewhere DEF Touched
  <1>3. CASE host'[x] # host[x]
    <2>1. x \in unseen' /\ (x \notin missed' => x \notin missed)
      BY <1>3 DEF Touched
    <2>2. Behind(x) => Behind(x)'
      BY <1>1 DEF Behind, Touched
    <2>3. x \notin missed' => Forgotten(x)'
      BY <1>1, <1>3, <2>1 DEF Touched, Kept, Forgotten, Exists
    <2>4. QED
      BY <1>1, <2>1, <2>2, <2>3 DEF Kept
  <1>4. QED
    BY <1>2, <1>3

\* What an observation that misses nothing finds: no record, what was last seen,
\* or a revision that no record reaches.
LEMMA ObservedCases ==
    ASSUME HostInv, NEW d \in Documents, Notice(d), d \notin missed'
    PROVE  /\ d \notin missed /\ d \notin unseen'
           /\ Behind(d) /\ Forgotten(d) /\ (d \notin unseen => Stacked(d))
           /\ \/ RecordsOf(d) = {} /\ Observed(d).revision = 0
              \/ /\ Exists(d) /\ d \notin unseen /\ Observed(d) = revisions[d]
                 /\ revisions[d].fingerprint = host[d].features
              \/ Exists(d) /\ Observed(d).revision = revisions[d].revision + 1
  <1>1. d \notin missed /\ d \notin unseen'
    BY DEF Notice
  <1>2. Behind(d) /\ Forgotten(d) /\ (d \notin unseen => Stacked(d))
    BY <1>1 DEF HostInv, Kept
  <1>3. CASE revisions[d] = Unknown
    <2>1. \A r \in RecordsOf(d) : r.expected_revision \in Nat /\ r.expected_revision > 0
      BY RecordFacts DEF HostInv, RecordsOf
    <2>2. RecordsOf(d) = {}
      BY <1>2, <1>3, <2>1 DEF Behind, Unknown
    <2>3. Observed(d).revision = 0
      BY <1>3 DEF Observed, Unknown
    <2>4. QED
      BY <1>1, <1>2, <2>2, <2>3
  <1>4. CASE revisions[d] # Unknown
    <2>1. Exists(d)
      BY <1>2, <1>4 DEF Forgotten
    <2>2. CASE revisions[d].fingerprint = host[d].features
      BY <1>1, <1>2, <1>4, <2>1, <2>2 DEF Observed, Notice
    <2>3. CASE revisions[d].fingerprint # host[d].features
      BY <1>1, <1>2, <1>4, <2>1, <2>3 DEF Observed
    <2>4. QED
      BY <2>2, <2>3
  <1>5. QED
    BY <1>3, <1>4

\* A revision that no record has leaves no record live.
LEMMA GapLeavesNoneLive ==
    ASSUME HostInv, NEW d \in Documents, Behind(d),
           revisions'[d].revision = revisions[d].revision + 1,
           RecordsOf(d)' = RecordsOf(d)
    PROVE  Behind(d)' /\ Stacked(d)'
  <1>1. revisions[d].revision \in Nat
    BY DEF HostInv, Typed, Observation
  <1>2. \A r \in RecordsOf(d) : /\ r.expected_revision \in Nat /\ r.document_id = d
                              /\ r.expected_revision <= revisions[d].revision
    BY RecordFacts DEF HostInv, RecordsOf, Behind
  <1>3. Behind(d)'
    BY <1>1, <1>2 DEF Behind
  <1>4. ASSUME NEW r \in RecordsOf(d), Live(r)'
        PROVE  FALSE
    <2> DEFINE k == revisions[d].revision + 1
    <2>1. k \in r.expected_revision..revisions'[d].revision
      BY <1>1, <1>2
    <2>2. \E s \in RecordsOf(d) : s.expected_revision = k
      BY <1>2, <1>4, <2>1 DEF Live
    <2>3. QED
      BY <1>1, <1>2, <2>2
  <1>5. QED
    BY <1>3, <1>4 DEF Stacked

\* An observation keeps what is known of every document.
LEMMA LookedKeeps ==
    ASSUME HostInv, NEW d \in Documents, Looked(d), NEW x \in Documents
    PROVE  Kept(x)'
  <1>1. PICK document \in HostDocument \cup {NoHostDocument} :
           /\ host' = [host EXCEPT ![d] = document]
           /\ Exists(d) <=> document \in HostDocument
           /\ document.created_by = host[d].created_by
           /\ document.transactions = host[d].transactions
    BY DEF Looked
  <1>2. /\ revisions' = [revisions EXCEPT ![d] = Observed(d)]
        /\ Notice(d) /\ UNCHANGED <<undo, issued>>
    BY DEF Looked
  <1>3. Kept(x) /\ RecordsOf(x)' = RecordsOf(x)
    BY <1>2 DEF HostInv, RecordsOf
  <1>4. CASE x # d
    <2>1. /\ host'[x] = host[x] /\ revisions'[x] = revisions[x]
          /\ x \in unseen => x \in unseen'
          /\ x \in missed => x \in missed'
      BY <1>1, <1>2, <1>4 DEF HostInv, Typed, Notice
    <2>2. QED
      BY <1>3, <2>1, Elsewhere
  <1>5. CASE x = d /\ d \notin missed'
    <2>1. host'[d] = document /\ revisions'[d] = Observed(d)
      BY <1>1, <1>2 DEF HostInv, Typed
    <2>2. Exists(d)' <=> Exists(d)
      BY <1>1, <2>1, HostAssumption DEF Exists, HostDocument, NoHostDocument
    <2>3. Forgotten(d)'
      BY <2>1, <2>2 DEF Forgotten, Observed
    <2>4. Behind(d)' /\ Stacked(d)'
      <3>1. CASE RecordsOf(d) = {}
        BY <1>3, <1>5, <3>1 DEF Behind, Stacked
      <3>2. CASE /\ d \notin unseen /\ Observed(d) = revisions[d]
        BY <1>1, <1>2, <1>3, <1>5, <2>1, <3>2, ObservedCases, SamePlace DEF Behind
      <3>3. CASE Observed(d).revision = revisions[d].revision + 1
        BY <1>2, <1>3, <1>5, <2>1, <3>3, ObservedCases, GapLeavesNoneLive
      <3>4. QED
        BY <1>2, <1>5, <3>1, <3>2, <3>3, ObservedCases
    <2>5. QED
      BY <1>5, <2>3, <2>4 DEF Kept
  <1>6. QED
    BY <1>4, <1>5 DEF Kept

\* A record that may be rolled back, of a document where nothing was missed, is
\* the newest of it, and what it left is there.
LEMMA UndoableIsNewest ==
    ASSUME HostInv, NEW record \in undo, Undoable(record), record.document_id \notin missed
    PROVE  LET d == record.document_id
           IN  /\ Exists(d) /\ Observed(d) = revisions[d]
               /\ revisions[d].fingerprint = host[d].features
               /\ revisions[d] # Unknown
               /\ revisions[d].revision = record.expected_revision
               /\ Height(record) = 0 /\ Live(record)
               /\ Behind(d) /\ (d \notin unseen => Stacked(d) /\ InPlace(record))
  <1> DEFINE d == record.document_id
  <1>1. /\ d \in Documents /\ record \in RecordsOf(d)
        /\ record.expected_revision \in Nat /\ record.expected_revision > 0
    BY RecordFacts DEF HostInv, RecordsOf
  <1>2. /\ Exists(d) /\ Observed(d).revision = record.expected_revision
    BY DEF Undoable, Revision
  <1>3. Behind(d) /\ (d \notin unseen => Stacked(d))
    BY <1>1 DEF HostInv, Kept
  <1>4. /\ revisions[d].revision \in Nat
        /\ record.expected_revision <= revisions[d].revision
    BY <1>1, <1>3 DEF Behind, HostInv, Typed, Observation
  <1>5. /\ revisions[d] # Unknown /\ Observed(d) = revisions[d]
        /\ revisions[d].fingerprint = host[d].features
    BY <1>1, <1>2, <1>4 DEF Observed, Unknown
  <1>6. revisions[d].revision = record.expected_revision /\ Height(record) = 0
    BY <1>1, <1>2, <1>5 DEF Height
  <1>7. Live(record)
    <2>1. \A k \in record.expected_revision..revisions[d].revision :
              k = record.expected_revision
      BY <1>1, <1>6
    <2>2. QED
      BY <1>1, <2>1 DEF Live
  <1>8. QED
    BY <1>1, <1>2, <1>3, <1>5, <1>6, <1>7 DEF Stacked

\* What happens to one document leaves the others as they are.
LEMMA OthersAreElsewhere ==
    ASSUME HostInv, NEW d \in Documents, NEW x \in Documents, x # d,
           host' = [host EXCEPT ![d] = host'[d]],
           revisions' = [revisions EXCEPT ![d] = revisions'[d]],
           \A r : r.document_id # d => (r \in undo' <=> r \in undo),
           unseen \subseteq unseen' \cup {d}, missed \subseteq missed'
    PROVE  Kept(x)'
  <1>1. host'[x] = host[x] /\ revisions'[x] = revisions[x]
    BY DEF HostInv, Typed
  <1>2. RecordsOf(x)' = RecordsOf(x)
    BY DEF RecordsOf
  <1>3. QED
    BY <1>1, <1>2, Elsewhere DEF HostInv

\* Undoing a creation keeps what is known of every document.
LEMMA ClosingKeeps ==
    ASSUME HostInv, NEW record \in undo, ClosedAgain(record), NEW x \in Documents
    PROVE  Kept(x)'
  <1> DEFINE d == record.document_id
  <1>1. /\ d \in Documents /\ record \in RecordsOf(d)
        /\ record.expected_revision = 1
        /\ \A r \in RecordsOf(d) : r.expected_revision \in Nat /\ r.expected_revision > 0
    BY RecordFacts DEF HostInv, RecordsOf, ClosedAgain, Issued
  <1>2. /\ host' = [host EXCEPT ![d] = NoHostDocument]
        /\ revisions' = [revisions EXCEPT ![d] = Unknown]
        /\ undo' = undo \ {record}
        /\ Notice(d) /\ Undoable(record)
    BY DEF ClosedAgain
  <1>3. host'[d] = NoHostDocument /\ revisions'[d] = Unknown
    BY <1>1, <1>2 DEF HostInv, Typed
  <1>4. CASE x # d
    BY <1>1, <1>2, <1>3, <1>4, OthersAreElsewhere DEF Notice
  <1>5. CASE x = d /\ d \notin missed'
    <2>1. d \notin missed
      BY <1>2, <1>5 DEF Notice
    <2>2. \A r \in RecordsOf(d) : r.expected_revision <= 1 =>
                                     r.expected_revision = record.expected_revision
      BY <1>1
    <2>3. RecordsOf(d) = {record}
      BY <1>1, <1>2, <2>1, <2>2, UndoableIsNewest DEF Behind
    <2>4. RecordsOf(d)' = {}
      BY <1>2, <2>3 DEF RecordsOf
    <2>5. QED
      BY <1>3, <1>5, <2>4 DEF Kept, Behind, Forgotten, Stacked
  <1>6. QED
    BY <1>4, <1>5 DEF Kept

\* An undo whose recompute raises keeps what is known of the document.
LEMMA HalfUndoingKeeps ==
    ASSUME HostInv, NEW record \in undo, HalfUndone(record), NEW x \in Documents
    PROVE  Kept(x)'
  <1> DEFINE d == record.document_id
  <1>1. /\ d \in Documents /\ Undone(host[d]) \in HostDocument
    BY RecordFacts, UndoneFacts DEF HostInv, HalfUndone
  <1>2. /\ host' = [host EXCEPT ![d] = Undone(host[d])]
        /\ revisions' = [revisions EXCEPT ![d] = Observed(d)]
        /\ undo' = undo /\ Undoable(record)
        /\ unseen' = unseen \cup {d} /\ missed \subseteq missed'
    BY DEF HalfUndone
  <1>3. host'[d] = Undone(host[d]) /\ revisions'[d] = Observed(d)
    BY <1>1, <1>2 DEF HostInv, Typed
  <1>4. CASE x # d
    BY <1>1, <1>2, <1>3, <1>4, OthersAreElsewhere
  <1>5. CASE x = d /\ d \notin missed'
    <2>1. Behind(d) /\ revisions'[d] = revisions[d]
      BY <1>2, <1>3, <1>5, UndoableIsNewest
    <2>2. Behind(d)'
      BY <1>2, <2>1 DEF Behind, RecordsOf
    <2>3. Forgotten(d)'
      BY <1>1, <1>3, HostAssumption DEF Forgotten, Exists, HostDocument, NoHostDocument
    <2>4. QED
      BY <1>2, <1>5, <2>2, <2>3 DEF Kept
  <1>6. QED
    BY <1>4, <1>5 DEF Kept

\* Undoing the newest transaction of a document brings every record below it
\* one place nearer to the end of the host's list.
LEMMA UndoingKeeps ==
    ASSUME HostInv, NEW record \in undo, RollbackEdit(record), NEW x \in Documents
    PROVE  Kept(x)'
  <1> DEFINE d == record.document_id
             n == revisions[d].revision
             list == host[d].transactions
             newest == Newest(host[d])
  <1>1. /\ d \in Documents /\ record \in RecordsOf(d)
        /\ record.expected_revision \in Nat /\ record.expected_revision > 0
        /\ record.original_receipt.before.revision = record.expected_revision - 1
    BY RecordFacts DEF HostInv, RecordsOf
  <1>2. /\ Undoable(record) /\ list # <<>> /\ ~record.created_document
        /\ host' = [host EXCEPT ![d] = Undone(host[d])]
        /\ revisions' = [revisions EXCEPT ![d] = Restored(record, newest.features)]
        /\ undo' = undo \ {record}
        /\ Notice(d)
    BY DEF RollbackEdit
  <1>3. host'[d] = Undone(host[d]) /\ revisions'[d] = Restored(record, newest.features)
    BY <1>1, <1>2 DEF HostInv, Typed
  <1>4. CASE x # d
    BY <1>1, <1>2, <1>3, <1>4, OthersAreElsewhere DEF Notice
  <1>5. CASE x = d /\ d \notin missed'
    <2>1. /\ d \notin missed /\ d \notin unseen
      BY <1>2, <1>5, UndoableIsNewest DEF Notice
    <2>2. /\ n = record.expected_revision /\ n \in Nat
          /\ Height(record) = 0 /\ InPlace(record) /\ Behind(d) /\ Stacked(d)
      BY <1>1, <1>2, <2>1, UndoableIsNewest
    <2>3. revisions'[d].revision = n - 1 /\ revisions'[d].fingerprint = newest.features
      BY <1>1, <1>3, <2>2 DEF Restored
    <2>4. /\ Undone(host[d]) \in HostDocument
          /\ Undone(host[d]).created_by = host[d].created_by
          /\ Len(list) \in Nat /\ Len(list) > 0
          /\ Len(Undone(host[d]).transactions) = Len(list) - 1
          /\ \A i \in 1..Len(list) - 1 : Undone(host[d]).transactions[i] = list[i]
      BY <1>2, UndoneFacts DEF HostInv
    <2>5. newest.features = record.original_receipt.before.features
      BY <1>2, <2>2, <2>4 DEF InPlace, OnTheList, Newest
    <2>6. RecordsOf(d)' = RecordsOf(d) \ {record}
      BY <1>2 DEF RecordsOf
    <2>7. \A r \in RecordsOf(d) : /\ r.expected_revision \in Nat /\ r.document_id = d
                                /\ r.expected_revision <= n
      BY <2>2, RecordFacts DEF HostInv, RecordsOf, Behind
    <2>8. Behind(d)'
      <3>1. \A r \in RecordsOf(d) \ {record} : r.expected_revision # record.expected_revision
        BY <1>1, <2>2 DEF Behind
      <3>2. QED
        BY <2>2, <2>3, <2>6, <2>7, <3>1 DEF Behind
    <2>9. Forgotten(d)'
      BY <1>3, <2>4, HostAssumption DEF Forgotten, Exists, HostDocument, NoHostDocument
    <2>10. ASSUME NEW r \in RecordsOf(d)', Live(r)'
           PROVE  InPlace(r)'
      <3>1. /\ r \in RecordsOf(d) /\ r # record /\ r.document_id = d
            /\ r.expected_revision \in Nat /\ r.expected_revision <= n - 1
        BY <2>3, <2>6, <2>7, <2>8, <2>10 DEF Behind
      <3>2. Live(r)
        <4>1. ASSUME NEW k \in r.expected_revision..n
              PROVE  \E s \in RecordsOf(d) : s.expected_revision = k
          <5>1. CASE k = n
            BY <1>1, <2>2, <5>1
          <5>2. CASE k # n
            BY <2>2, <2>3, <2>6, <2>10, <3>1, <5>2 DEF Live
          <5>3. QED
            BY <5>1, <5>2
        <4>2. QED
          BY <3>1, <4>1 DEF Live
      <3>3. InPlace(r)
        BY <2>2, <3>1, <3>2 DEF Stacked
      <3>4. /\ Height(r) = n - r.expected_revision
            /\ Height(r)' = n - 1 - r.expected_revision
        BY <2>3, <3>1 DEF Height
      <3>5. Height(r)' = 0 =>
                revisions'[d].fingerprint = r.original_receipt.after.features
        BY <1>1, <2>2, <2>3, <2>5, <3>1, <3>3, <3>4 DEF InPlace
      <3>6. OnTheList(r) => OnTheList(r)'
        <4> DEFINE own == Len(list) - Height(r)
        <4>1. Len(list) \in Nat /\ n \in Nat /\ r.expected_revision \in Nat
          BY <2>2, <2>4, <3>1
        <4>2. Height(r) \in Int /\ Height(r) > 0 /\ Height(r)' = Height(r) - 1
          BY <3>1, <3>4, <4>1
        <4>3. Len(list) - 1 - Height(r)' = own
          BY <4>1, <4>2
        <4> SUFFICES ASSUME OnTheList(r) PROVE OnTheList(r)'
          OBVIOUS
        <4>4. Height(r) < Len(list)
          BY <3>1 DEF OnTheList
        <4>5. own \in 1..Len(list) - 1
          <5>1. \A l \in Nat, h \in Int : h > 0 /\ h < l => l - h \in 1..l - 1
            OBVIOUS
          <5>2. QED
            BY <4>1, <4>2, <4>4, <5>1
        <4>6. host'[r.document_id].transactions = Undone(host[d]).transactions
          BY <1>3, <3>1
        <4>7. Undone(host[d]).transactions[own] = list[own]
          BY <2>4, <4>5
        <4>8. Height(r)' < Len(Undone(host[d]).transactions)
          BY <2>4, <4>1, <4>2, <4>4
        <4>9. QED
          BY <2>4, <3>1, <4>3, <4>6, <4>7, <4>8 DEF OnTheList
      <3>7. host'[r.document_id].created_by = host[r.document_id].created_by
        BY <1>3, <2>4, <3>1
      <3>8. \A s \in RecordsOf(r.document_id)' : s \in RecordsOf(r.document_id)
        BY <2>6, <3>1
      <3>9. Height(r)' = 0 => revisions'[r.document_id].fingerprint =
                                  r.original_receipt.after.features
        BY <3>1, <3>5
      <3>10. QED
        BY <3>3, <3>6, <3>7, <3>8, <3>9 DEF InPlace
    <2>11. QED
      BY <1>5, <2>8, <2>9, <2>10 DEF Kept, Stacked
  <1>6. QED
    BY <1>4, <1>5 DEF Kept

\* An applied transaction is the newest of its document; the records below it
\* that stay live were in place for what it found.
LEMMA ApplyingKeeps ==
    ASSUME HostInv, NEW d \in Documents, NEW base \in Nat, NEW actions \in ActionLists,
           ExecuteApplied(d, base, actions), NEW x \in Documents
    PROVE  Kept(x)'
  <1>0. PICK new : new = NewRecord(d, base, actions)
    OBVIOUS
  <1> DEFINE features == Result(d, actions).features
             n == revisions[d].revision
             list == host[d].transactions
             longer == host'[d].transactions
             own == [by |-> issued + 1, features |-> host[d].features,
                     hidden |-> host[d].hidden]
  <1>1. /\ undo' = undo \cup {new} /\ issued' = issued + 1
        /\ revisions' = [revisions EXCEPT ![d] = [fingerprint |-> features,
                                                  revision |-> base + 1]]
        /\ Notice(d)
    BY <1>0 DEF ExecuteApplied, NewRecord, NewReceipt, ReceiptFor
  <1>2. /\ host' = [host EXCEPT ![d] = host'[d]]
        /\ base = Observed(d).revision /\ features \in Contents
        /\ host'[d].features = features
        /\ Exists(d) => /\ host'[d].created_by = host[d].created_by
                        /\ longer = Append(list, own)
        /\ ~Exists(d) => host'[d].created_by = issued + 1
    <2>1. Typed
      BY DEF HostInv
    <2>2. QED
      BY <2>1, AppliedFacts
  <1>3. /\ new.document_id = d /\ new.expected_revision = base + 1
        /\ new.created_document <=> ~Exists(d)
        /\ new.original_receipt.id = issued + 1
        /\ new.original_receipt.before = Snapshot(d)
        /\ new.original_receipt.after.features = features
    BY <1>0 DEF NewRecord, NewReceipt, ReceiptFor, ReceiptId
  <1> HIDE DEF features
  <1>4. /\ revisions'[d].fingerprint = features /\ revisions'[d].revision = base + 1
        /\ revisions' = [revisions EXCEPT ![d] = revisions'[d]]
    BY <1>1 DEF HostInv, Typed
  <1>5. CASE x # d
    BY <1>1, <1>2, <1>3, <1>4, <1>5, OthersAreElsewhere DEF Notice
  <1>6. CASE x = d /\ d \notin missed'
    <2>1. /\ d \notin missed /\ Behind(d) /\ Forgotten(d)
          /\ (d \notin unseen => Stacked(d))
      BY <1>1, <1>6, ObservedCases
    <2>2. n \in Nat /\ RecordsOf(d)' = RecordsOf(d) \cup {new}
      BY <1>1, <1>3 DEF RecordsOf, HostInv, Typed, Observation
    <2>3. \A r \in RecordsOf(d) : /\ r.expected_revision \in Nat /\ r.document_id = d
                                /\ r.expected_revision <= n
      BY <2>1, RecordFacts DEF HostInv, RecordsOf, Behind
    <2>4. \A r \in RecordsOf(d) : r.expected_revision <= base
      BY <1>1, <1>2, <1>6, <2>2, <2>3, ObservedCases
    <2>5. Behind(d)'
      BY <1>3, <1>4, <2>1, <2>2, <2>3, <2>4 DEF Behind
    <2>6. Forgotten(d)'
      BY <1>2, HostAssumption DEF Forgotten, Exists, NoHostDocument
    <2>7. Height(new)' = 0
      BY <1>3, <1>4 DEF Height
    <2>8. InPlace(new)'
      <3>1. \A s \in RecordsOf(d)' : s.expected_revision # new.expected_revision + 1
        BY <1>3, <2>2, <2>3, <2>4
      <3>2. ~Exists(d) => host'[d].created_by = new.original_receipt.id
        BY <1>2, <1>3
      <3>3. Exists(d) => OnTheList(new)'
        <4> SUFFICES ASSUME Exists(d) PROVE OnTheList(new)'
          OBVIOUS
        <4>1. list \in Seq(Transaction)
          BY ExistsIs DEF HostInv, HostDocument
        <4>2. /\ Len(longer) \in Nat /\ Len(longer) > 0
              /\ longer[Len(longer)] = own
          BY <1>2, <4>1, LenProperties
        <4>3. new.original_receipt.before.features = host[d].features
          BY <1>3 DEF Snapshot
        <4>4. QED
          BY <1>3, <2>7, <4>2, <4>3 DEF OnTheList
      <3>4. QED
        BY <1>3, <1>4, <3>1, <3>2, <3>3 DEF InPlace
    <2>9. ASSUME NEW r \in RecordsOf(d), Live(r)'
          PROVE  InPlace(r)'
      <3>1. /\ d \notin unseen /\ Exists(d) /\ base = n
            /\ revisions[d].fingerprint = host[d].features
        <4>1. CASE base = n + 1
          <5>1. base \in r.expected_revision..base + 1
            BY <2>3, <2>4
          <5>2. \E s \in RecordsOf(d)' : s.expected_revision = base
            BY <1>4, <2>3, <2>9, <5>1 DEF Live
          <5>3. QED
            BY <1>3, <2>2, <2>3, <4>1, <5>2
        <4>2. QED
          BY <1>1, <1>2, <1>6, <4>1, ObservedCases
      <3>2. /\ r.document_id = d /\ r.expected_revision \in Nat
            /\ r.expected_revision <= n
        BY <2>3
      <3>3. InPlace(r)
        <4>1. ASSUME NEW k \in r.expected_revision..n
              PROVE  \E s \in RecordsOf(d) : s.expected_revision = k
          <5>1. k \in r.expected_revision..base + 1 /\ k # base + 1
            BY <2>2, <3>1, <3>2
          <5>2. QED
            BY <1>3, <1>4, <2>2, <2>9, <3>2, <5>1 DEF Live
        <4>2. Live(r)
          BY <3>2, <4>1 DEF Live
        <4>3. QED
          BY <2>1, <3>1, <4>2 DEF Stacked
      <3>4. Height(r) = n - r.expected_revision /\ Height(r)' = Height(r) + 1
            /\ Height(r) \in Nat
        BY <1>4, <2>2, <3>1, <3>2 DEF Height
      <3>5. r.expected_revision = n =>
                new.original_receipt.before.features = r.original_receipt.after.features
        BY <1>3, <3>1, <3>2, <3>3, <3>4 DEF InPlace, Snapshot
      <3>6. \A s \in RecordsOf(r.document_id)' :
                s.expected_revision = r.expected_revision + 1 =>
                    s.original_receipt.before.features = r.original_receipt.after.features
        BY <1>3, <2>2, <3>1, <3>2, <3>3, <3>5 DEF InPlace
      <3>7. OnTheList(r) => OnTheList(r)'
        <4> SUFFICES ASSUME OnTheList(r) PROVE OnTheList(r)'
          OBVIOUS
        <4>1. list \in Seq(Transaction) /\ Len(list) \in Nat
          BY <3>1, ExistsIs, LenProperties DEF HostInv, HostDocument
        <4>2. Height(r) < Len(list)
          BY <3>2 DEF OnTheList
        <4>3. Len(list) - Height(r) \in 1..Len(list)
          <5>1. \A l, h \in Nat : h < l => l - h \in 1..l
            OBVIOUS
          <5>2. QED
            BY <3>4, <4>1, <4>2, <5>1
        <4>4. /\ Len(longer) = Len(list) + 1
              /\ longer[Len(list) - Height(r)] = list[Len(list) - Height(r)]
          BY <1>2, <3>1, <4>1, <4>3
        <4>5. Len(longer) - Height(r)' = Len(list) - Height(r)
              /\ Height(r)' < Len(longer)
          <5>1. \A l, h \in Nat : h < l => l + 1 - (h + 1) = l - h /\ h + 1 < l + 1
            OBVIOUS
          <5>2. QED
            BY <3>4, <4>1, <4>2, <4>4, <5>1
        <4>6. QED
          BY <3>2, <4>4, <4>5 DEF OnTheList
      <3>8. Height(r)' # 0
        BY <3>4
      <3>9. host'[r.document_id].created_by = host[r.document_id].created_by
        BY <1>2, <3>1, <3>2
      <3>10. QED
        BY <3>3, <3>6, <3>7, <3>8, <3>9 DEF InPlace
    <2>10. QED
      BY <1>6, <2>2, <2>5, <2>6, <2>8, <2>9 DEF Kept, Stacked
  <1>7. QED
    BY <1>5, <1>6 DEF Kept

\* The invariant is inductive.
LEMMA HostInvStep == HostInv /\ [MacroNext]_macroVars => HostInv'
  <1> SUFFICES ASSUME HostInv, [MacroNext]_macroVars
               PROVE  HostInv'
    OBVIOUS
  <1>1. Typed /\ Issued
    BY DEF HostInv
  <1>2. CASE Touched \/ \E d \in Documents : Looked(d)
    BY <1>1, <1>2, QuietKeepsTypes, TouchedKeeps, LookedKeeps DEF HostInv
  <1>3. CASE \E record \in undo : ClosedAgain(record) \/ HalfUndone(record)
                                 \/ RollbackEdit(record)
    BY <1>1, <1>3, ClosingKeepsTypes, UndoingKeepsTypes, ClosingKeeps, HalfUndoingKeeps,
       UndoingKeeps DEF HostInv
  <1>4. CASE \E d \in Documents, base \in Nat, actions \in ActionLists :
                 ExecuteApplied(d, base, actions)
    BY <1>1, <1>4, ApplyingKeepsTypes, ApplyingKeeps DEF HostInv
  <1>5. QED
    BY <1>1, <1>2, <1>3, <1>4, StepKinds

\* The invariant holds of a fresh host.
LEMMA HostInvInit == MacroInit => HostInv
  <1> SUFFICES ASSUME Init
               PROVE  HostInv
    BY DEF MacroInit
  <1>1. Typed
    BY DEF Init, Typed, Unknown, Observation, Content, ReceiptFor, Receipt, NoDocument, Versions
  <1>2. QED
    BY <1>1 DEF Init, HostInv, Issued, Kept, Behind, Forgotten, Stacked, RecordsOf, Exists,
       ReceiptFor

\* The invariant holds in every state that is reached.
THEOREM HostInvariantHolds == MacroSpec => []HostInv
  BY HostInvInit, HostInvStep, PTL DEF MacroSpec

-----------------------------------------------------------------------------
(***************************************************************************)
(* What follows for the adapter's users.                                   *)
(***************************************************************************)

\* Types and the identity of receipts, whatever the user, the macros and the
\* adapter do to the documents of the host.
THEOREM HostTypeCorrect == MacroSpec => []TypeOK
  <1>1. HostInv => TypeOK
    <2> SUFFICES ASSUME HostInv
                 PROVE  TypeOK
      OBVIOUS
    <2>1. ASSUME NEW d \in Documents
          PROVE  /\ host[d].features \in Content /\ host[d].created_by \in 0..issued
                 /\ revisions[d].fingerprint \in Content /\ revisions[d].revision \in Nat
      <3>1. host[d] \in HostDocument \/ host[d] = NoHostDocument
        BY DEF HostInv, Typed
      <3>2. /\ host[d].features \in Contents \/ host[d].features = Absent
            /\ host[d].created_by \in 0..issued
        BY <3>1 DEF HostInv, Typed, HostDocument, NoHostDocument
      <3>3. QED
        BY <3>2 DEF HostInv, Typed, Observation, Content
    <2>2. \A record \in undo : record.original_receipt \in Receipt
      BY DEF HostInv, Typed, UndoRecord
    <2>3. QED
      BY <2>1, <2>2 DEF HostInv, Typed, Issued, TypeOK
  <1>2. QED
    BY <1>1, HostInvariantHolds, PTL

\* A rollback that is accepted takes back its own transaction and nothing else,
\* as long as every change of the user was one the adapter could notice.
THEOREM NoticedWorkStaysSafe == MacroSpec => NoticedWorkIsSafe
  <1>1. ASSUME HostInv, [MacroNext]_macroVars, NEW record \in undo \ undo',
               record.document_id \notin missed'
        PROVE  UndoesItsOwn(record)
    <2> DEFINE d == record.document_id
    <2>1. d \in Documents /\ Typed /\ Issued
      BY <1>1, RecordFacts DEF HostInv
    <2>2. ClosedAgain(record) \/ RollbackEdit(record)
      <3>1. undo' # undo /\ record \notin undo'
        BY <1>1
      <3>2. ~Touched /\ (\A x \in Documents : ~Looked(x))
            /\ (\A r \in undo : ~HalfUndone(r))
        BY <3>1 DEF Touched, Looked, HalfUndone
      <3>3. \A x \in Documents, base \in Nat, actions \in ActionLists :
                ~ExecuteApplied(x, base, actions)
        BY <1>1, <3>1 DEF ExecuteApplied
      <3>4. PICK r \in undo : ClosedAgain(r) \/ RollbackEdit(r)
        BY <1>1, <2>1, <3>2, <3>3, StepKinds
      <3>5. r = record
        BY <1>1, <3>4 DEF ClosedAgain, RollbackEdit
      <3>6. QED
        BY <3>4, <3>5
    <2>3. Undoable(record) /\ Notice(d) /\ d \notin missed
      BY <1>1, <2>2 DEF ClosedAgain, RollbackEdit, Notice
    <2>4. d \notin unseen
      BY <1>1, <2>3, UndoableIsNewest DEF Notice
    <2>5. /\ InPlace(record) /\ Height(record) = 0
          /\ revisions[d].fingerprint = host[d].features
      BY <1>1, <2>3, <2>4, UndoableIsNewest
    <2>6. host[d].features = record.original_receipt.after.features
      BY <2>5 DEF InPlace
    <2>7. CASE ClosedAgain(record)
      <3>1. host'[d] = NoHostDocument /\ record.created_document
        BY <2>1, <2>7 DEF ClosedAgain, Typed
      <3>2. host[d].created_by = record.original_receipt.id
        BY <2>5, <3>1 DEF InPlace
      <3>3. QED
        BY <2>6, <3>1, <3>2 DEF UndoesItsOwn
    <2>8. CASE RollbackEdit(record)
      <3>1. /\ ~record.created_document /\ host[d].transactions # <<>>
            /\ host'[d] = Undone(host[d])
        BY <2>1, <2>8 DEF RollbackEdit, Typed
      <3>2. /\ Undone(host[d]).features = Newest(host[d]).features
            /\ Len(host[d].transactions) \in Nat
        BY <2>1, <2>3, <3>1, UndoneFacts
      <3>3. /\ Newest(host[d]).by = record.original_receipt.id
            /\ Newest(host[d]).features = record.original_receipt.before.features
        BY <2>5, <3>1, <3>2 DEF InPlace, OnTheList, Newest
      <3>4. QED
        BY <2>6, <3>1, <3>2, <3>3 DEF UndoesItsOwn
    <2>9. QED
      BY <2>2, <2>7, <2>8
  <1>2. HostInv /\ [MacroNext]_macroVars =>
            [\A record \in undo \ undo' :
                 record.document_id \notin missed' => UndoesItsOwn(record)]_vars
    BY <1>1
  <1>3. QED
    BY <1>2, HostInvariantHolds, PTL DEF MacroSpec, NoticedWorkIsSafe

\* The user's acts are counted.
LEMMA ActsAreCounted == acts \in Nat /\ [MacroNext]_macroVars => (acts \in Nat)'
  <1> SUFFICES ASSUME acts \in Nat, [MacroNext]_macroVars
               PROVE  (acts \in Nat)'
    OBVIOUS
  <1>1. acts' = acts \/ acts' = acts + 1
    <2>1. CASE UNCHANGED macroVars
      BY <2>1 DEF macroVars, vars
    <2>2. ASSUME NEW d \in Documents, DocumentStep(d)
          PROVE  acts' = acts \/ acts' = acts + 1
      BY <2>2 DEF DocumentStep, Observe, Execute, ExecuteRefused, ExecuteFails, ExecuteDryRun,
         ExecuteApplied, Refuse, UserEdits, UserUndoes, UserOpens, UserCloses, Act
    <2>3. ASSUME NEW id, Rollback(id)
          PROVE  acts' = acts
      BY <2>3 DEF Rollback, RollbackUnknown, RollbackConflict, RollbackCreation, RollbackEdit,
         RollbackEditFails
    <2>4. MacroStep => acts' = acts + 1
      BY DEF MacroStep, ExecuteMacro
    <2>5. QED
      BY <2>1, <2>2, <2>3, <2>4, MacroAssumption DEF MacroNext, UserOpens, Act
  <1>2. QED
    BY <1>1

\* What a failed macro leaves behind, in each of the two respects.
NothingMade == \A d \in Documents : ~Exists(d) => ~Exists(d)'

NothingChanged ==
    \A d \in Survivors :
        /\ host'[d].features = host[d].features
        /\ host'[d].transactions = host[d].transactions

\* A failed macro makes no document unless the host refused to close it, and if
\* it kept to its transaction, it leaves the active document and its undo list
\* as they were unless the host refused to abort.
THEOREM FailedMacrosLeaveNothing == MacroSpec => FailedMacrosAreTakenBack
  <1>1. ASSUME HostInv, [MacroNext]_macroVars, macroVars' # macroVars,
               macro'.status = "failed"
        PROVE  /\ "close" \notin macro'.refused => NothingMade
               /\ (macro'.conduct = "keeps" /\ "abort" \notin macro'.refused) => NothingChanged
    <2>1. MacroStep
      BY <1>1 DEF MacroNext, NoMacro
    <2>2. PICK active \in {d \in Documents : Exists(d)} \cup {Nobody}, features \in Made,
               conduct \in Conducts, ending \in Endings, refused \in SUBSET {"abort", "close"},
               other \in Documents \cup {Nobody}, theirs \in Made :
                  /\ other # active
                  /\ ExecuteMacro(active, features, other, theirs, conduct, ending, refused)
      BY <2>1 DEF MacroStep
    <2> DEFINE failed == ending = "exception" \/ (ending = "normal" /\ conduct = "closes")
    <2>3. /\ macro'.document = active /\ macro'.conduct = conduct /\ macro'.refused = refused
          /\ failed
          /\ host' = [d \in Documents |->
                         IF d = active THEN
                             Ended(host[d], conduct, features, failed /\ "abort" \notin refused)
                         ELSE IF d # other THEN host[d]
                         ELSE IF failed /\ ~Exists(d) /\ "close" \notin refused
                         THEN NoHostDocument ELSE MacroRun(d, theirs)]
      <3>1. macro'.status = IF ending = "exit" THEN "raised"
                            ELSE IF failed THEN "failed" ELSE "applied"
        BY <2>2 DEF ExecuteMacro
      <3>2. failed
        BY <1>1, <3>1
      <3>3. QED
        BY <2>2, <3>2 DEF ExecuteMacro
    <2> HIDE DEF failed
    <2>4. ASSUME "close" \notin refused
          PROVE  NothingMade
      <3>1. ASSUME NEW d \in Documents, ~Exists(d)
            PROVE  host'[d] = NoHostDocument
        <4>1. d # active
          BY <2>2, <3>1, MacroAssumption
        <4>2. CASE d = other
          BY <2>3, <2>4, <3>1, <4>1, <4>2
        <4>3. CASE d # other
          BY <2>3, <3>1, <4>1, <4>3 DEF Exists
        <4>4. QED
          BY <4>2, <4>3
      <3>2. QED
        BY <3>1 DEF NothingMade, Exists
    <2>5. ASSUME conduct = "keeps", "abort" \notin refused
          PROVE  NothingChanged
      <3>1. ASSUME NEW d \in Survivors
            PROVE  /\ host'[d].features = host[d].features
                   /\ host'[d].transactions = host[d].transactions
        <4>1. d \in Documents /\ d = active
          BY <2>3 DEF Survivors
        <4>2. host'[d] = Aborted(Opened(host[d]), features)
          BY <2>3, <2>5, <4>1 DEF Ended
        <4>3. host[d] \in HostDocument /\ features \in Contents
          BY <1>1, <2>2, <4>1, MacroAssumption, ExistsIs DEF HostInv
        <4>4. QED
          BY <4>2, <4>3, OpenedType, AbortedType
      <3>2. QED
        BY <3>1 DEF NothingChanged
    <2>6. QED
      BY <2>3, <2>4, <2>5
  <1>2. HostInv /\ [MacroNext]_macroVars =>
            [macro'.status = "failed" =>
               /\ "close" \notin macro'.refused => \A d \in Documents : ~Exists(d) => ~Exists(d)'
               /\ macro'.conduct = "keeps" /\ "abort" \notin macro'.refused =>
                    \A d \in Survivors :
                        /\ host'[d].features = host[d].features
                        /\ host'[d].transactions = host[d].transactions]_macroVars
    BY <1>1 DEF NothingMade, NothingChanged
  <1>3. QED
    BY <1>2, HostInvariantHolds, PTL DEF MacroSpec, FailedMacrosAreTakenBack

\* What the receipt of a step says of a document it changed.
Reported(d) ==
    \/ /\ reply'.status \in {"applied", "rolled_back"} /\ reply' # reply
       /\ reply'.before.features = host[d].features
       /\ reply'.after.features = host'[d].features
    \/ host[d].undo_mode = 0 /\ reply'.status \in {"dry_run", "refused"}
    \/ /\ \E record \in undo : Undoable(record) /\ record.document_id = d
       /\ host'[d] = Undone(host[d]) /\ reply'.status = "refused"

\* What a call shows of the document it begins with is what is there.
LEMMA SnapshotShows ==
    ASSUME Typed, NEW d \in Documents
    PROVE  Snapshot(d).features = host[d].features
  BY ExistsIs DEF Snapshot, NoDocument

\* A failed or dry execution changes only a document without an undo list.
LEMMA RefusalsReport ==
    ASSUME Typed, NEW d \in Documents, NEW base, NEW actions \in ActionLists,
           NEW dry_run \in BOOLEAN, NEW x \in Documents, host'[x] # host[x],
           \/ ExecuteRefused(d, base, actions, dry_run)
           \/ ExecuteFails(d, base, actions, dry_run)
           \/ ExecuteDryRun(d, base, actions)
    PROVE  Reported(x)
  <1>1. /\ reply'.status \in {"dry_run", "refused"}
        /\ ~ExecuteRefused(d, base, actions, dry_run)
        /\ \E features \in Contents :
               host' = [host EXCEPT ![d] = IF Exists(d) THEN Aborted(@, features) ELSE @]
    <2>1. CASE ExecuteFails(d, base, actions, dry_run)
      <3>1. Result(d, actions).features \in Contents
        BY <2>1, ResultType DEF ExecuteFails, Admitted
      <3>2. QED
        BY <2>1, <3>1 DEF ExecuteFails, ExecuteRefused, Refuse, ReceiptFor
    <2>2. CASE ExecuteDryRun(d, base, actions)
      <3>1. Result(d, actions).features \in Contents
        BY <2>2, ResultType DEF ExecuteDryRun, Admitted
      <3>2. QED
        BY <2>2, <3>1 DEF ExecuteDryRun, ExecuteRefused, ReceiptFor
    <2>3. QED
      BY <2>1, <2>2 DEF ExecuteRefused
  <1>2. PICK features \in Contents :
            host' = [host EXCEPT ![d] = IF Exists(d) THEN Aborted(@, features) ELSE @]
    BY <1>1
  <1>3. x = d /\ Exists(d) /\ host'[d] = Aborted(host[d], features)
    BY <1>2 DEF Typed
  <1>4. host[d].undo_mode = 0
    BY <1>3, ExistsIs, AbortedType
  <1>5. QED
    BY <1>1, <1>3, <1>4 DEF Reported

\* An applied transaction is reported under a new id.
LEMMA AppliedReports ==
    ASSUME HostInv, NEW d \in Documents, NEW base \in Nat, NEW actions \in ActionLists,
           ExecuteApplied(d, base, actions), NEW x \in Documents, host'[x] # host[x]
    PROVE  Reported(x)
  <1>1. /\ host' = [host EXCEPT ![d] = host'[d]]
        /\ host'[d].features = Result(d, actions).features
    BY AppliedFacts DEF HostInv
  <1>2. x = d
    BY <1>1 DEF HostInv, Typed
  <1>3. reply' = NewReceipt(d, base, actions)
    BY DEF ExecuteApplied, NewReceipt, ReceiptFor
  <1>4. /\ reply'.status = "applied" /\ reply'.id = issued + 1
        /\ reply'.before = Snapshot(d)
        /\ reply'.after.features = Result(d, actions).features
    BY <1>3 DEF NewReceipt, ReceiptFor, ReceiptId
  <1>5. reply.id \in 0..issued /\ issued \in Nat
    BY DEF HostInv, Typed, Receipt
  <1>6. Snapshot(d).features = host[d].features
    BY SnapshotShows DEF HostInv
  <1>7. QED
    BY <1>1, <1>2, <1>4, <1>5, <1>6 DEF Reported

\* A roll-back is reported, or undoes its transaction and is refused.
LEMMA RollbacksReport ==
    ASSUME HostInv, NEW id, Rollback(id), NEW x \in Documents, host'[x] # host[x]
    PROVE  Reported(x)
  <1>1. PICK record \in undo :
            RollbackCreation(record) \/ RollbackEdit(record) \/ RollbackEditFails(record)
    BY DEF Rollback, RollbackUnknown, RollbackConflict, RecordsUnder
  <1> DEFINE d == record.document_id
  <1>2. d \in Documents /\ Typed /\ Issued /\ Undoable(record)
    BY <1>1, RecordFacts DEF HostInv, RollbackCreation, RollbackEdit, RollbackEditFails
  <1>3. x = d
    BY <1>1, <1>2 DEF RollbackCreation, RollbackEdit, RollbackEditFails, Typed
  <1>4. Snapshot(d).features = host[d].features
    BY <1>2, SnapshotShows
  <1>5. ~(reply.status = "rolled_back" /\ reply.id = record.original_receipt.id)
    BY <1>2 DEF Issued, RecordsUnder
  <1>6. CASE RollbackCreation(record)
    <2>1. /\ host' = [host EXCEPT ![d] = NoHostDocument]
          /\ reply' = ReceiptFor(record.original_receipt.id, "rolled_back",
                                 Snapshot(d), NoDocument)
      BY <1>6 DEF RollbackCreation
    <2>2. /\ host'[d].features = Absent
          /\ reply'.id = record.original_receipt.id /\ reply'.status = "rolled_back"
          /\ reply'.before = Snapshot(d) /\ reply'.after.features = Absent
      BY <1>2, <2>1 DEF Typed, NoHostDocument, ReceiptFor, NoDocument
    <2>3. QED
      BY <1>3, <1>4, <1>5, <2>2 DEF Reported
  <1>7. CASE RollbackEdit(record)
    <2> DEFINE after == Restored(record, Newest(host[d]).features)
    <2>1. /\ host[d].transactions # <<>>
          /\ host' = [host EXCEPT ![d] = Undone(host[d])]
          /\ reply' = ReceiptFor(record.original_receipt.id, "rolled_back", Snapshot(d),
                                 [revision |-> after.revision, features |-> after.fingerprint])
      BY <1>7 DEF RollbackEdit
    <2>2. /\ reply'.id = record.original_receipt.id /\ reply'.status = "rolled_back"
          /\ reply'.before = Snapshot(d)
          /\ reply'.after.features = Newest(host[d]).features
      BY <2>1 DEF ReceiptFor, Restored
    <2>3. host'[d] = Undone(host[d]) /\ Undone(host[d]).features = Newest(host[d]).features
      BY <1>2, <2>1, UndoneFacts DEF Typed
    <2>4. QED
      BY <1>3, <1>4, <1>5, <2>2, <2>3 DEF Reported
  <1>8. CASE RollbackEditFails(record)
    <2>1. host'[d] = Undone(host[d]) /\ reply'.status = "refused"
      BY <1>2, <1>3, <1>8 DEF RollbackEditFails, RefuseRollback, ReceiptFor, Typed
    <2>2. QED
      BY <1>2, <1>3, <2>1 DEF Reported
  <1>9. QED
    BY <1>1, <1>6, <1>7, <1>8

\* What a call of the adapter does to a document is what its receipt says, but
\* for documents without an undo list and roll-backs whose recompute raised.
THEOREM ReceiptsTellOfTheHost == MacroSpec => ChangesAreReported
  <1>1. ASSUME HostInv, acts \in Nat, [MacroNext]_macroVars, NEW x \in Documents,
               host'[x] # host[x], acts' = acts
        PROVE  Reported(x)
    <2>1. ASSUME NEW d \in Documents, DocumentStep(d)
          PROVE  Reported(x)
      <3>1. ~(UserEdits(d) \/ UserUndoes(d) \/ UserOpens(d) \/ UserCloses(d)) /\ ~Observe(d)
        BY <1>1 DEF UserEdits, UserUndoes, UserOpens, UserCloses, Act, Observe
      <3>2. PICK base \in Bases(d), actions \in ActionLists, dry_run \in BOOLEAN :
                Execute(d, base, actions, dry_run)
        BY <2>1, <3>1 DEF DocumentStep
      <3>3. base \in Nat
        BY <1>1, ObservedType DEF Bases, Revision, Observation, HostInv
      <3>4. QED
        BY <1>1, <3>2, <3>3, RefusalsReport, AppliedReports DEF Execute, HostInv
    <2>2. ~MacroStep
      BY <1>1 DEF MacroStep, ExecuteMacro
    <2>3. \A d \in Documents : ~UserOpens(d)
      BY <1>1 DEF UserOpens, Act
    <2>4. ~UNCHANGED macroVars
      BY <1>1 DEF macroVars, vars
    <2>5. QED
      BY <1>1, <2>1, <2>2, <2>3, <2>4, RollbacksReport, MacroAssumption DEF MacroNext
  <1>2. MacroInit => acts \in Nat
    BY DEF MacroInit, Init
  <1>3. HostInv /\ acts \in Nat /\ [MacroNext]_macroVars =>
            [\A d \in Documents :
               host'[d] # host[d] /\ acts' = acts =>
               \/ /\ reply'.status \in {"applied", "rolled_back"} /\ reply' # reply
                  /\ reply'.before.features = host[d].features
                  /\ reply'.after.features = host'[d].features
               \/ host[d].undo_mode = 0 /\ reply'.status \in {"dry_run", "refused"}
               \/ /\ \E record \in undo : Undoable(record) /\ record.document_id = d
                  /\ host'[d] = Undone(host[d]) /\ reply'.status = "refused"]_vars
    BY <1>1 DEF Reported
  <1>4. MacroSpec => [](acts \in Nat)
    BY <1>2, ActsAreCounted, PTL DEF MacroSpec
  <1>5. QED
    BY <1>3, <1>4, HostInvariantHolds, PTL DEF MacroSpec, ChangesAreReported
=============================================================================

------------------------------- MODULE Macros -------------------------------
(***************************************************************************)
(* Approved macros (macros.py, FreeCADMacroExecutor.execute) in the host   *)
(* the adapter works in, between its calls.  The code of a macro is not    *)
(* confined: it changes the active document and others, makes documents,   *)
(* raises, exits, leaves what a recompute rejects, closes the active       *)
(* document, and it may commit, undo or throw away native transactions,    *)
(* the runner's among them; opening one of its own commits the runner's.   *)
(* Only the generator's prompt asks it not to open, commit or abort any.   *)
(* It runs in the host's main thread, so executing one is one action.      *)
(*                                                                         *)
(* To the adapter a macro is an act of the user.  The host records in a    *)
(* document's transaction only what is done to that document.  A macro     *)
(* that is not approved or does not parse raises before anything is done.  *)
(*                                                                         *)
(* Bounds: the code does one of Conducts; it touches one other document,   *)
(* or none if it does not keep to its transaction.                         *)
(***************************************************************************)
EXTENDS FreeCADAdapter

CONSTANTS
    Served,     \* bound: the documents the adapter is called for
    Made,       \* bound: what macros make of documents
    Nobody      \* no active document, no other document

ASSUME MacroAssumption ==
    Served \subseteq Documents /\ Made \subseteq Contents /\ Nobody \notin Documents

VARIABLE macro  \* the macro the last step executed, if it did

macroVars == <<vars, macro>>

\* What the code does with the transaction the runner opened: keeps to it,
\* commits it, undoes it and the one before, switches the undo list off, which
\* clears it, or closes the document.
Conducts == {"keeps", "commits", "undoes", "clears", "closes"}

\* It ends; something is raised; it exits, which the runner does not catch.
Endings == {"normal", "exception", "exit"}

NoMacro == [status |-> "none", document |-> Nobody, conduct |-> "keeps", refused |-> {}]

MacroInit == Init /\ macro = NoMacro

\* Faulty variant: the transaction is opened where the host keeps no undo list.
OpenedAnyway(document) == document

\* The document in which the transaction is opened keeps an undo list.
Opened(document) == [document EXCEPT !.undo_mode = 1]

\* The active document when the code's conduct left no transaction open: the
\* commit or the abort that follows has nothing to act on.
Left(document, conduct, features) ==
    CASE conduct = "commits" -> Committed(document, 0, features, document.hidden)
      [] conduct = "undoes"  -> [Undone(document) EXCEPT !.features = features]
      [] conduct = "clears"  -> [document EXCEPT !.features = features, !.undo_mode = 0,
                                                 !.transactions = <<>>]
      [] OTHER -> NoHostDocument

\* The active document at the end.  A transaction that is left open, by an exit
\* or an abort that raised, is committed with the next one that is opened, and
\* counts as committed here.
Ended(document, conduct, features, abort) ==
    IF conduct # "keeps" THEN Left(Opened(document), conduct, features)
    ELSE IF abort THEN Aborted(Opened(document), features)
    ELSE Committed(Opened(document), 0, features, document.hidden)

\* What the macro's code makes of another document.
MacroRun(d, theirs) ==
    IF Exists(d) THEN [host[d] EXCEPT !.features = theirs] ELSE NewDocument(0, theirs, 1)

\* When all went well, the changes to the active document are committed; if the
\* code closed it, that raises.  When something raised they are aborted, and the
\* documents the macro made are closed, as far as the host does not refuse
\* either (which is told where it makes a difference).  An exit leaves
\* everything as it is, without a receipt.
ExecuteMacro(active, features, other, theirs, conduct, ending, refused) ==
    LET failed == ending = "exception" \/ (ending = "normal" /\ conduct = "closes")
    IN  /\ acts < MaxUserActs /\ acts' = acts + 1
        /\ conduct # "keeps" => active # Nobody /\ other = Nobody
        /\ conduct = "undoes" => host[active].transactions # <<>>
        /\ refused # {} => failed
        /\ "abort" \in refused => active # Nobody /\ conduct = "keeps"
        /\ "close" \in refused => other # Nobody /\ ~Exists(other)
        /\ host' = [d \in Documents |->
                      IF d = active THEN
                          Ended(host[d], conduct, features, failed /\ "abort" \notin refused)
                      ELSE IF d # other THEN host[d]
                      ELSE IF failed /\ ~Exists(d) /\ "close" \notin refused THEN NoHostDocument
                      ELSE MacroRun(d, theirs)]
        /\ macro' = [status   |-> IF ending = "exit" THEN "raised"
                                  ELSE IF failed THEN "failed" ELSE "applied",
                     document |-> active, conduct |-> conduct, refused |-> refused]
        /\ unseen' = unseen \cup {d \in Documents : host'[d] # host[d]}
        /\ missed' = IF conduct = "closes" THEN missed \cup {active} ELSE missed
        /\ UNCHANGED <<revisions, undo, issued, reply>>

MacroStep ==
    \E active \in {d \in Documents : Exists(d)} \cup {Nobody}, features \in Made,
       conduct \in Conducts, ending \in Endings, refused \in SUBSET {"abort", "close"} :
        \E other \in (Documents \cup {Nobody}) \ {active}, theirs \in Made :
            ExecuteMacro(active, features, other, theirs, conduct, ending, refused)

MacroNext ==
    \/ \E d \in Served : DocumentStep(d) /\ macro' = NoMacro
    \/ \E id \in 1..MaxReceipts : Rollback(id) /\ macro' = NoMacro
    \/ \E d \in Documents \ Served : UserOpens(d) /\ macro' = NoMacro
    \/ MacroStep

MacroSpec == MacroInit /\ [][MacroNext]_macroVars

-----------------------------------------------------------------------------
\* The document a macro was executed in, if it is still there.
Survivors == {d \in Documents : d = macro'.document /\ Exists(d)'}

\* A failed macro that kept to the transaction it was given leaves the active
\* document and its undo list as they were, whatever it did to it and whether or
\* not the document kept an undo list before, and any failed macro leaves no
\* document that was not there, unless the host refused to abort or to close.
\* What it did to other documents stays (macros.py, execute).
FailedMacrosAreTakenBack ==
    [][macro'.status = "failed" =>
         /\ "close" \notin macro'.refused => \A d \in Documents : ~Exists(d) => ~Exists(d)'
         /\ macro'.conduct = "keeps" /\ "abort" \notin macro'.refused =>
              \A d \in Survivors :
                  /\ host'[d].features = host[d].features
                  /\ host'[d].transactions = host[d].transactions]_macroVars

\* "The runner--not generated code--owns the FreeCAD transaction", which it
\* "commits only on success, and aborts ... on failure" (docs/MACRO_GUIDE.md):
\* no failed macro leaves changes in the document it was executed in when the
\* host refused nothing, whatever its code does with the transaction.  This does
\* not hold (README, disagreements).
MacrosAreTransactional ==
    [][macro'.status = "failed" /\ macro'.refused = {} =>
         \A d \in Survivors : host'[d].features = host[d].features]_macroVars
=============================================================================

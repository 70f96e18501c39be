---------------------------- MODULE VersionStack ----------------------------
(***************************************************************************)
(* What a kernel adapter promises about its documents, with nothing about  *)
(* how it keeps the promise: every document is a stack of versions.  An    *)
(* edit pushes one whole version; an undo takes the newest version off     *)
(* again and so leaves exactly what was there before that edit.  Nothing   *)
(* else changes a document.  (Docstrings of execute and rollback in        *)
(* src/src/cadrig/adapters/base.py, lines 29-33.)                          *)
(***************************************************************************)
EXTENDS Naturals, Sequences

CONSTANTS
    Documents,  \* document ids
    Contents    \* everything a document may hold

VARIABLE versions

Init == versions = [d \in Documents |-> <<>>]

Commit(d, content) ==
    versions' = [versions EXCEPT ![d] = Append(@, content)]

Undo(d) ==
    /\ versions[d] # <<>>
    /\ versions' = [versions EXCEPT ![d] = SubSeq(@, 1, Len(@) - 1)]

Next ==
    \E d \in Documents :
        \/ \E content \in Contents : Commit(d, content)
        \/ Undo(d)

Spec == Init /\ [][Next]_versions
=============================================================================

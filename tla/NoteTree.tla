------------------------------ MODULE NoteTree ------------------------------
(* The notes module's tree.  It is the documents' tree but for the purge of a *)
(* folder, which asks neither for cascade nor about deleted rows below.       *)
EXTENDS ScopedTree

vars == <<items, household, personal, pinning, by>>

Shelf == INSTANCE PrivateShelf WITH
    shelf <- [i \in Items |-> IF Held(i) THEN Scope(i) ELSE Root], Nowhere <- Root

Init == TreeInit

CreateNote(u, n, p, said, title) == Create(u, n, p, said, title)
UpdateNote(u, n, title, archive) == Update(u, n, title, archive)
MoveNote(u, n, p) == Move(u, n, p)
DeleteNote(u, n, hard) == DeleteLeaf(u, n, hard)
PublishNote(u, n, p) == Publish(u, n, p)

CreateFolder(u, f, p, said, name) == Create(u, f, p, said, name)

UpdateFolder(u, f, name, archive) ==
    /\ archive = "archive" => \A i \in Items : ~(Live(i) /\ Parent(i) = f)
    /\ Update(u, f, name, archive)

\* A slip: a folder may be moved into its own subtree.
MoveFolderAnywhere(u, f, p) == Move(u, f, p)

MoveFolder(u, f, p) == ~WouldCycle(u, f, p) /\ Move(u, f, p)

DeleteFolder(u, f, cascade, hard) ==
    /\ IF hard THEN u \in Admins /\ Held(f) /\ Purge(Subtree(f))
               ELSE ArchiveSubtree(u, f, cascade)
    /\ by' = u
    /\ UNCHANGED pinning

PublishFolder(u, f, p) == Publish(u, f, p)

Pin(u, n, everyone) == PinRead(u, n, everyone)
UnpinNote(u, n, everyone) == Unpin(u, n, everyone)

Folds == Folders \cup {Root}
Changes == {"keep", "archive", "restore"}

NoteStep(u) == \E n \in Leaves :
    \/ \E p \in Folds, said \in CreateScopes(u), title \in Titles : CreateNote(u, n, p, said, title)
    \/ \E title \in Titles \cup {Unsaid}, change \in Changes : UpdateNote(u, n, title, change)
    \/ \E p \in Folds : MoveNote(u, n, p) \/ PublishNote(u, n, p)
    \/ \E hard \in BOOLEAN : DeleteNote(u, n, hard)
    \/ \E everyone \in BOOLEAN : Pin(u, n, everyone) \/ UnpinNote(u, n, everyone)

FolderStep(u) == \E f \in Folders :
    \/ \E p \in Folds, said \in CreateScopes(u), name \in Titles : CreateFolder(u, f, p, said, name)
    \/ \E name \in Titles \cup {Unsaid}, change \in Changes : UpdateFolder(u, f, name, change)
    \/ \E p \in Folds : MoveFolder(u, f, p) \/ PublishFolder(u, f, p)
    \/ \E cascade, hard \in BOOLEAN : DeleteFolder(u, f, cascade, hard)

Next == (\E u \in Users : NoteStep(u) \/ FolderStep(u)) \/ (\E c \in pinning : PinInsert(c))

Spec == Init /\ [][Next]_vars

-----------------------------------------------------------------------------
(* Properties *)

\* As for documents: a private note is made shared by its owner alone.
ShelfSpec == Shelf!Spec
=============================================================================

---------------------------- MODULE DocumentTree ----------------------------
(* The documents module's tree: what the documents service adds to the common *)
(* tree, and the files other modules hand over to it.                         *)
EXTENDS ScopedTree

VARIABLES accepting, \* <<member, leaf, folder>>: hand-overs between the check and the row
          slipped    \* history: leaves a hand-over filed in a folder that had gone

vars == <<items, household, personal, pinning, by, accepting, slipped>>

Shelf == INSTANCE PrivateShelf WITH
    shelf <- [i \in Items |-> IF Held(i) THEN Scope(i) ELSE Root], Nowhere <- Root

Init == TreeInit /\ accepting = {} /\ slipped = {}

CreateFolder(u, f, p, said, name) == Create(u, f, p, said, name)

\* A folder is archived here only when nothing live is in it.
UpdateFolder(u, f, name, archive) ==
    /\ archive = "archive" => \A i \in Items : ~(Live(i) /\ Parent(i) = f)
    /\ Update(u, f, name, archive)

MoveFolder(u, f, p) == ~WouldCycle(u, f, p) /\ Move(u, f, p)

\* Purging a folder asks for cascade when it holds anything.  A live folder that
\* hides deleted rows is refused, for their files would go unseen.
PurgeFolder(u, f, cascade) ==
    LET below == Subtree(f) \ {f}
    IN  /\ u \in Admins /\ Held(f)
        /\ cascade \/ \A i \in Items : ~(Live(i) /\ Parent(i) = f)
        /\ IF Live(f) THEN \A i \in below : Live(i) ELSE cascade \/ below = {}
        /\ Purge(Subtree(f))

DeleteFolder(u, f, cascade, hard) ==
    /\ IF hard THEN PurgeFolder(u, f, cascade) ELSE ArchiveSubtree(u, f, cascade)
    /\ by' = u
    /\ UNCHANGED pinning

PublishFolder(u, f, p) == Publish(u, f, p)

\* Another module hands a file over: the target is looked at ...
SinkTarget(u, d, f) ==
    /\ accepting = {} /\ items[d].state = "new"
    /\ VisibleTo(u, f) /\ Live(f) /\ Scope(f) = Shared
    /\ accepting' = {<<u, d, f>>}
    /\ by' = u
    /\ UNCHANGED <<items, household, personal, pinning, slipped>>

\* ... and after the copy the row is written into it, without another look: only
\* a folder deleted for good stops it.
AcceptBlob(c, title) ==
    /\ c \in accepting
    /\ accepting' = {}
    /\ IF Held(c[3]) /\ items[c[2]].state = "new"
       THEN /\ \E s \in FreeSlug(c[3], Shared, title, c[2]) :
                 items' = [items EXCEPT ![c[2]] = [state |-> "live", parent |-> c[3],
                                                   scope |-> Shared, slug |-> s]]
            /\ slipped' = IF Live(c[3]) THEN slipped ELSE slipped \cup {c[2]}
       ELSE UNCHANGED <<items, slipped>>
    /\ by' = c[1]
    /\ UNCHANGED <<household, personal, pinning>>

Folds == Folders \cup {Root}
Changes == {"keep", "archive", "restore"}

DocumentStep(u) == \E d \in Leaves :
    \/ \E p \in Folds, said \in CreateScopes(u), title \in Titles : Create(u, d, p, said, title)
    \/ \E title \in Titles \cup {Unsaid}, change \in Changes : Update(u, d, title, change)
    \/ \E p \in Folds : Move(u, d, p) \/ Publish(u, d, p)
    \/ \E hard \in BOOLEAN : DeleteLeaf(u, d, hard)
    \/ \E everyone \in BOOLEAN : PinRead(u, d, everyone) \/ Unpin(u, d, everyone)

FolderStep(u) == \E f \in Folders :
    \/ \E p \in Folds, said \in CreateScopes(u), name \in Titles : CreateFolder(u, f, p, said, name)
    \/ \E name \in Titles \cup {Unsaid}, change \in Changes : UpdateFolder(u, f, name, change)
    \/ \E p \in Folds : MoveFolder(u, f, p) \/ PublishFolder(u, f, p)
    \/ \E cascade, hard \in BOOLEAN : DeleteFolder(u, f, cascade, hard)

Next ==
    \/ /\ (\E u \in Users : DocumentStep(u) \/ FolderStep(u)) \/ (\E c \in pinning : PinInsert(c))
       /\ UNCHANGED <<accepting, slipped>>
    \/ \E u \in Users, d \in Leaves, f \in Folders : SinkTarget(u, d, f)
    \/ \E c \in accepting, title \in Titles : AcceptBlob(c, title)

Spec == Init /\ [][Next]_vars

-----------------------------------------------------------------------------
(* Properties *)

\* Every folder above a live item is live, but for the files handed over into a
\* folder deleted while they were being copied.
AncestorsAreLive ==
    \A i \in Items \ slipped : Live(i) /\ Parent(i) # Root => Live(Parent(i))

\* What a tree is to those who walk it, under every edit: one scope for all that lies
\* under a folder, and addresses that lead home, but for the files handed over into a
\* folder deleted meanwhile (documents/store.go, sink.go).
TreesHold == OneScopePerSubtree /\ AddressesLeadHome(slipped)

\* What the documentation says without exception: every ancestor of a live item
\* is live.
EveryAncestorIsLive == \A i \in Items : Live(i) /\ Parent(i) # Root => Live(Parent(i))

\* Nothing leaves a private shelf but by its owner's publishing or an admin's
\* purge, and nothing leaves the shared one for a private one.
ShelfSpec == Shelf!Spec
=============================================================================

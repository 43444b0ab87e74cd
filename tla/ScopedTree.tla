----------------------------- MODULE ScopedTree -----------------------------
(* The tree that the documents and the notes modules each keep: folders and   *)
(* leaves, every one of them in the shared scope or in one member's private   *)
(* scope.  The two modules are one behaviour in two implementations, so what  *)
(* they agree on is written here and what differs in DocumentTree and         *)
(* NoteTree.  The database has one connection, so a transaction is one step.  *)
EXTENDS Integers, Sequences, FiniteSets

CONSTANTS Folders, Leaves,  \* the ids of the rows there may come to be
          Users, Admins,    \* the members, and those who may delete for good
          Titles,           \* slugs that titles make; a slug is a sequence of numbers, suffixes last
          Reserved,         \* the slug of the private tree's own route
          Root, Shared, Unsaid,
          MaxSlug           \* bound: suffixes a slug collects when it is moved

VARIABLES items,     \* the rows of both tables
          household, \* leaves pinned for everyone
          personal,  \* <<member, leaf>> pins
          pinning,   \* pin calls between the read and the insert
          by         \* history: who took the last step

Items == Folders \cup Leaves
Scopes == {Shared} \cup Users
States == {"new", "live", "archived", "purged"}
Row == [state : States, parent : Folders \cup {Root}, scope : Scopes, slug : Seq(Nat)]

\* What stands for an id that has no row yet, or no longer.
NoRow(state) == [state |-> state, parent |-> Root, scope |-> Shared, slug |-> <<>>]

ASSUME ScopeAssumption ==
    /\ Folders \cap Leaves = {}
    /\ Shared \notin Users /\ Root \notin Items
    /\ Admins \subseteq Users
    /\ Titles \subseteq Seq(Nat)
    /\ MaxSlug \in Nat /\ IsFiniteSet(Items)

treeVars == <<items, household, personal, pinning, by>>

Held(i) == items[i].state \in {"live", "archived"}
Live(i) == items[i].state = "live"
Scope(i) == items[i].scope
Parent(i) == items[i].parent

VisibleTo(u, i) == Held(i) /\ Scope(i) \in {Shared, u}

-----------------------------------------------------------------------------
(* Addresses *)

\* What the sibling indexes key on: the parent, or at the root the scope too.
ParentKey(p, sc) == IF p = Root THEN <<Root, sc>> ELSE <<p>>

Children(p, sc) == {i \in Items : Live(i) /\ ParentKey(Parent(i), Scope(i)) = ParentKey(p, sc)}

SiblingSlugTaken(p, sc, s, except) == \E i \in Children(p, sc) \ {except} : items[i].slug = s

IsReservedRootSlug(p, sc, s) == p = Root /\ sc = Shared /\ s = Reserved

Candidate(base, n) == IF n = 1 THEN base ELSE Append(base, n)

\* The slugs the loop may end with: the first candidate that is free.
FreeSlug(p, sc, base, except) ==
    LET Free(n) == /\ ~IsReservedRootSlug(p, sc, Candidate(base, n))
                   /\ ~SiblingSlugTaken(p, sc, Candidate(base, n), except)
    IN  {Candidate(base, n) : n \in {m \in 1 .. Cardinality(Items) + 2 :
            Free(m) /\ Len(Candidate(base, m)) <= MaxSlug /\ \A k \in 1 .. m - 1 : ~Free(k)}}

-----------------------------------------------------------------------------
(* Walking the tree *)

\* A folder and the folders below it, through archived ones or stopping there.
DescendantFolders(f, includeArchived) ==
    {g \in Folders : \A X \in SUBSET Folders :
        (/\ f \in X
         /\ \A h \in Folders : (Parent(h) \in X /\ Held(h) /\ (includeArchived \/ Live(h))) => h \in X)
        => g \in X}

InFolders(fs) == {d \in Leaves : Held(d) /\ Parent(d) \in fs}

\* Walks up from the new parent over what the caller can see.
WouldCycle(u, f, p) ==
    /\ p # Root
    /\ \A X \in SUBSET Folders :
         (p \in X /\ \A g \in X : (VisibleTo(u, g) /\ Parent(g) # Root) => Parent(g) \in X) => f \in X

\* The slugs from the root down to an item.
Ancestors(i) ==
    LET up[k \in 0 .. Cardinality(Folders)] ==
            IF k = 0 THEN Parent(i) ELSE IF up[k - 1] = Root THEN Root ELSE Parent(up[k - 1])
        depth == Cardinality({k \in DOMAIN up : up[k] # Root})
    IN  [k \in 1 .. depth |-> up[depth - k]]

SlugPath(i) == [k \in DOMAIN Ancestors(i) |-> items[Ancestors(i)[k]].slug] \o <<items[i].slug>>

\* The rows a slug path leads to: folders all the way, at the end a folder or,
\* when there is none, a leaf.
Resolve(path, sc) ==
    LET Named(p, s, kind) == {i \in Children(p, sc) \cap kind : items[i].slug = s}
        walk[k \in 0 .. Len(path) - 1] ==
            IF k = 0 THEN {Root} ELSE UNION {Named(p, path[k], Folders) : p \in walk[k - 1]}
        Last(kind) == UNION {Named(p, path[Len(path)], kind) : p \in walk[Len(path) - 1]}
    IN  IF Last(Folders) # {} THEN Last(Folders) ELSE Last(Leaves)

\* What the tree of a scope shows: the live folders hanging together from the
\* root, and the live leaves in them.
Tree(sc) ==
    LET mine == {i \in Items : Live(i) /\ Scope(i) = sc}
        shown == {f \in mine \cap Folders : \A X \in SUBSET Folders :
                     (\A g \in mine \cap Folders : Parent(g) \in X \cup {Root} => g \in X) => f \in X}
    IN  shown \cup {d \in mine \cap Leaves : Parent(d) \in shown \cup {Root}}

-----------------------------------------------------------------------------
(* The operations of the service, by member u *)

\* The scope a member names when creating: nothing, the shared root, their own.
CreateScopes(u) == {Unsaid, Shared, u}

\* May u file something under p, having named a scope?
AssertFolder(u, p, said) ==
    p # Root => VisibleTo(u, p) /\ Live(p) /\ said \in {Unsaid, Scope(p)}

ScopeUnder(p, said) == IF p # Root THEN Scope(p) ELSE IF said = Unsaid THEN Shared ELSE said

Create(u, i, p, said, title) ==
    /\ items[i].state = "new"
    /\ AssertFolder(u, p, said)
    /\ \E s \in FreeSlug(p, ScopeUnder(p, said), title, i) :
         items' = [items EXCEPT ![i] = [state |-> "live", parent |-> p,
                                        scope |-> ScopeUnder(p, said), slug |-> s]]
    /\ by' = u
    /\ UNCHANGED <<household, personal, pinning>>

\* A title makes a new slug; so does coming back, since the old one may be taken.
Update(u, i, title, archive) ==
    LET restoring == archive = "restore" /\ items[i].state = "archived"
        slugs == IF title # Unsaid THEN FreeSlug(Parent(i), Scope(i), title, i)
                 ELSE IF restoring THEN FreeSlug(Parent(i), Scope(i), items[i].slug, i)
                 ELSE {items[i].slug}
    IN  /\ VisibleTo(u, i)
        /\ Live(i) \/ restoring
        /\ restoring /\ Parent(i) # Root => VisibleTo(u, Parent(i)) /\ Live(Parent(i))
        /\ \E s \in slugs :
             items' = [items EXCEPT ![i].slug = s,
                                    ![i].state = IF archive = "archive" THEN "archived" ELSE "live"]
        /\ by' = u
        /\ UNCHANGED <<household, personal, pinning>>

\* A slip: a move takes the scope of where it goes instead of refusing another one.
MoveAcross(u, i, p) ==
    /\ VisibleTo(u, i) /\ Live(i)
    /\ AssertFolder(u, p, Unsaid)
    /\ \E s \in FreeSlug(p, ScopeUnder(p, Scope(i)), items[i].slug, i) :
         items' = [items EXCEPT ![i].parent = p, ![i].slug = s, ![i].scope = ScopeUnder(p, Scope(i))]
    /\ by' = u
    /\ UNCHANGED <<household, personal, pinning>>

\* A move never changes scope, and keeps its slug when it can.
Move(u, i, p) ==
    /\ VisibleTo(u, i) /\ Live(i)
    /\ AssertFolder(u, p, Unsaid)
    /\ p # Root => Scope(p) = Scope(i)
    /\ \E s \in FreeSlug(p, Scope(i), items[i].slug, i) :
         items' = [items EXCEPT ![i].parent = p, ![i].slug = s]
    /\ by' = u
    /\ UNCHANGED <<household, personal, pinning>>

Archived(S) == [i \in Items |-> IF i \in S THEN [items[i] EXCEPT !.state = "archived"] ELSE items[i]]

\* A slip: the purge of a row leaves its pins behind.
PurgeRowsOnly(S) ==
    /\ items' = [i \in Items |-> IF i \in S THEN NoRow("purged") ELSE items[i]]
    /\ UNCHANGED <<household, personal>>

\* The rows go, and the foreign keys take their pins with them.
Purge(S) ==
    /\ items' = [i \in Items |-> IF i \in S THEN NoRow("purged") ELSE items[i]]
    /\ household' = household \ S
    /\ personal' = {up \in personal : up[2] \notin S}

DeleteLeaf(u, d, hard) ==
    /\ \/ /\ hard /\ u \in Admins /\ Held(d)
          /\ Purge({d})
       \/ /\ ~hard /\ VisibleTo(u, d) /\ Live(d)
          /\ items' = Archived({d})
          /\ UNCHANGED <<household, personal>>
    /\ by' = u
    /\ UNCHANGED pinning

\* The soft half of deleting a folder: the live rows below it are archived too.
ArchiveSubtree(u, f, cascade) ==
    LET fs == DescendantFolders(f, FALSE)
    IN  /\ VisibleTo(u, f)
        /\ cascade \/ {i \in Items : Live(i) /\ Parent(i) = f} = {}
        /\ items' = Archived({i \in fs \cup InFolders(fs) : Live(i)})
        /\ UNCHANGED <<household, personal>>

\* A slip: publishing flips what its owner still sees and forgets the deleted rows below.
LiveSubtree(f) ==
    {i \in DescendantFolders(f, FALSE) \cup InFolders(DescendantFolders(f, FALSE)) : Live(i)}

\* Everything below goes with the folder, archived or not.
Subtree(f) == DescendantFolders(f, TRUE) \cup InFolders(DescendantFolders(f, TRUE))

\* Only the owner may publish, and only into the shared tree.  Below a folder
\* the rows are flipped whoever owns them.
Publish(u, i, p) ==
    LET below == IF i \in Folders THEN Subtree(i) ELSE {i}
    IN  /\ Live(i) /\ Scope(i) = u
        /\ AssertFolder(u, p, Unsaid) /\ ScopeUnder(p, Unsaid) = Shared
        /\ \E s \in FreeSlug(p, Shared, items[i].slug, i) :
             items' = [j \in Items |->
                         IF j = i THEN [items[i] EXCEPT !.scope = Shared, !.parent = p, !.slug = s]
                         ELSE IF j \in below THEN [items[j] EXCEPT !.scope = Shared] ELSE items[j]]
        /\ by' = u
        /\ UNCHANGED <<household, personal, pinning>>

\* A pin is decided on a row read before its transaction ...
PinRead(u, d, everyone) ==
    /\ pinning = {}
    /\ VisibleTo(u, d) /\ Live(d)
    /\ everyone => Scope(d) = Shared
    /\ pinning' = {<<u, d, everyone>>}
    /\ by' = u
    /\ UNCHANGED <<items, household, personal>>

\* ... which inserts it unless the row is gone, whatever else became of it.
PinInsert(c) ==
    /\ c \in pinning
    /\ pinning' = pinning \ {c}
    /\ IF ~Held(c[2]) THEN UNCHANGED <<household, personal>>
       ELSE IF c[3] THEN household' = household \cup {c[2]} /\ UNCHANGED personal
       ELSE personal' = personal \cup {<<c[1], c[2]>>} /\ UNCHANGED household
    /\ by' = c[1]
    /\ UNCHANGED items

Unpin(u, d, everyone) ==
    /\ VisibleTo(u, d)
    /\ household' = IF everyone THEN household \ {d} ELSE household
    /\ personal' = IF everyone THEN personal ELSE personal \ {<<u, d>>}
    /\ by' = u
    /\ UNCHANGED <<items, pinning>>

TreeInit ==
    /\ items = [i \in Items |-> NoRow("new")]
    /\ household = {} /\ personal = {} /\ pinning = {}
    /\ by \in Users

-----------------------------------------------------------------------------
(* Properties *)

TypeOK ==
    /\ items \in [Items -> Row]
    /\ household \subseteq Leaves
    /\ personal \subseteq Users \X Leaves
    /\ pinning \subseteq Users \X Leaves \X BOOLEAN
    /\ by \in Users

\* A row is in the scope of the folder it is filed in, which is still there.
OneScopePerSubtree ==
    \A i \in Items : Held(i) /\ Parent(i) # Root => Held(Parent(i)) /\ Scope(Parent(i)) = Scope(i)

\* Every live item but those of X is where its address says: its folder is live,
\* following its slug path from the root of its scope leads to it and to nothing
\* else, the scope's tree shows it exactly when it is live in that scope, and no
\* shared address begins with the route of the private tree.
AddressesLeadHome(X) ==
    /\ \A i \in Items \ X : Live(i) =>
         /\ Parent(i) # Root => Live(Parent(i))
         /\ Resolve(SlugPath(i), Scope(i)) = {i}
         /\ Scope(i) = Shared => SlugPath(i)[1] # Reserved
    /\ \A sc \in Scopes : {i \in Items \ X : Live(i) /\ Scope(i) = sc} = Tree(sc) \ X

\* A household pin is on something everyone may see, a personal one on
\* something its holder may see, although the row was read before the
\* transaction that pins it and may have moved, been archived, published or
\* deleted in between.
PinsAreSeen ==
    /\ \A d \in household : Held(d) /\ Scope(d) = Shared
    /\ \A up \in personal : VisibleTo(up[1], up[2])
=============================================================================

--------------------------- MODULE RecordsProofs ----------------------------
(***************************************************************************)
(* Proofs about the documents' tree and the notes', for any folders,       *)
(* leaves, members, titles and bounds: their type, one scope for all that  *)
(* lies under a folder, no folder below itself, that pins stay visible,    *)
(* that every live row's address leads to it alone, and that no shelf is   *)
(* emptied behind its owner's back (each tree implements PrivateShelf).    *)
(*                                                                         *)
(* Every operation changes the rows in one of four ways: it writes one row *)
(* (OneRowWritten), archives rows (RowsArchived), throws a set of rows     *)
(* away (RowsPurged) or flips a subtree (SubtreeShared).  What matters of  *)
(* the sets is that they are closed: a row filed in a folder of the set is *)
(* in the set (SubtreeClosed).  What matters to a call that has read a row *)
(* and will act on it later is that a row only ever leaves a scope for the *)
(* shared one or for good (OnlyOpens), which is what PrivateShelf says.    *)
(*                                                                         *)
(* Proofs about DocumentVault, for any documents, workers, queue size and  *)
(* limits of the daily pass: a document's original stays while its row     *)
(* does, and no pending preview is stranded.                               *)
(*                                                                         *)
(* Of the originals: an upload stores one that no pass under way has seen  *)
(* old, and what a pass read as claimed it spares (PassInv).  Of the       *)
(* previews: whoever takes a document's turn from it - a full queue, a     *)
(* failed step, a job that ends - leaves a reason (TurnInv), and start-up  *)
(* lists what is pending only once the rows are as it wants them           *)
(* (StartInv).                                                             *)
(*                                                                         *)
(* Proofs about NoteImages, for any notes, images, collections under way   *)
(* and limits of the daily pass: a row has its bytes, and a collection     *)
(* spares what a note still embeds.                                        *)
(*                                                                         *)
(* What is between its object and its row is known to nobody else: no note *)
(* embeds it, no collection or pass has it in hand, and it is younger than *)
(* any grace (FreshInv).  And a pass that has read the rows knows every    *)
(* row but those of such newcomers (SweepInv).                             *)
(***************************************************************************)
EXTENDS DocumentTree, DocumentVault, NoteImages, FiniteSetTheorems, TLAPS

Noted == INSTANCE NoteTree

\* No two live rows of one place answer to one slug, and none to the private tree's route.
OwnAddress ==
  /\ \A i, j \in Items :
       /\ Live(i) /\ Live(j)
       /\ ParentKey(Parent(i), Scope(i)) = ParentKey(Parent(j), Scope(j))
       /\ items[i].slug = items[j].slug
       => i = j
  /\ \A i \in Items : Live(i) => ~IsReservedRootSlug(Parent(i), Scope(i), items[i].slug)

\* What a live row is filed in is live, but for the rows of X.
LiveUnderLive(X) == \A i \in Items \ X : Live(i) /\ Parent(i) # Root => Live(Parent(i))

\* What is true of the rows, when those of X may be filed in a folder that is not live.
RowsOK(X) == items \in [Items -> Row] /\ OneScopePerSubtree /\ OwnAddress /\ LiveUnderLive(X)

\* Pins and hand-overs under way: what they were decided on has not been taken back,
\* but for a row deleted since.
PinningOK ==
  \A c \in pinning : /\ items[c[2]].state # "new"
                     /\ Held(c[2]) => Scope(c[2]) \in {Shared, c[1]} /\ (c[3] => Scope(c[2]) = Shared)

AcceptingOK ==
  /\ accepting \subseteq Users \X Leaves \X Folders
  /\ \A c \in accepting : items[c[3]].state # "new" /\ (Held(c[3]) => Scope(c[3]) = Shared)

\* No folder is above itself: of any folders that are there, one is filed outside them.
NoLoop == \A F \in SUBSET Folders :
            F # {} /\ (\A f \in F : Held(f)) => \E f \in F : Parent(f) \notin F

\* The invariant of either tree; that of the documents also speaks of the hand-overs.
TreeInv(X) == TypeOK /\ RowsOK(X) /\ PinningOK /\ PinsAreSeen
DocumentInv == TreeInv(slipped) /\ NoLoop /\ AcceptingOK

\* A row never comes back from the dead, and leaves its scope for the shared one only.
OnlyOpens ==
  \A i \in Items : /\ items[i].state # "new" => items'[i].state # "new"
                   /\ Held(i)' => items[i].state = "new" \/ (Held(i) /\ Scope(i)' \in {Scope(i), Shared})

-----------------------------------------------------------------------------
(* Operators *)

\* A row is its four fields.
LEMMA OneRecord ==
  ASSUME NEW a, NEW b, NEW c, NEW d,
         NEW rec \in [state : {a}, parent : {b}, scope : {c}, slug : {d}]
  PROVE  rec = [state |-> a, parent |-> b, scope |-> c, slug |-> d]
OBVIOUS

\* A slug that was looked for is a slug, is free, and is not the private tree's route.
LEMMA FreeSlugIsFree ==
  ASSUME NEW p, NEW sc, NEW base \in Seq(Nat), NEW except, NEW s \in FreeSlug(p, sc, base, except)
  PROVE  /\ s \in Seq(Nat)
         /\ ~SiblingSlugTaken(p, sc, s, except)
         /\ ~IsReservedRootSlug(p, sc, s)
<1> DEFINE Free(n) == /\ ~IsReservedRootSlug(p, sc, Candidate(base, n))
                      /\ ~SiblingSlugTaken(p, sc, Candidate(base, n), except)
<1>1. PICK n \in 1 .. Cardinality(Items) + 2 : Free(n) /\ s = Candidate(base, n)
  BY DEF FreeSlug
<1>2. n \in Nat
  OBVIOUS
<1>3. Candidate(base, n) \in Seq(Nat)
  BY <1>2 DEF Candidate
<1> QED
  BY <1>1, <1>3

\* The folders below a folder: closed downwards, and none without its parent but the first.
LEMMA DescendantsClosed ==
  ASSUME NEW f \in Folders, NEW deleted \in BOOLEAN
  PROVE  LET D == DescendantFolders(f, deleted)
         IN  /\ f \in D /\ D \subseteq Folders
             /\ \A h \in Folders : Parent(h) \in D /\ Held(h) /\ (deleted \/ Live(h)) => h \in D
             /\ \A X \in SUBSET Folders :
                  (/\ f \in X
                   /\ \A h \in Folders : Parent(h) \in X /\ Held(h) /\ (deleted \/ Live(h)) => h \in X)
                  => D \subseteq X
             /\ \A g \in D \ {f} : Parent(g) \in D
<1> DEFINE D == DescendantFolders(f, deleted)
           Closed(X) == \A h \in Folders : Parent(h) \in X /\ Held(h) /\ (deleted \/ Live(h)) => h \in X
<1>1. D \subseteq Folders /\ f \in D
  BY DEF DescendantFolders
<1>2. \A X \in SUBSET Folders : f \in X /\ Closed(X) => D \subseteq X
  BY DEF DescendantFolders
<1>3. Closed(D)
  BY DEF DescendantFolders
<1>4. ASSUME NEW g \in D \ {f}, Parent(g) \notin D
      PROVE  FALSE
  <2>1. D \ {g} \in SUBSET Folders /\ f \in D \ {g}
    BY <1>1, <1>4
  <2>2. Closed(D \ {g})
    BY <1>3, <1>4
  <2> QED
    BY <1>2, <1>4, <2>1, <2>2
<1> HIDE DEF D
<1> QED
  BY <1>1, <1>2, <1>3, <1>4 DEF D

\* A subtree holds the rows filed in its folders, and is of one scope.
LEMMA SubtreeClosed ==
  ASSUME TypeOK, OneScopePerSubtree, NEW f \in Folders, Held(f)
  PROVE  /\ f \in Subtree(f) /\ Subtree(f) \subseteq Items
         /\ \A i \in Items : Held(i) /\ Parent(i) \in Subtree(f) => i \in Subtree(f)
         /\ \A i \in Subtree(f) : Held(i) /\ Scope(i) = Scope(f)
         /\ \A i \in Subtree(f) \ {f} : Parent(i) \in Subtree(f)
<1> DEFINE D == DescendantFolders(f, TRUE)
           X == {g \in Folders : Held(g) /\ Scope(g) = Scope(f)}
<1>1. /\ f \in D /\ D \subseteq Folders
      /\ \A h \in Folders : Parent(h) \in D /\ Held(h) => h \in D
      /\ \A g \in D \ {f} : Parent(g) \in D
  BY DescendantsClosed
<1>2. D \subseteq X
  <2>1. X \in SUBSET Folders /\ f \in X
    OBVIOUS
  <2>2. \A h \in Folders : Parent(h) \in X /\ Held(h) => h \in X
    BY ScopeAssumption DEF OneScopePerSubtree, Items
  <2> HIDE DEF X
  <2> QED
    BY <2>1, <2>2, DescendantsClosed
<1>3. Subtree(f) = D \cup {d \in Leaves : Held(d) /\ Parent(d) \in D}
  BY DEF Subtree, InFolders
<1>4. \A i \in Items : Parent(i) \in Folders \cup {Root}
  BY DEF TypeOK, Row, Parent
<1> HIDE DEF D
<1>5. \A i \in Subtree(f) : i \in D \/ (i \in Leaves /\ Held(i) /\ Parent(i) \in D)
  BY <1>3
<1>6. \A d \in D : Held(d) /\ Scope(d) = Scope(f)
  BY <1>2
<1>7. \A i \in Leaves : Held(i) /\ Parent(i) \in D => Scope(i) = Scope(f)
  BY <1>1, <1>6, ScopeAssumption DEF OneScopePerSubtree, Items
<1>8. ASSUME NEW i \in Items, Held(i), Parent(i) \in Subtree(f)
      PROVE  i \in Subtree(f)
  <2>1. Parent(i) \in D
    BY <1>3, <1>4, <1>8, ScopeAssumption DEF Items
  <2> QED
    BY <1>1, <1>3, <1>8, <2>1 DEF Items
<1> QED
  BY <1>1, <1>3, <1>5, <1>6, <1>7, <1>8 DEF Items

-----------------------------------------------------------------------------
(* What the four ways of changing rows leave true *)

\* One row is written: one that did not exist, or one that keeps its scope.
LEMMA OneRowWritten ==
  ASSUME NEW X, NEW Y, X \subseteq Y, RowsOK(X),
         NEW i \in Items, NEW r \in Row,
         items' = [items EXCEPT ![i] = r],
         r.state \in {"live", "archived"},
         items[i].state = "new" \/ (Held(i) /\ r.scope = Scope(i)),
         r.parent # Root => Held(r.parent) /\ Scope(r.parent) = r.scope,
         r.state = "live" =>
           /\ ~SiblingSlugTaken(r.parent, r.scope, r.slug, i)
           /\ ~IsReservedRootSlug(r.parent, r.scope, r.slug)
           /\ r.parent # Root => Live(r.parent) \/ i \in Y,
         r.state = "archived" => \A j \in Items \ X : ~(Live(j) /\ Parent(j) = i)
  PROVE  RowsOK(Y)' /\ OnlyOpens
<1>1. /\ items'[i] = r
      /\ \A j \in Items \ {i} : items'[j] = items[j]
      /\ items' \in [Items -> Row]
  BY DEF RowsOK
<1>2. OneScopePerSubtree'
  <2> SUFFICES ASSUME NEW j \in Items, NEW q \in Items, Held(j)', q = Parent(j)', q # Root
               PROVE  Held(q)' /\ Scope(q)' = Scope(j)'
    BY <1>1 DEF OneScopePerSubtree, Row, Items, Held, Parent, Scope
  <2>1. CASE j = i
    BY <1>1, <2>1 DEF Held, Parent, Scope
  <2>2. CASE j # i
    <3>1. Held(q) /\ Scope(q) = Scope(j)
      BY <1>1, <2>2 DEF RowsOK, OneScopePerSubtree, Held, Parent, Scope
    <3> QED
      BY <1>1, <2>2, <3>1 DEF Held, Scope
  <2> QED
    BY <2>1, <2>2
<1>3. OwnAddress'
  <2>1. ASSUME NEW j \in Items \ {i}, Live(i)', Live(j)',
               ParentKey(Parent(i), Scope(i))' = ParentKey(Parent(j), Scope(j))',
               items'[i].slug = items'[j].slug
        PROVE  FALSE
    <3>1. /\ Live(j) /\ items[j].slug = r.slug /\ r.state = "live"
          /\ ParentKey(Parent(j), Scope(j)) = ParentKey(r.parent, r.scope)
      BY <1>1, <2>1 DEF Live, Parent, Scope, ParentKey
    <3> QED
      BY <3>1 DEF SiblingSlugTaken, Children
  <2>2. ASSUME NEW j \in Items \ {i}, NEW k \in Items \ {i}, Live(j)', Live(k)',
               ParentKey(Parent(j), Scope(j))' = ParentKey(Parent(k), Scope(k))',
               items'[j].slug = items'[k].slug
        PROVE  j = k
    BY <1>1, <2>2 DEF RowsOK, OwnAddress, Live, Parent, Scope, ParentKey
  <2>3. \A j \in Items : Live(j)' => ~IsReservedRootSlug(Parent(j)', Scope(j)', items'[j].slug)
    BY <1>1 DEF RowsOK, OwnAddress, Live, Parent, Scope, IsReservedRootSlug
  <2> QED
    BY <2>1, <2>2, <2>3 DEF OwnAddress, IsReservedRootSlug
<1>4. LiveUnderLive(Y)'
  <2> SUFFICES ASSUME NEW j \in Items \ Y, NEW q \in Items, Live(j)', q = Parent(j)', q # Root
               PROVE  Live(q)'
    BY <1>1 DEF LiveUnderLive, Row, Items, Live, Parent
  <2>1. CASE j = i
    BY <1>1, <2>1 DEF Live, Parent
  <2>2. CASE j # i
    <3>1. Live(j) /\ Parent(j) = q /\ j \notin X /\ Live(q)
      BY <1>1, <2>2 DEF RowsOK, LiveUnderLive, Live, Parent
    <3>2. q = i => r.state = "live"
      BY <3>1
    <3> QED
      BY <1>1, <3>1, <3>2 DEF Live
  <2> QED
    BY <2>1, <2>2
<1>5. OnlyOpens
  BY <1>1 DEF OnlyOpens, Held, Scope
<1> QED
  BY <1>1, <1>2, <1>3, <1>4, <1>5 DEF RowsOK

\* Live rows are archived, and with a folder the live rows filed in it.
LEMMA RowsArchived ==
  ASSUME NEW X, RowsOK(X),
         NEW S \in SUBSET Items,
         items' = Archived(S),
         \A i \in S : Live(i),
         \A i \in Items \ X : Live(i) /\ Parent(i) \in S => i \in S
  PROVE  RowsOK(X)' /\ OnlyOpens
<1>1. /\ \A i \in S : items'[i] = [items[i] EXCEPT !.state = "archived"]
      /\ \A i \in Items \ S : items'[i] = items[i]
      /\ items' \in [Items -> Row]
  BY DEF RowsOK, Archived, Row, States
<1>2. \A i \in Items : /\ Held(i)' <=> Held(i)
                       /\ Live(i)' => Live(i) /\ i \notin S
                       /\ Live(i) /\ i \notin S => Live(i)'
                       /\ Scope(i)' = Scope(i) /\ Parent(i)' = Parent(i)
                       /\ items'[i].slug = items[i].slug
                       /\ items'[i].state = "new" => items[i].state = "new"
  <2> SUFFICES ASSUME NEW i \in Items
               PROVE  /\ Held(i)' <=> Held(i)
                      /\ Live(i)' => Live(i) /\ i \notin S
                      /\ Live(i) /\ i \notin S => Live(i)'
                      /\ Scope(i)' = Scope(i) /\ Parent(i)' = Parent(i)
                      /\ items'[i].slug = items[i].slug
                      /\ items'[i].state = "new" => items[i].state = "new"
    OBVIOUS
  <2>1. CASE i \in S
    <3>1. /\ items'[i].state = "archived" /\ items'[i].scope = items[i].scope
          /\ items'[i].parent = items[i].parent /\ items'[i].slug = items[i].slug
      BY <1>1, <2>1 DEF RowsOK, Row
    <3> QED
      BY <2>1, <3>1 DEF Held, Live, Scope, Parent
  <2>2. CASE i \notin S
    BY <1>1, <2>2 DEF Held, Live, Scope, Parent
  <2> QED
    BY <2>1, <2>2
<1>4. OneScopePerSubtree'
  <2> SUFFICES ASSUME NEW j \in Items, NEW q \in Items, Held(j)', q = Parent(j)', q # Root
               PROVE  Held(q)' /\ Scope(q)' = Scope(j)'
    BY <1>1 DEF OneScopePerSubtree, Row, Items, Held, Parent, Scope
  <2>1. Held(q) /\ Scope(q) = Scope(j)
    BY <1>2 DEF RowsOK, OneScopePerSubtree
  <2> QED
    BY <1>2, <2>1
<1>5. OwnAddress'
  BY <1>2 DEF RowsOK, OwnAddress, IsReservedRootSlug, ParentKey
<1>6. LiveUnderLive(X)'
  <2> SUFFICES ASSUME NEW j \in Items \ X, NEW q \in Items, Live(j)', q = Parent(j)', q # Root
               PROVE  Live(q)'
    BY <1>1 DEF LiveUnderLive, Row, Items, Live, Parent
  <2>1. Live(q) /\ q \notin S
    BY <1>2 DEF RowsOK, LiveUnderLive
  <2> QED
    BY <1>2, <2>1
<1>7. OnlyOpens
  BY <1>2 DEF OnlyOpens
<1> QED
  BY <1>1, <1>4, <1>5, <1>6, <1>7 DEF RowsOK

\* Rows are thrown away, and with a folder the rows filed in it.
LEMMA RowsPurged ==
  ASSUME NEW X, RowsOK(X),
         NEW S \in SUBSET Items,
         Purge(S),
         \A i \in Items : Held(i) /\ Parent(i) \in S => i \in S
  PROVE  RowsOK(X)' /\ OnlyOpens
<1>1. /\ \A i \in S : items'[i] = NoRow("purged")
      /\ \A i \in Items \ S : items'[i] = items[i]
      /\ items' \in [Items -> Row]
  <2>1. <<>> \in Seq(Nat)
    OBVIOUS
  <2>2. NoRow("purged") \in Row
    BY <2>1 DEF NoRow, Row, States, Scopes
  <2> QED
    BY <2>2 DEF RowsOK, Purge
<1>2. \A i \in S : ~Held(i)' /\ ~Live(i)' /\ items'[i].state # "new"
  BY <1>1 DEF NoRow, Held, Live
<1>3. \A i \in Items \ S : Held(i)' = Held(i) /\ Live(i)' = Live(i)
                           /\ Scope(i)' = Scope(i) /\ Parent(i)' = Parent(i)
  BY <1>1 DEF Held, Live, Scope, Parent
<1>5. OneScopePerSubtree'
  <2> SUFFICES ASSUME NEW j \in Items, NEW q \in Items, Held(j)', q = Parent(j)', q # Root
               PROVE  Held(q)' /\ Scope(q)' = Scope(j)'
    BY <1>1 DEF OneScopePerSubtree, Row, Items, Held, Parent, Scope
  <2>1. j \notin S /\ Held(j) /\ q = Parent(j) /\ q \in Items \ S
    BY <1>2, <1>3
  <2>2. Held(q) /\ Scope(q) = Scope(j)
    BY <2>1 DEF RowsOK, OneScopePerSubtree
  <2> QED
    BY <1>3, <2>1, <2>2
<1>6. OwnAddress'
  BY <1>1, <1>2, <1>3 DEF RowsOK, OwnAddress, IsReservedRootSlug, ParentKey
<1>7. LiveUnderLive(X)'
  <2> SUFFICES ASSUME NEW j \in Items \ X, NEW q \in Items, Live(j)', q = Parent(j)', q # Root
               PROVE  Live(q)'
    BY <1>1 DEF LiveUnderLive, Row, Items, Live, Parent
  <2>1. j \notin S /\ Live(j) /\ q = Parent(j) /\ q \in Items \ S
    BY <1>2, <1>3 DEF Live, Held
  <2>2. Live(q)
    BY <2>1 DEF RowsOK, LiveUnderLive
  <2> QED
    BY <1>3, <2>1, <2>2
<1>8. OnlyOpens
  BY <1>1, <1>2, <1>3 DEF OnlyOpens
<1> QED
  BY <1>1, <1>5, <1>6, <1>7, <1>8 DEF RowsOK

\* A subtree of one private scope is moved to the shared tree.
LEMMA SubtreeShared ==
  ASSUME NEW X, RowsOK(X),
         NEW u \in Users, NEW i \in Items, NEW S \in SUBSET Items,
         NEW p \in Folders \cup {Root}, NEW s \in Seq(Nat),
         items' = [j \in Items |->
                     IF j = i THEN [items[i] EXCEPT !.scope = Shared, !.parent = p, !.slug = s]
                     ELSE IF j \in S THEN [items[j] EXCEPT !.scope = Shared] ELSE items[j]],
         i \in S, Live(i),
         \A j \in S : Held(j) /\ Scope(j) = u,
         \A j \in Items : Held(j) /\ Parent(j) \in S => j \in S,
         \A j \in S \ {i} : Parent(j) \in S,
         p # Root => Live(p) /\ Scope(p) = Shared,
         ~SiblingSlugTaken(p, Shared, s, i), ~IsReservedRootSlug(p, Shared, s)
  PROVE  RowsOK(X)' /\ OnlyOpens
<1>1. items' \in [Items -> Row]
  <2>1. Shared \in Scopes /\ \A j \in Items : items[j] \in Row
    BY DEF RowsOK, Scopes
  <2> QED
    BY <2>1 DEF Row
<1>2. \A j \in Items : /\ items'[j].state = items[j].state
                       /\ Held(j)' = Held(j) /\ Live(j)' = Live(j)
                       /\ Scope(j)' = IF j \in S THEN Shared ELSE Scope(j)
                       /\ j # i => Parent(j)' = Parent(j) /\ items'[j].slug = items[j].slug
                       /\ j = i => Parent(j)' = p /\ items'[j].slug = s
  <2> SUFFICES ASSUME NEW j \in Items
               PROVE  /\ items'[j].state = items[j].state
                      /\ items'[j].scope = IF j \in S THEN Shared ELSE items[j].scope
                      /\ items'[j].parent = IF j = i THEN p ELSE items[j].parent
                      /\ items'[j].slug = IF j = i THEN s ELSE items[j].slug
    BY DEF Held, Live, Scope, Parent
  <2>1. items[j] \in Row
    BY DEF RowsOK
  <2>2. CASE j = i
    BY <2>1, <2>2 DEF Row
  <2>3. CASE j # i
    BY <2>1, <2>3 DEF Row
  <2> QED
    BY <2>2, <2>3
<1>4. \A j \in Items : items'[j].parent # Root => items'[j].parent \in Items
  <2>1. \A j \in Items : items[j].parent \in Folders \cup {Root}
    BY DEF RowsOK, Row
  <2> QED
    BY <1>2, <2>1 DEF Parent, Items
<1>3. Parent(i)' = p /\ items'[i].slug = s
  BY <1>2
<1>5. p \notin S
  BY ScopeAssumption DEF Items
<1>6. OneScopePerSubtree'
  <2> SUFFICES ASSUME NEW j \in Items, NEW q \in Items, Held(j)', q = Parent(j)', q # Root
               PROVE  Held(q)' /\ Scope(q)' = Scope(j)'
    BY <1>4 DEF OneScopePerSubtree, Held, Parent, Scope
  <2>1. CASE j = i
    <3>1. Held(q) /\ Scope(q) = Shared /\ q \notin S
      BY <1>3, <1>5, <2>1 DEF Held, Live
    <3> QED
      BY <1>2, <2>1, <3>1
  <2>2. CASE j # i
    <3>1. Held(j) /\ q = Parent(j) /\ Held(q) /\ Scope(q) = Scope(j)
      BY <1>2, <2>2 DEF RowsOK, OneScopePerSubtree
    <3>2. q \in S <=> j \in S
      BY <2>2, <3>1
    <3> QED
      BY <1>2, <3>1, <3>2
  <2> QED
    BY <2>1, <2>2
<1>7. OwnAddress'
  <2>1. ASSUME NEW j \in Items \ {i}, Live(j)
        PROVE  /\ ParentKey(Parent(j)', Scope(j)') = ParentKey(Parent(j), Scope(j))
               /\ IsReservedRootSlug(Parent(j)', Scope(j)', items'[j].slug)
                    => IsReservedRootSlug(Parent(j), Scope(j), items[j].slug)
    <3>1. CASE Parent(j) = Root
      <4>1. j \notin S
        BY <2>1, <3>1, ScopeAssumption
      <4> QED
        BY <1>2, <2>1, <4>1 DEF IsReservedRootSlug
    <3>2. CASE Parent(j) # Root
      BY <1>2, <2>1, <3>2 DEF ParentKey, IsReservedRootSlug
    <3> QED
      BY <3>1, <3>2
  <2>2. ASSUME NEW j \in Items \ {i}, Live(j),
               ParentKey(p, Shared) = ParentKey(Parent(j), Scope(j)), items[j].slug = s
        PROVE  FALSE
    BY <2>2 DEF SiblingSlugTaken, Children
  <2>3. Scope(i)' = Shared
    BY <1>2
  <2>4. \A j \in Items \ {i} : Live(j)' =>
          ~(ParentKey(Parent(i)', Scope(i)') = ParentKey(Parent(j)', Scope(j)')
              /\ items'[i].slug = items'[j].slug)
    BY <1>2, <1>3, <2>1, <2>2, <2>3
  <2>5. \A j, k \in Items \ {i} :
          /\ Live(j)' /\ Live(k)' /\ items'[j].slug = items'[k].slug
          /\ ParentKey(Parent(j)', Scope(j)') = ParentKey(Parent(k)', Scope(k)')
          => j = k
    BY <1>2, <2>1 DEF RowsOK, OwnAddress
  <2>6. \A j \in Items : Live(j)' => ~IsReservedRootSlug(Parent(j)', Scope(j)', items'[j].slug)
    BY <1>2, <1>3, <2>1, <2>3 DEF RowsOK, OwnAddress
  <2> QED
    BY <2>4, <2>5, <2>6 DEF OwnAddress, ParentKey, IsReservedRootSlug
<1>8. LiveUnderLive(X)'
  <2> SUFFICES ASSUME NEW j \in Items \ X, NEW q \in Items, Live(j)', q = Parent(j)', q # Root
               PROVE  Live(q)'
    BY <1>4 DEF LiveUnderLive, Live, Parent
  <2>1. CASE j = i
    BY <1>2, <1>3, <2>1
  <2>2. CASE j # i
    BY <1>2, <2>2 DEF RowsOK, LiveUnderLive
  <2> QED
    BY <2>1, <2>2
<1>9. OnlyOpens
  BY <1>2 DEF OnlyOpens
<1> QED
  BY <1>1, <1>6, <1>7, <1>8, <1>9 DEF RowsOK

-----------------------------------------------------------------------------
(* The operations *)

\* A pin stays with its row, or goes with it.
PinsFollow ==
  /\ \A d \in household' : d \in household /\ (Held(d) => Held(d)')
  /\ \A up \in personal' : up \in personal /\ (Held(up[2]) => Held(up[2])')

\* What an operation on rows does to everything else.
RowsEdited(X) == RowsOK(X)' /\ OnlyOpens /\ PinsFollow /\ pinning' = pinning

\* Rows written, archived or published keep their pins.
LEMMA PinsUntouched ==
  ASSUME TypeOK, OnlyOpens, UNCHANGED <<household, personal>>,
         \A i \in Items : Held(i) => Held(i)'
  PROVE  PinsFollow
BY DEF PinsFollow, TypeOK, Items

LEMMA RowsUnchanged ==
  ASSUME NEW X, RowsOK(X), UNCHANGED items
  PROVE  RowsOK(X)' /\ OnlyOpens
<1>1. OneScopePerSubtree'
  BY DEF RowsOK, OneScopePerSubtree, Held, Parent, Scope
<1>2. OwnAddress'
  BY DEF RowsOK, OwnAddress, Live, Parent, Scope, ParentKey, IsReservedRootSlug
<1>3. LiveUnderLive(X)'
  BY DEF RowsOK, LiveUnderLive, Live, Parent
<1> QED
  BY <1>1, <1>2, <1>3 DEF RowsOK, OnlyOpens, Held, Scope

LEMMA CreateEdits ==
  ASSUME NEW X, TypeOK, RowsOK(X),
         NEW u \in Users, NEW i \in Items, NEW p \in Folds, NEW said \in CreateScopes(u),
         NEW title \in Titles, Create(u, i, p, said, title)
  PROVE  RowsEdited(X)
<1> DEFINE sc == ScopeUnder(p, said)
<1>1. PICK s \in FreeSlug(p, sc, title, i) :
        items' = [items EXCEPT ![i] = [state |-> "live", parent |-> p, scope |-> sc, slug |-> s]]
  BY DEF Create
<1>2. /\ s \in Seq(Nat)
      /\ ~SiblingSlugTaken(p, sc, s, i) /\ ~IsReservedRootSlug(p, sc, s)
  BY FreeSlugIsFree, ScopeAssumption
<1>3. /\ items[i].state = "new"
      /\ p # Root => p \in Folders /\ Held(p) /\ Live(p) /\ sc = Scope(p)
  BY DEF Create, AssertFolder, VisibleTo, ScopeUnder, Folds
<1>4. sc \in Scopes
  <2>1. CASE p = Root
    BY <2>1 DEF ScopeUnder, CreateScopes, Scopes
  <2>2. CASE p # Root
    BY <1>3, <2>2 DEF RowsOK, Row, Items, Scope
  <2> QED
    BY <2>1, <2>2
<1> HIDE DEF sc
<1> DEFINE r == [state |-> "live", parent |-> p, scope |-> sc, slug |-> s]
<1>5. r \in Row
  BY <1>2, <1>4 DEF Row, States, Folds
<1>6. r.state = "live" /\ r.parent = p /\ r.scope = sc /\ r.slug = s
  OBVIOUS
<1>7. items' = [items EXCEPT ![i] = r]
  BY <1>1
<1> HIDE DEF r
<1>8. RowsOK(X)' /\ OnlyOpens
  BY <1>2, <1>3, <1>5, <1>6, <1>7, OneRowWritten
<1>9. \A j \in Items : Held(j) => Held(j)'
  BY <1>3, <1>6, <1>7 DEF RowsOK, Held
<1> QED
  BY <1>8, <1>9, PinsUntouched DEF Create, RowsEdited

LEMMA UpdateEdits ==
  ASSUME NEW X, TypeOK, RowsOK(X),
         NEW u \in Users, NEW i \in Items, NEW title \in Titles \cup {Unsaid},
         NEW archive \in Changes, Update(u, i, title, archive),
         archive = "archive" => \A j \in Items : ~(Live(j) /\ Parent(j) = i)
  PROVE  RowsEdited(X) /\ \A j \in Items : Held(j)' = Held(j) /\ Scope(j)' = Scope(j)
<1> DEFINE restoring == archive = "restore" /\ items[i].state = "archived"
           state == IF archive = "archive" THEN "archived" ELSE "live"
<1>1. PICK s : /\ s \in IF title # Unsaid THEN FreeSlug(Parent(i), Scope(i), title, i)
                        ELSE IF restoring THEN FreeSlug(Parent(i), Scope(i), items[i].slug, i)
                        ELSE {items[i].slug}
               /\ items' = [items EXCEPT ![i].slug = s, ![i].state = state]
  BY DEF Update
<1>2. items[i] \in Row /\ Held(i)
  BY DEF RowsOK, Update, VisibleTo
<1> DEFINE r == [state |-> state, parent |-> Parent(i), scope |-> Scope(i), slug |-> s]
<1>3. items' = [items EXCEPT ![i] = r]
  <2>1. [[items[i] EXCEPT !.slug = s] EXCEPT !.state = state]
          \in [state : {state}, parent : {Parent(i)}, scope : {Scope(i)}, slug : {s}]
    BY <1>2 DEF Row, Parent, Scope
  <2>2. [[items[i] EXCEPT !.slug = s] EXCEPT !.state = state] = r
    BY <2>1, OneRecord
  <2> QED
    BY <1>1, <2>2 DEF RowsOK
<1>4. /\ s \in Seq(Nat)
      /\ state = "live" =>
           ~SiblingSlugTaken(Parent(i), Scope(i), s, i) /\ ~IsReservedRootSlug(Parent(i), Scope(i), s)
  <2>1. CASE title # Unsaid
    BY <1>1, <2>1, FreeSlugIsFree, ScopeAssumption
  <2>2. CASE title = Unsaid /\ restoring
    <3>1. items[i].slug \in Seq(Nat)
      BY <1>2 DEF Row
    <3> QED
      BY <1>1, <2>2, <3>1, FreeSlugIsFree
  <2>3. CASE title = Unsaid /\ ~restoring
    <3>1. s = items[i].slug /\ Live(i)
      BY <1>1, <2>3 DEF Update
    <3>2. ~SiblingSlugTaken(Parent(i), Scope(i), s, i)
      BY <3>1 DEF RowsOK, OwnAddress, SiblingSlugTaken, Children
    <3> QED
      BY <1>2, <3>1, <3>2 DEF RowsOK, OwnAddress, Row
  <2> QED
    BY <2>1, <2>2, <2>3
<1>5. r \in Row /\ r.state = state /\ r.parent = Parent(i) /\ r.scope = Scope(i) /\ r.slug = s
  BY <1>2, <1>4 DEF Row, States, Parent, Scope
<1>6. Parent(i) # Root => Held(Parent(i)) /\ Scope(Parent(i)) = Scope(i)
  BY <1>2 DEF RowsOK, OneScopePerSubtree
<1>7. state = "live" /\ Parent(i) # Root => Live(Parent(i)) \/ i \in X
  BY DEF RowsOK, LiveUnderLive, Update
<1>8. state \in {"live", "archived"} /\ (state = "archived" => archive = "archive")
  OBVIOUS
<1> HIDE DEF r, state, restoring
<1>9. RowsOK(X)' /\ OnlyOpens
  <2>1. r.state \in {"live", "archived"} /\ r.scope = Scope(i)
    BY <1>5, <1>8
  <2>2. r.parent # Root => Held(r.parent) /\ Scope(r.parent) = r.scope
    BY <1>5, <1>6
  <2>3. r.state = "live" =>
          /\ ~SiblingSlugTaken(r.parent, r.scope, r.slug, i)
          /\ ~IsReservedRootSlug(r.parent, r.scope, r.slug)
          /\ r.parent # Root => Live(r.parent) \/ i \in X
    BY <1>4, <1>5, <1>7
  <2>4. r.state = "archived" => \A j \in Items \ X : ~(Live(j) /\ Parent(j) = i)
    BY <1>5, <1>8
  <2>5. X \subseteq X
    OBVIOUS
  <2> QED
    BY <1>2, <1>3, <1>5, <2>1, <2>2, <2>3, <2>4, <2>5, OneRowWritten
<1>10. \A j \in Items : Held(j)' = Held(j) /\ Scope(j)' = Scope(j)
  BY <1>2, <1>3, <1>5, <1>8 DEF RowsOK, Held, Scope
<1> QED
  BY <1>9, <1>10, PinsUntouched DEF Update, RowsEdited

LEMMA MoveEdits ==
  ASSUME NEW X, TypeOK, RowsOK(X),
         NEW u \in Users, NEW i \in Items, NEW p \in Folds, Move(u, i, p)
  PROVE  RowsEdited(X) /\ \A j \in Items : Held(j)' = Held(j) /\ Scope(j)' = Scope(j)
<1>1. PICK s \in FreeSlug(p, Scope(i), items[i].slug, i) :
        items' = [items EXCEPT ![i].parent = p, ![i].slug = s]
  BY DEF Move
<1>2. items[i] \in Row /\ Held(i) /\ items[i].state = "live"
  BY DEF RowsOK, Move, Held, Live
<1> DEFINE r == [state |-> "live", parent |-> p, scope |-> Scope(i), slug |-> s]
<1>3. items' = [items EXCEPT ![i] = r]
  <2>1. [[items[i] EXCEPT !.parent = p] EXCEPT !.slug = s]
          \in [state : {"live"}, parent : {p}, scope : {Scope(i)}, slug : {s}]
    BY <1>2 DEF Row, Parent, Scope
  <2>2. [[items[i] EXCEPT !.parent = p] EXCEPT !.slug = s] = r
    BY <2>1, OneRecord
  <2> QED
    BY <1>1, <2>2 DEF RowsOK
<1>4. /\ s \in Seq(Nat)
      /\ ~SiblingSlugTaken(p, Scope(i), s, i) /\ ~IsReservedRootSlug(p, Scope(i), s)
  <2>1. items[i].slug \in Seq(Nat)
    BY <1>2 DEF Row
  <2> QED
    BY <2>1, FreeSlugIsFree
<1>5. r \in Row /\ r.state = "live" /\ r.parent = p /\ r.scope = Scope(i) /\ r.slug = s
  BY <1>2, <1>4 DEF Row, States, Folds, Scope
<1>6. p # Root => Held(p) /\ Live(p) /\ Scope(p) = Scope(i)
  BY DEF Move, AssertFolder, VisibleTo
<1> HIDE DEF r
<1>7. RowsOK(X)' /\ OnlyOpens
  BY <1>2, <1>3, <1>4, <1>5, <1>6, OneRowWritten
<1>8. \A j \in Items : Held(j)' = Held(j) /\ Scope(j)' = Scope(j)
  BY <1>2, <1>3, <1>5 DEF RowsOK, Held, Scope
<1> QED
  BY <1>7, <1>8, PinsUntouched DEF Move, RowsEdited

LEMMA ArchiveEdits ==
  ASSUME NEW X, TypeOK, RowsOK(X), pinning' = pinning,
         UNCHANGED <<household, personal>>,
         NEW S \in SUBSET Items, items' = Archived(S), \A i \in S : Live(i),
         \A i \in Items \ X : Live(i) /\ Parent(i) \in S => i \in S
  PROVE  RowsEdited(X) /\ \A j \in Items : Held(j)' = Held(j) /\ Scope(j)' = Scope(j)
<1>1. RowsOK(X)' /\ OnlyOpens
  BY RowsArchived
<1>2. ASSUME NEW j \in Items
      PROVE  Held(j)' = Held(j) /\ Scope(j)' = Scope(j)
  <2>1. CASE j \in S
    <3>1. items'[j].state = "archived" /\ items'[j].scope = items[j].scope
      BY <2>1 DEF RowsOK, Row, Archived
    <3> QED
      BY <2>1, <3>1 DEF Held, Live, Scope
  <2>2. CASE j \notin S
    BY <2>2 DEF Archived, Held, Scope
  <2> QED
    BY <2>1, <2>2
<1> QED
  BY <1>1, <1>2, PinsUntouched DEF RowsEdited

LEMMA PurgeEdits ==
  ASSUME NEW X, TypeOK, RowsOK(X), pinning' = pinning,
         NEW S \in SUBSET Items, Purge(S),
         \A i \in Items : Held(i) /\ Parent(i) \in S => i \in S
  PROVE  RowsEdited(X)
<1>1. RowsOK(X)' /\ OnlyOpens
  BY RowsPurged
<1>2. \A i \in Items \ S : items'[i] = items[i]
  BY DEF Purge
<1>3. household' = household \ S /\ personal' = {up \in personal : up[2] \notin S}
  BY DEF Purge
<1>4. /\ \A d \in household' : d \in household /\ d \in Items \ S
      /\ \A up \in personal' : up \in personal /\ up[2] \in Items \ S
  BY <1>3 DEF TypeOK, Items
<1> QED
  BY <1>1, <1>2, <1>4 DEF RowsEdited, PinsFollow, Held

LEMMA DeleteLeafEdits ==
  ASSUME NEW X, TypeOK, RowsOK(X),
         NEW u \in Users, NEW d \in Leaves, NEW hard \in BOOLEAN, DeleteLeaf(u, d, hard)
  PROVE  RowsEdited(X)
<1>1. d \in Items /\ \A i \in Items : Parent(i) # d
  BY ScopeAssumption DEF RowsOK, Row, Items, Parent
<1>2. CASE Purge({d})
  BY <1>1, <1>2, PurgeEdits DEF DeleteLeaf
<1>3. CASE Live(d) /\ items' = Archived({d}) /\ UNCHANGED <<household, personal>>
  BY <1>1, <1>3, ArchiveEdits DEF DeleteLeaf
<1> QED
  BY <1>2, <1>3 DEF DeleteLeaf

\* The live rows below a folder: nothing live is left filed in one of them.
LEMMA ArchiveSubtreeEdits ==
  ASSUME NEW X, TypeOK, RowsOK(X), pinning' = pinning,
         NEW u \in Users, NEW f \in Folders, NEW cascade \in BOOLEAN, ArchiveSubtree(u, f, cascade)
  PROVE  RowsEdited(X) /\ \A j \in Items : Held(j)' = Held(j) /\ Scope(j)' = Scope(j)
<1> DEFINE fs == DescendantFolders(f, FALSE)
           S == {i \in fs \cup InFolders(fs) : Live(i)}
<1>1. /\ fs \subseteq Folders
      /\ \A h \in Folders : Parent(h) \in fs /\ Held(h) /\ Live(h) => h \in fs
  BY DescendantsClosed
<1>2. InFolders(fs) = {d \in Leaves : Held(d) /\ Parent(d) \in fs}
  BY DEF InFolders
<1>3. items' = Archived({i \in Items : i \in S}) /\ UNCHANGED <<household, personal>>
  BY DEF ArchiveSubtree, Archived
<1>4. \A i \in Items : Live(i) => Held(i)
  BY DEF Live, Held
<1> HIDE DEF fs
<1>5. ASSUME NEW i \in Items, Live(i), Parent(i) \in S
      PROVE  i \in S
  <2>1. Parent(i) \in fs
    <3>1. Parent(i) \in Folders \cup {Root} /\ Parent(i) \in fs \cup Leaves
      BY <1>2, <1>5 DEF RowsOK, Row, Parent
    <3> QED
      BY <1>1, <3>1, ScopeAssumption DEF Items
  <2> QED
    BY <1>1, <1>2, <1>4, <1>5, <2>1 DEF Items
<1>6. S \in SUBSET Items /\ \A i \in S : Live(i)
  BY <1>1, <1>2 DEF Items
<1> HIDE DEF S
<1>7. {i \in Items : i \in S} = S
  BY <1>6
<1> QED
  BY <1>3, <1>5, <1>6, <1>7, ArchiveEdits

LEMMA PublishEdits ==
  ASSUME NEW X, TypeOK, RowsOK(X),
         NEW u \in Users, NEW i \in Items, NEW p \in Folds, Publish(u, i, p)
  PROVE  /\ RowsEdited(X)
         /\ \E S \in SUBSET Items :
              /\ \A j \in S : Held(j) /\ Scope(j) = u
              /\ \A j \in Items : Held(j)' = Held(j) /\ Scope(j)' = IF j \in S THEN Shared ELSE Scope(j)
<1> DEFINE S == IF i \in Folders THEN Subtree(i) ELSE {i}
<1>1. Live(i) /\ Scope(i) = u /\ Held(i)
  BY DEF Publish, Live, Held
<1>2. p # Root => Live(p) /\ Scope(p) = Shared
  BY DEF Publish, AssertFolder, ScopeUnder
<1>3. PICK s \in FreeSlug(p, Shared, items[i].slug, i) :
        items' = [j \in Items |->
                     IF j = i THEN [items[i] EXCEPT !.scope = Shared, !.parent = p, !.slug = s]
                     ELSE IF j \in S THEN [items[j] EXCEPT !.scope = Shared] ELSE items[j]]
  BY DEF Publish
<1>4. /\ s \in Seq(Nat)
      /\ ~SiblingSlugTaken(p, Shared, s, i) /\ ~IsReservedRootSlug(p, Shared, s)
  <2>1. items[i].slug \in Seq(Nat)
    BY DEF RowsOK, Row
  <2> QED
    BY <2>1, FreeSlugIsFree
<1>5. /\ i \in S /\ S \in SUBSET Items
      /\ \A j \in S : Held(j) /\ Scope(j) = u
      /\ \A j \in Items : Held(j) /\ Parent(j) \in S => j \in S
      /\ \A j \in S \ {i} : Parent(j) \in S
  <2>1. CASE i \in Folders
    BY <1>1, <2>1, SubtreeClosed DEF RowsOK
  <2>2. CASE i \notin Folders
    <3>1. \A j \in Items : Parent(j) # i
      BY <2>2, ScopeAssumption DEF RowsOK, Row, Parent, Items
    <3> QED
      BY <1>1, <2>2, <3>1
  <2> QED
    BY <2>1, <2>2
<1> HIDE DEF S
<1>6. RowsOK(X)' /\ OnlyOpens
  BY <1>1, <1>2, <1>3, <1>4, <1>5, SubtreeShared DEF Folds
<1>7. ASSUME NEW j \in Items
      PROVE  Held(j)' = Held(j) /\ Scope(j)' = IF j \in S THEN Shared ELSE Scope(j)
  <2>1. items[j] \in Row
    BY DEF RowsOK
  <2>2. CASE j = i
    BY <1>3, <1>5, <2>1, <2>2 DEF Row, Held, Scope
  <2>3. CASE j # i
    BY <1>3, <2>1, <2>3 DEF Row, Held, Scope
  <2> QED
    BY <2>2, <2>3
<1> QED
  BY <1>5, <1>6, <1>7, PinsUntouched DEF Publish, RowsEdited

\* How either tree deletes a folder; the documents' adds conditions to the hard one.
DeleteTree(u, f, cascade, hard) ==
  /\ IF hard THEN u \in Admins /\ Held(f) /\ Purge(Subtree(f)) ELSE ArchiveSubtree(u, f, cascade)
  /\ by' = u
  /\ UNCHANGED pinning

LEMMA DeleteTreeEdits ==
  ASSUME NEW X, TypeOK, RowsOK(X),
         NEW u \in Users, NEW f \in Folders, NEW cascade \in BOOLEAN, NEW hard \in BOOLEAN,
         DeleteTree(u, f, cascade, hard)
  PROVE  RowsEdited(X)
<1>1. pinning' = pinning
  BY DEF DeleteTree
<1>2. CASE hard
  <2>1. Held(f) /\ Purge(Subtree(f))
    BY <1>2 DEF DeleteTree
  <2>2. /\ Subtree(f) \in SUBSET Items
        /\ \A i \in Items : Held(i) /\ Parent(i) \in Subtree(f) => i \in Subtree(f)
    BY <2>1, SubtreeClosed DEF RowsOK
  <2> QED
    BY <1>1, <2>1, <2>2, PurgeEdits
<1>3. CASE ~hard
  BY <1>1, <1>3, ArchiveSubtreeEdits DEF DeleteTree
<1> QED
  BY <1>2, <1>3

\* A hand-over's row is written under its folder although the folder may have been
\* deleted meanwhile, and is then one of the slipped.
LEMMA AcceptEdits ==
  ASSUME NEW X, NEW Y, X = slipped, Y = slipped', TypeOK, RowsOK(X), AcceptingOK,
         NEW c \in accepting, NEW title \in Titles, AcceptBlob(c, title)
  PROVE  RowsEdited(Y)
<1>1. c[2] \in Leaves /\ c[3] \in Folders /\ X \subseteq Y
  BY DEF AcceptingOK, AcceptBlob
<1>2. CASE Held(c[3]) /\ items[c[2]].state = "new"
  <2>1. PICK s \in FreeSlug(c[3], Shared, title, c[2]) :
          items' = [items EXCEPT ![c[2]] = [state |-> "live", parent |-> c[3],
                                            scope |-> Shared, slug |-> s]]
    BY <1>2 DEF AcceptBlob
  <2>2. /\ s \in Seq(Nat)
        /\ ~SiblingSlugTaken(c[3], Shared, s, c[2]) /\ ~IsReservedRootSlug(c[3], Shared, s)
    BY FreeSlugIsFree, ScopeAssumption
  <2>3. Scope(c[3]) = Shared /\ (Live(c[3]) \/ c[2] \in Y)
    BY <1>2 DEF AcceptingOK, AcceptBlob
  <2> DEFINE r == [state |-> "live", parent |-> c[3], scope |-> Shared, slug |-> s]
  <2>4. r \in Row /\ r.state = "live" /\ r.parent = c[3] /\ r.scope = Shared /\ r.slug = s
    BY <1>1, <2>2 DEF Row, States, Scopes
  <2>5. items' = [items EXCEPT ![c[2]] = r]
    BY <2>1
  <2> HIDE DEF r
  <2>6. RowsOK(Y)' /\ OnlyOpens
    <3>1. c[2] \in Items /\ r.state \in {"live", "archived"}
      BY <1>1, <2>4 DEF Items
    <3>2. r.parent # Root => Held(r.parent) /\ Scope(r.parent) = r.scope
      BY <1>2, <2>3, <2>4
    <3>3. r.state = "live" =>
            /\ ~SiblingSlugTaken(r.parent, r.scope, r.slug, c[2])
            /\ ~IsReservedRootSlug(r.parent, r.scope, r.slug)
            /\ r.parent # Root => Live(r.parent) \/ c[2] \in Y
      BY <2>2, <2>3, <2>4
    <3>4. r.state = "archived" => \A j \in Items \ X : ~(Live(j) /\ Parent(j) = c[2])
      BY <2>4
    <3>5. PICK d \in Items : d = c[2]
      BY <3>1
    <3>6. items' = [items EXCEPT ![d] = r] /\ items[d].state = "new"
      BY <1>2, <2>5, <3>5
    <3>7. r.state = "live" =>
            /\ ~SiblingSlugTaken(r.parent, r.scope, r.slug, d)
            /\ ~IsReservedRootSlug(r.parent, r.scope, r.slug)
            /\ r.parent # Root => Live(r.parent) \/ d \in Y
      BY <3>3, <3>5
    <3>8. r.state = "archived" => \A j \in Items \ X : ~(Live(j) /\ Parent(j) = d)
      BY <3>4, <3>5
    <3> QED
      BY <1>1, <2>4, <3>1, <3>2, <3>6, <3>7, <3>8, OneRowWritten
  <2>7. \A j \in Items : Held(j) => Held(j)'
    BY <1>1, <1>2, <2>4, <2>5 DEF RowsOK, Held
  <2> QED
    BY <2>6, <2>7, PinsUntouched DEF AcceptBlob, RowsEdited
<1>3. CASE ~(Held(c[3]) /\ items[c[2]].state = "new")
  <2>1. X = Y /\ UNCHANGED <<items, household, personal, pinning>>
    BY <1>3 DEF AcceptBlob
  <2>2. RowsOK(Y)' /\ OnlyOpens
    BY <2>1, RowsUnchanged
  <2>3. \A j \in Items : Held(j) => Held(j)'
    BY <2>1 DEF Held
  <2> QED
    BY <2>1, <2>2, <2>3, PinsUntouched DEF RowsEdited
<1> QED
  BY <1>2, <1>3

-----------------------------------------------------------------------------
(* The steps of a tree, the documents' or the notes' *)

RowStep(u) == \E i \in Items :
  \/ \E p \in Folds, said \in CreateScopes(u), title \in Titles : Create(u, i, p, said, title)
  \/ \E title \in Titles \cup {Unsaid}, change \in Changes :
       /\ change = "archive" => \A j \in Items : ~(Live(j) /\ Parent(j) = i)
       /\ Update(u, i, title, change)
  \/ \E p \in Folds :
       \/ (i \in Folders => ~WouldCycle(u, i, p)) /\ Move(u, i, p)
       \/ Publish(u, i, p)

DeleteStep(u) == \E hard \in BOOLEAN :
  \/ \E d \in Leaves : DeleteLeaf(u, d, hard)
  \/ \E f \in Folders, cascade \in BOOLEAN : DeleteTree(u, f, cascade, hard)

PinStep(u) == \E d \in Leaves, everyone \in BOOLEAN : PinRead(u, d, everyone) \/ Unpin(u, d, everyone)

TreeStep ==
  \/ \E u \in Users : RowStep(u) \/ DeleteStep(u) \/ PinStep(u)
  \/ \E c \in pinning : PinInsert(c)

\* A document has nothing filed in it.
LEMMA NothingInLeaves == ASSUME TypeOK, NEW d \in Leaves PROVE d \in Items /\ \A i \in Items : Parent(i) # d
BY ScopeAssumption DEF TypeOK, Row, Parent, Items

LEMMA RowStepEdits ==
  ASSUME NEW X, TypeOK, RowsOK(X), NEW u \in Users, RowStep(u) \/ DeleteStep(u)
  PROVE  RowsEdited(X) /\ by' = u
<1>1. ASSUME NEW i \in Items, NEW p \in Folds, NEW said \in CreateScopes(u), NEW title \in Titles,
             Create(u, i, p, said, title)
      PROVE  RowsEdited(X) /\ by' = u
  BY <1>1, CreateEdits DEF Create
<1>2. ASSUME NEW i \in Items, NEW title \in Titles \cup {Unsaid}, NEW change \in Changes,
             change = "archive" => \A j \in Items : ~(Live(j) /\ Parent(j) = i),
             Update(u, i, title, change)
      PROVE  RowsEdited(X) /\ by' = u
  BY <1>2, UpdateEdits DEF Update
<1>3. ASSUME NEW i \in Items, NEW p \in Folds, Move(u, i, p)
      PROVE  RowsEdited(X) /\ by' = u
  BY <1>3, MoveEdits DEF Move
<1>4. ASSUME NEW i \in Items, NEW p \in Folds, Publish(u, i, p)
      PROVE  RowsEdited(X) /\ by' = u
  BY <1>4, PublishEdits DEF Publish
<1>5. ASSUME NEW d \in Leaves, NEW hard \in BOOLEAN, DeleteLeaf(u, d, hard)
      PROVE  RowsEdited(X) /\ by' = u
  BY <1>5, DeleteLeafEdits DEF DeleteLeaf
<1>6. ASSUME NEW f \in Folders, NEW cascade \in BOOLEAN, NEW hard \in BOOLEAN,
             DeleteTree(u, f, cascade, hard)
      PROVE  RowsEdited(X) /\ by' = u
  BY <1>6, DeleteTreeEdits DEF DeleteTree
<1> QED
  BY <1>1, <1>2, <1>3, <1>4, <1>5, <1>6 DEF RowStep, DeleteStep

\* An edit of rows leaves a pin on something its holder sees, and leaves a call that is
\* about to pin a row it has read right about it, unless the row is gone.
LEMMA EditKeepsInv ==
  ASSUME NEW X, NEW Y, TreeInv(X), RowsEdited(Y), by' \in Users
  PROVE  TreeInv(Y)'
<1>1. /\ RowsOK(Y)' /\ pinning' = pinning
      /\ \A i \in Items : /\ items[i].state # "new" => items'[i].state # "new"
                          /\ Held(i)' => items[i].state = "new"
                                           \/ (Held(i) /\ Scope(i)' \in {Scope(i), Shared})
      /\ \A d \in household' : d \in household /\ (Held(d) => Held(d)')
      /\ \A up \in personal' : up \in personal /\ (Held(up[2]) => Held(up[2])')
  BY DEF RowsEdited, OnlyOpens, PinsFollow
<1>2. /\ household \subseteq Leaves /\ personal \subseteq Users \X Leaves
      /\ pinning \subseteq Users \X Leaves \X BOOLEAN /\ Leaves \subseteq Items
  BY DEF TreeInv, TypeOK, Items
<1>3. TypeOK'
  BY <1>1, <1>2 DEF TypeOK, RowsOK
<1>4. \A i \in Items : Held(i) => items[i].state # "new"
  BY DEF Held
<1>5. PinsAreSeen'
  <2>1. ASSUME NEW d \in household'
        PROVE  Held(d)' /\ Scope(d)' = Shared
    <3>1. d \in household /\ d \in Items /\ Held(d) /\ Scope(d) = Shared
      BY <1>1, <1>2 DEF TreeInv, PinsAreSeen
    <3> QED
      BY <1>1, <1>4, <3>1
  <2>2. ASSUME NEW up \in personal'
        PROVE  Held(up[2])' /\ Scope(up[2])' \in {Shared, up[1]}
    <3>1. up \in personal /\ up[2] \in Items /\ Held(up[2]) /\ Scope(up[2]) \in {Shared, up[1]}
      BY <1>1, <1>2 DEF TreeInv, PinsAreSeen, VisibleTo
    <3> QED
      BY <1>1, <1>4, <3>1
  <2> QED
    BY <2>1, <2>2 DEF PinsAreSeen, VisibleTo
<1>6. PinningOK'
  <2> SUFFICES ASSUME NEW c \in pinning
               PROVE  /\ items'[c[2]].state # "new"
                      /\ Held(c[2])' => Scope(c[2])' \in {Shared, c[1]} /\ (c[3] => Scope(c[2])' = Shared)
    BY <1>1 DEF PinningOK
  <2>1. /\ c[2] \in Items /\ items[c[2]].state # "new"
        /\ Held(c[2]) => Scope(c[2]) \in {Shared, c[1]} /\ (c[3] => Scope(c[2]) = Shared)
    BY <1>2 DEF TreeInv, PinningOK
  <2> QED
    BY <1>1, <2>1
<1> QED
  BY <1>1, <1>3, <1>5, <1>6 DEF TreeInv

LEMMA PinReadKeepsInv ==
  ASSUME NEW X, TreeInv(X), NEW u \in Users, NEW d \in Leaves, NEW everyone \in BOOLEAN,
         PinRead(u, d, everyone)
  PROVE  TreeInv(X)'
<1>1. UNCHANGED <<items, household, personal>> /\ pinning' = {<<u, d, everyone>>} /\ by' = u
  BY DEF PinRead
<1>2. /\ items[d].state # "new" /\ Scope(d) \in {Shared, u} /\ (everyone => Scope(d) = Shared)
  BY DEF PinRead, VisibleTo, Held
<1>3. PinningOK'
  BY <1>1, <1>2 DEF PinningOK, Held, Scope
<1>4. TypeOK' /\ PinsAreSeen'
  BY <1>1 DEF TreeInv, TypeOK, PinsAreSeen, VisibleTo, Held, Scope
<1> QED
  BY <1>1, <1>3, <1>4, RowsUnchanged DEF TreeInv

LEMMA PinInsertKeepsInv ==
  ASSUME NEW X, TreeInv(X), NEW c \in pinning, PinInsert(c)
  PROVE  TreeInv(X)' /\ UNCHANGED items /\ c[1] \in Users /\ by' = c[1]
<1>1. /\ UNCHANGED items /\ pinning' \subseteq pinning /\ by' = c[1]
      /\ household' \subseteq household \cup {c[2]} /\ personal' \subseteq personal \cup {<<c[1], c[2]>>}
      /\ household' # household => Held(c[2]) /\ c[3]
      /\ personal' # personal => Held(c[2])
  BY DEF PinInsert
<1>2. /\ c[1] \in Users /\ c[2] \in Leaves
      /\ Held(c[2]) => Scope(c[2]) \in {Shared, c[1]} /\ (c[3] => Scope(c[2]) = Shared)
  BY DEF TreeInv, TypeOK, PinningOK
<1>3. TypeOK'
  BY <1>1, <1>2 DEF TreeInv, TypeOK
<1>4. PinsAreSeen'
  <2>1. \A d \in household' : Held(d) /\ Scope(d) = Shared
    BY <1>1, <1>2 DEF TreeInv, PinsAreSeen
  <2>2. \A up \in personal' : Held(up[2]) /\ Scope(up[2]) \in {Shared, up[1]}
    BY <1>1, <1>2 DEF TreeInv, PinsAreSeen, VisibleTo
  <2> QED
    BY <1>1, <2>1, <2>2 DEF PinsAreSeen, VisibleTo, Held, Scope
<1>5. PinningOK'
  BY <1>1 DEF TreeInv, PinningOK, Held, Scope
<1> QED
  BY <1>1, <1>2, <1>3, <1>4, <1>5, RowsUnchanged DEF TreeInv

LEMMA UnpinKeepsInv ==
  ASSUME NEW X, TreeInv(X), NEW u \in Users, NEW d \in Leaves, NEW everyone \in BOOLEAN,
         Unpin(u, d, everyone)
  PROVE  TreeInv(X)'
<1>1. /\ UNCHANGED <<items, pinning>> /\ by' = u
      /\ household' \subseteq household /\ personal' \subseteq personal
  BY DEF Unpin
<1>2. TypeOK' /\ PinsAreSeen' /\ PinningOK'
  BY <1>1 DEF TreeInv, TypeOK, PinsAreSeen, PinningOK, VisibleTo, Held, Scope
<1> QED
  BY <1>1, <1>2, RowsUnchanged DEF TreeInv

LEMMA TreeStepKeepsInv ==
  ASSUME NEW X, TreeInv(X), TreeStep
  PROVE  TreeInv(X)' /\ OnlyOpens
<1>1. TypeOK /\ RowsOK(X)
  BY DEF TreeInv
<1>2. ASSUME NEW u \in Users, RowStep(u) \/ DeleteStep(u)
      PROVE  TreeInv(X)' /\ OnlyOpens
  <2>1. RowsEdited(X) /\ by' = u
    BY <1>1, <1>2, RowStepEdits
  <2> QED
    BY <2>1, EditKeepsInv DEF RowsEdited
<1>3. ASSUME NEW u \in Users, PinStep(u)
      PROVE  TreeInv(X)' /\ OnlyOpens
  <2>1. UNCHANGED items
    BY <1>3 DEF PinStep, PinRead, Unpin
  <2> QED
    BY <1>1, <1>3, <2>1, PinReadKeepsInv, UnpinKeepsInv, RowsUnchanged DEF PinStep
<1>4. ASSUME NEW c \in pinning, PinInsert(c)
      PROVE  TreeInv(X)' /\ OnlyOpens
  BY <1>1, <1>4, PinInsertKeepsInv, RowsUnchanged
<1> QED
  BY <1>2, <1>3, <1>4 DEF TreeStep

LEMMA TreeInvStutters ==
  ASSUME NEW X, TreeInv(X), UNCHANGED <<items, household, personal, pinning>>, by' \in Users
  PROVE  TreeInv(X)'
<1>1. TypeOK' /\ PinsAreSeen' /\ PinningOK'
  BY DEF TreeInv, TypeOK, PinsAreSeen, PinningOK, VisibleTo, Held, Scope
<1> QED
  BY <1>1, RowsUnchanged DEF TreeInv

LEMMA TreeInvInit == ASSUME TreeInit PROVE TreeInv({})
<1>1. /\ items = [i \in Items |-> NoRow("new")] /\ household = {} /\ personal = {} /\ pinning = {}
      /\ by \in Users
  BY DEF TreeInit
<1>2. \A i \in Items : items[i].state = "new" /\ ~Held(i) /\ ~Live(i)
  BY <1>1 DEF NoRow, Held, Live
<1>3. items \in [Items -> Row]
  <2>1. <<>> \in Seq(Nat)
    OBVIOUS
  <2>2. NoRow("new") \in Row
    BY <2>1 DEF NoRow, Row, States, Scopes
  <2> QED
    BY <1>1, <2>2
<1> QED
  BY <1>1, <1>2, <1>3
     DEF TreeInv, RowsOK, TypeOK, OneScopePerSubtree, PinningOK, PinsAreSeen, OwnAddress, LiveUnderLive

-----------------------------------------------------------------------------
(* Addresses: the climb from a row and the walk back to it *)

\* Of some natural numbers one is the least: the first at which a claim fails.
LEMMA LeastMember ==
  ASSUME NEW T, T \subseteq Nat, T # {}
  PROVE  \E x \in T : \A y \in T : x <= y
<1>1. IsWellFoundedOn(OpToRel(<, Nat), Nat)
  BY NatLessThanWellFounded
<1>2. PICK x \in T : \A y \in T : ~(<<y, x>> \in OpToRel(<, Nat))
  BY <1>1, WFMin
<1>3. \A y \in T : ~(y < x)
  BY <1>2 DEF OpToRel
<1> QED
  BY <1>3

Climbs(g, i, n) ==
  g = [k \in 0 .. n |-> IF k = 0 THEN Parent(i) ELSE IF g[k - 1] = Root THEN Root ELSE Parent(g[k - 1])]

\* What the address of a row is read from: a climb of as many steps as there are folders.
Climb(i) == CHOOSE g : Climbs(g, i, Cardinality(Folders))
Depth(i) == Cardinality({k \in DOMAIN Climb(i) : Climb(i)[k] # Root})

LEMMA AncestorsClimb ==
  ASSUME NEW i
  PROVE  Ancestors(i) = [k \in 1 .. Depth(i) |-> Climb(i)[Depth(i) - k]]
BY DEF Ancestors, Climbs, Climb, Depth

\* There is a climb of any length.
LEMMA ClimbExists ==
  ASSUME NEW i, NEW n \in Nat
  PROVE  \E g : Climbs(g, i, n)
<1> DEFINE N == {m \in Nat : ~ \E g : Climbs(g, i, m)}
<1> SUFFICES ASSUME N # {} PROVE FALSE
  OBVIOUS
<1>1. PICK m \in N : \A l \in N : m <= l
  BY LeastMember
<1>2. CASE m = 0
  <2>1. Climbs([k \in 0 .. 0 |-> Parent(i)], i, 0)
    BY DEF Climbs
  <2> QED
    BY <1>1, <1>2, <2>1
<1>3. CASE m # 0
  <2>1. m - 1 \in Nat /\ m - 1 \notin N /\ m \in Nat
    BY <1>1, <1>3
  <2>2. PICK h : Climbs(h, i, m - 1)
    BY <2>1
  <2> DEFINE g == [k \in 0 .. m |-> IF k = 0 THEN Parent(i)
                                    ELSE IF h[k - 1] = Root THEN Root ELSE Parent(h[k - 1])]
  <2>3. \A k \in 0 .. m - 1 : k \in 0 .. m /\ h[k] = g[k]
    BY <2>1, <2>2 DEF Climbs
  <2>4. \A k \in 0 .. m : k # 0 => k - 1 \in 0 .. m - 1
    BY <2>1
  <2>5. \A k \in 0 .. m : g[k] = IF k = 0 THEN Parent(i)
                                 ELSE IF g[k - 1] = Root THEN Root ELSE Parent(g[k - 1])
    BY <2>3, <2>4
  <2>6. g = [k \in 0 .. m |-> g[k]]
    OBVIOUS
  <2> HIDE DEF g
  <2>7. Climbs(g, i, m)
    BY <2>5, <2>6 DEF Climbs
  <2> QED
    BY <1>1, <2>7
<1> QED
  BY <1>2, <1>3

\* The climb of a live row passes through live folders of its scope and ends at the root.
LEMMA ClimbEnds ==
  ASSUME NEW X, RowsOK(X), NoLoop, X \cap Folders = {}, NEW i \in Items \ X, Live(i)
  PROVE  /\ Depth(i) \in 0 .. Cardinality(Folders)
         /\ \A k \in 0 .. Cardinality(Folders) :
              /\ Climb(i)[k] \in Folders \cup {Root}
              /\ Climb(i)[k] # Root <=> k < Depth(i)
              /\ k < Depth(i) => Live(Climb(i)[k]) /\ Scope(Climb(i)[k]) = Scope(i)
         /\ Climb(i)[0] = Parent(i)
         /\ \A k \in 1 .. Depth(i) : Climb(i)[k] = Parent(Climb(i)[k - 1])
<1> DEFINE up == Climb(i)
           N == Cardinality(Folders)
<1>1. IsFiniteSet(Folders) /\ N \in Nat /\ Root \notin Folders
  BY ScopeAssumption, FS_Subset, FS_CardinalityType DEF Items
<1>2. Climbs(up, i, N)
  BY <1>1, ClimbExists DEF Climb
<1>3. \A k \in 0 .. N : up[k] = IF k = 0 THEN Parent(i)
                                ELSE IF up[k - 1] = Root THEN Root ELSE Parent(up[k - 1])
  BY <1>2 DEF Climbs
<1>4. DOMAIN up = 0 .. N
  BY <1>2 DEF Climbs
<1>5. \A j \in Items : Parent(j) \in Folders \cup {Root}
  BY DEF RowsOK, Row, Parent
<1>6. \A j \in Items \ X : Live(j) /\ Parent(j) # Root =>
        Parent(j) \in Folders /\ Live(Parent(j)) /\ Scope(Parent(j)) = Scope(j)
  BY <1>5 DEF RowsOK, LiveUnderLive, OneScopePerSubtree, Live, Held
<1>7. \A f \in Folders : f \in Items \ X
  BY DEF Items
<1> HIDE DEF up, N
<1> DEFINE Good(k) == up[k] # Root => up[k] \in Folders /\ Live(up[k]) /\ Scope(up[k]) = Scope(i)
<1>8. \A k \in 0 .. N : Good(k)
  <2> DEFINE T == {k \in 0 .. N : ~Good(k)}
  <2> SUFFICES ASSUME T # {} PROVE FALSE
    OBVIOUS
  <2>1. T \subseteq Nat
    BY <1>1
  <2>2. PICK k \in T : \A l \in T : k <= l
    BY <2>1, LeastMember
  <2>3. k # 0
    BY <1>1, <1>3, <1>6, <2>2
  <2>4. k - 1 \in 0 .. N /\ Good(k - 1) /\ k \in 0 .. N
    BY <1>1, <2>2, <2>3
  <2>5. up[k - 1] # Root /\ up[k] = Parent(up[k - 1])
    BY <1>3, <2>2, <2>3, <2>4
  <2> QED
    BY <1>6, <1>7, <2>2, <2>4, <2>5
<1>9. \A k \in 0 .. N : up[k] = Root => \A l \in k .. N : up[l] = Root
  <2> SUFFICES ASSUME NEW k \in 0 .. N, up[k] = Root, \E l \in k .. N : up[l] # Root
               PROVE  FALSE
    OBVIOUS
  <2> DEFINE T == {l \in k .. N : up[l] # Root}
  <2>1. T \subseteq Nat /\ T # {}
    BY <1>1
  <2>2. PICK l \in T : \A m \in T : l <= m
    BY <2>1, LeastMember
  <2>3. l # k /\ l - 1 \in k .. N /\ up[l - 1] = Root /\ l \in 1 .. N
    BY <1>1, <2>2
  <2> QED
    BY <1>1, <1>3, <2>2, <2>3
<1>10. up[N] = Root
  <2> SUFFICES ASSUME up[N] # Root PROVE FALSE
    OBVIOUS
  <2>1. \A k \in 0 .. N : up[k] # Root
    BY <1>1, <1>9
  <2>2. \A k \in 0 .. N : up[k] \in Folders
    BY <1>8, <2>1
  <2>3. PICK a, b \in 0 .. N : a < b /\ up[a] = up[b]
    <3>1. up \in [0 .. N -> Folders]
      BY <1>2, <2>2 DEF Climbs
    <3>2. IsFiniteSet(0 .. N) /\ Cardinality(0 .. N) = N + 1
      BY <1>1, FS_Interval
    <3>3. N < N + 1 /\ N = Cardinality(Folders)
      BY <1>1 DEF N
    <3>4. PICK a, b \in 0 .. N : a # b /\ up[a] = up[b]
      BY <1>1, <3>1, <3>2, <3>3, FS_PigeonHole
    <3>5. a < b \/ b < a
      BY <1>1, <3>4
    <3> QED
      BY <3>4, <3>5
  <2> DEFINE F == {up[k] : k \in a .. b - 1}
  <2>4. F # {} /\ F \in SUBSET Folders
    BY <1>1, <2>2, <2>3
  <2>5. \A f \in F : Held(f)
    BY <1>1, <1>8, <2>1, <2>3 DEF Live, Held
  <2>6. PICK k \in a .. b - 1 : Parent(up[k]) \notin F
    BY <2>4, <2>5 DEF NoLoop
  <2>7. k + 1 \in 0 .. N /\ up[k + 1] = Parent(up[k])
    BY <1>1, <1>3, <2>1, <2>3, <2>6
  <2>8. CASE k + 1 = b
    <3>1. a \in a .. b - 1
      BY <1>1, <2>3
    <3> QED
      BY <2>3, <2>6, <2>7, <2>8, <3>1
  <2>9. CASE k + 1 # b
    <3>1. k + 1 \in a .. b - 1
      BY <1>1, <2>3, <2>6, <2>9
    <3> QED
      BY <2>6, <2>7, <3>1
  <2> QED
    BY <2>8, <2>9
<1>11. PICK d \in 0 .. N : up[d] = Root /\ \A k \in 0 .. N : up[k] = Root => d <= k
  <2> DEFINE T == {k \in 0 .. N : up[k] = Root}
  <2>1. T \subseteq Nat /\ T # {}
    BY <1>1, <1>10
  <2>2. PICK k \in T : \A l \in T : k <= l
    BY <2>1, LeastMember
  <2> QED
    BY <2>2
<1>12. \A k \in 0 .. N : up[k] # Root <=> k < d
  BY <1>1, <1>9, <1>11
<1>13. Depth(i) = d
  <2>1. {k \in DOMAIN up : up[k] # Root} = 0 .. d - 1
    BY <1>1, <1>4, <1>12
  <2>2. Cardinality(0 .. d - 1) = d
    BY <1>1, FS_Interval
  <2> QED
    BY <2>1, <2>2 DEF Depth, up
<1>14. \A k \in 1 .. d : up[k] = Parent(up[k - 1])
  <2> SUFFICES ASSUME NEW k \in 1 .. d PROVE up[k] = Parent(up[k - 1])
    OBVIOUS
  <2>1. k - 1 \in 0 .. N /\ k - 1 < d /\ k \in 0 .. N /\ k # 0
    BY <1>1
  <2> QED
    BY <1>3, <1>12, <2>1
<1>15. up[0] = Parent(i)
  BY <1>1, <1>3
<1> QED
  BY <1>8, <1>12, <1>13, <1>14, <1>15 DEF up, N

\* What the rows of a place are called apart from the row itself: nothing else there has its slug.
LEMMA NamedAlone ==
  ASSUME OwnAddress, NEW i \in Items, Live(i), NEW p, NEW sc,
         ParentKey(Parent(i), Scope(i)) = ParentKey(p, sc)
  PROVE  {j \in Children(p, sc) : items[j].slug = items[i].slug} = {i}
<1>1. i \in Children(p, sc)
  BY DEF Children
<1>2. \A j \in Children(p, sc) : items[j].slug = items[i].slug => j = i
  BY DEF Children, OwnAddress
<1> QED
  BY <1>1, <1>2

\* The folders above a live row, from the root down: each in the one before it, and the row
\* in the last.
LEMMA AncestorsLead ==
  ASSUME NEW X, RowsOK(X), NoLoop, X \cap Folders = {}, NEW i \in Items \ X, Live(i)
  PROVE  \E d \in Nat :
           /\ Ancestors(i) \in [1 .. d -> Folders]
           /\ \A k \in 1 .. d : /\ Live(Ancestors(i)[k]) /\ Scope(Ancestors(i)[k]) = Scope(i)
                               /\ Parent(Ancestors(i)[k]) = IF k = 1 THEN Root ELSE Ancestors(i)[k - 1]
           /\ Parent(i) = IF d = 0 THEN Root ELSE Ancestors(i)[d]
<1> DEFINE up == Climb(i)
           d == Depth(i)
           A == Ancestors(i)
<1>1. Cardinality(Folders) \in Nat /\ Root \notin Folders
  BY ScopeAssumption, FS_Subset, FS_CardinalityType DEF Items
<1>2. /\ d \in 0 .. Cardinality(Folders)
      /\ \A k \in 0 .. Cardinality(Folders) :
           /\ up[k] \in Folders \cup {Root}
           /\ up[k] # Root <=> k < d
           /\ k < d => Live(up[k]) /\ Scope(up[k]) = Scope(i)
      /\ up[0] = Parent(i)
      /\ \A k \in 1 .. d : up[k] = Parent(up[k - 1])
  BY ClimbEnds
<1>3. A = [k \in 1 .. d |-> up[d - k]]
  BY AncestorsClimb
<1> HIDE DEF up, d, A
<1>4. \A k \in 1 .. d : d - k \in 0 .. Cardinality(Folders) /\ d - k < d
  BY <1>1, <1>2
<1>5. \A k \in 1 .. d : A[k] = up[d - k] /\ A[k] \in Folders /\ Live(A[k]) /\ Scope(A[k]) = Scope(i)
  BY <1>2, <1>3, <1>4
<1>6. A \in [1 .. d -> Folders]
  BY <1>3, <1>5
<1>7. \A k \in 1 .. d : Parent(A[k]) = IF k = 1 THEN Root ELSE A[k - 1]
  <2> SUFFICES ASSUME NEW k \in 1 .. d PROVE Parent(A[k]) = IF k = 1 THEN Root ELSE A[k - 1]
    OBVIOUS
  <2>1. d - k + 1 \in 1 .. d /\ d - k + 1 - 1 = d - k
    BY <1>1, <1>2
  <2>2. up[d - k + 1] = Parent(A[k])
    BY <1>2, <1>5, <2>1
  <2>3. CASE k = 1
    <3>1. d - k + 1 = d
      BY <1>1, <1>2, <2>3
    <3>2. up[d] = Root
      BY <1>1, <1>2
    <3> QED
      BY <2>2, <2>3, <3>1, <3>2
  <2>4. CASE k # 1
    <3>1. k - 1 \in 1 .. d /\ d - (k - 1) = d - k + 1
      BY <1>1, <1>2, <2>4
    <3> QED
      BY <1>5, <2>2, <2>4, <3>1
  <2> QED
    BY <2>3, <2>4
<1>8. Parent(i) = IF d = 0 THEN Root ELSE A[d]
  <2>1. CASE d = 0
    <3>1. up[0] = Root
      BY <1>1, <1>2, <2>1
    <3> QED
      BY <1>2, <2>1, <3>1
  <2>2. CASE d # 0
    <3>1. d \in 1 .. d /\ d - d = 0
      BY <1>1, <1>2, <2>2
    <3> QED
      BY <1>2, <1>5, <2>2, <3>1
  <2> QED
    BY <2>1, <2>2
<1>9. d \in Nat
  BY <1>1, <1>2
<1> QED
  BY <1>5, <1>6, <1>7, <1>8, <1>9 DEF A

Walks(g, path, sc) ==
  g = [k \in 0 .. Len(path) - 1 |->
         IF k = 0 THEN {Root}
         ELSE UNION {{i \in Children(p, sc) \cap Folders : items[i].slug = path[k]} : p \in g[k - 1]}]
Walk(path, sc) == CHOOSE g : Walks(g, path, sc)
Ends(path, sc, kind) ==
  UNION {{i \in Children(p, sc) \cap kind : items[i].slug = path[Len(path)]} :
            p \in Walk(path, sc)[Len(path) - 1]}

\* How an address is followed: a walk down through folders, and a look for its last slug.
LEMMA ResolveWalks ==
  ASSUME NEW path, NEW sc
  PROVE  Resolve(path, sc) = IF Ends(path, sc, Folders) # {} THEN Ends(path, sc, Folders)
                                                             ELSE Ends(path, sc, Leaves)
BY DEF Resolve, Walks, Walk, Ends

\* A sequence with one more at its end.
LEMMA LastAppended ==
  ASSUME NEW S, NEW a \in Seq(S), NEW b \in S
  PROVE  /\ Len(a \o <<b>>) = Len(a) + 1
         /\ (a \o <<b>>)[Len(a) + 1] = b
         /\ \A k \in 1 .. Len(a) : (a \o <<b>>)[k] = a[k]
OBVIOUS

\* The address of a live row leads to it and to nothing else.
LEMMA WalkLeads ==
  ASSUME NEW X, RowsOK(X), NoLoop, X \cap Folders = {}, NEW i \in Items \ X, Live(i)
  PROVE  /\ Resolve(SlugPath(i), Scope(i)) = {i}
         /\ Scope(i) = Shared => SlugPath(i)[1] # Reserved
<1> DEFINE A == Ancestors(i)
           path == SlugPath(i)
           sc == Scope(i)
<1>1. PICK d \in Nat :
        /\ A \in [1 .. d -> Folders]
        /\ \A k \in 1 .. d : /\ Live(A[k]) /\ Scope(A[k]) = sc
                            /\ Parent(A[k]) = IF k = 1 THEN Root ELSE A[k - 1]
        /\ Parent(i) = IF d = 0 THEN Root ELSE A[d]
  BY AncestorsLead
<1>2. Folders \subseteq Items /\ Leaves \subseteq Items /\ Items = Folders \cup Leaves
      /\ Folders \cap Leaves = {} /\ Root \notin Folders
  BY ScopeAssumption DEF Items
<1>3. /\ Len(path) = d + 1 /\ path[d + 1] = items[i].slug
      /\ \A k \in 1 .. d : path[k] = items[A[k]].slug
  <2> DEFINE front == [k \in DOMAIN A |-> items[A[k]].slug]
  <2>1. DOMAIN A = 1 .. d
    BY <1>1
  <2>2. \A j \in Items : items[j].slug \in Seq(Nat)
    BY DEF RowsOK, Row
  <2>3. front \in Seq(Seq(Nat)) /\ Len(front) = d /\ \A k \in 1 .. d : front[k] = items[A[k]].slug
    <3>1. \A k \in 1 .. d : items[A[k]].slug \in Seq(Nat)
      BY <1>1, <1>2, <2>2
    <3> QED
      BY <2>1, <3>1
  <2>4. items[i].slug \in Seq(Nat)
    BY <2>2
  <2>5. path = front \o <<items[i].slug>>
    BY DEF SlugPath
  <2> DEFINE Slugs == Seq(Nat)
             last == items[i].slug
  <2>6. front \in Seq(Slugs) /\ last \in Slugs /\ path = front \o <<last>>
    BY <2>3, <2>4, <2>5
  <2> HIDE DEF front, path, last, Slugs
  <2>7. Len(path) = Len(front) + 1 /\ path[Len(front) + 1] = last /\ \A k \in 1 .. Len(front) : path[k] = front[k]
    BY <2>6, LastAppended
  <2> QED
    BY <2>3, <2>7 DEF last
<1> DEFINE place(k) == IF k = 0 THEN Root ELSE A[k]
           g == Walk(path, sc)
<1> HIDE DEF A, path
<1>4. OwnAddress /\ i \in Items
  BY DEF RowsOK
<1>5. \A k \in 1 .. d : {j \in Children(place(k - 1), sc) : items[j].slug = path[k]} = {A[k]}
  <2> SUFFICES ASSUME NEW k \in 1 .. d
               PROVE  {j \in Children(place(k - 1), sc) : items[j].slug = items[A[k]].slug} = {A[k]}
    BY <1>3
  <2>1. A[k] \in Items /\ Live(A[k]) /\ Scope(A[k]) = sc /\ Parent(A[k]) = place(k - 1)
    BY <1>1, <1>2
  <2>2. ParentKey(Parent(A[k]), Scope(A[k])) = ParentKey(place(k - 1), sc)
    BY <2>1
  <2> HIDE DEF place, sc
  <2> QED
    BY <1>4, <2>1, <2>2, NamedAlone
<1>6. {j \in Children(place(d), sc) : items[j].slug = path[Len(path)]} = {i}
  <2>1. Parent(i) = place(d) /\ path[Len(path)] = items[i].slug
    BY <1>1, <1>3
  <2>2. ParentKey(Parent(i), Scope(i)) = ParentKey(place(d), sc)
    BY <2>1
  <2> HIDE DEF place, sc
  <2> QED
    BY <1>4, <2>1, <2>2, NamedAlone
<1>7. Walks(g, path, sc)
  <2> DEFINE w == [k \in 0 .. Len(path) - 1 |-> {place(k)}]
  <2>1. Len(path) - 1 = d
    BY <1>3
  <2>2. \A k \in 0 .. d : w[k] = {place(k)}
    BY <2>1
  <2>3. \A k \in 1 .. d : {j \in Children(place(k - 1), sc) \cap Folders : items[j].slug = path[k]} = {place(k)}
    <3> SUFFICES ASSUME NEW k \in 1 .. d
                 PROVE  {j \in Children(place(k - 1), sc) \cap Folders : items[j].slug = path[k]} = {place(k)}
      OBVIOUS
    <3>1. A[k] \in Folders /\ place(k) = A[k]
      BY <1>1
    <3> QED
      BY <1>5, <3>1
  <2>4. \A k \in 0 .. d : w[k] = IF k = 0 THEN {Root}
          ELSE UNION {{j \in Children(p, sc) \cap Folders : items[j].slug = path[k]} : p \in w[k - 1]}
    <3>1. w[0] = {Root}
      BY <2>2
    <3>2. ASSUME NEW k \in 1 .. d
          PROVE  w[k] = UNION {{j \in Children(p, sc) \cap Folders : items[j].slug = path[k]} : p \in w[k - 1]}
      <4>1. k \in 0 .. d /\ k - 1 \in 0 .. d
        OBVIOUS
      <4>2. w[k] = {place(k)} /\ w[k - 1] = {place(k - 1)}
        BY <2>2, <4>1
      <4> HIDE DEF place, w
      <4> QED
        BY <2>3, <4>2
    <3>3. \A k \in 0 .. d : k # 0 => k \in 1 .. d
      OBVIOUS
    <3> HIDE DEF w
    <3> QED
      BY <3>1, <3>2, <3>3
  <2>5. w = [k \in 0 .. Len(path) - 1 |-> w[k]]
    OBVIOUS
  <2> HIDE DEF w
  <2>6. Walks(w, path, sc)
    BY <2>1, <2>4, <2>5 DEF Walks
  <2> QED
    BY <2>6 DEF Walk
<1>8. \A k \in 0 .. d : g[k] = {place(k)}
  <2> DEFINE T == {k \in 0 .. d : g[k] # {place(k)}}
  <2> SUFFICES ASSUME T # {} PROVE FALSE
    OBVIOUS
  <2>1. PICK k \in T : \A l \in T : k <= l
    <3>1. T \subseteq Nat
      OBVIOUS
    <3> QED
      BY <3>1, LeastMember
  <2>2. g[k] = IF k = 0 THEN {Root}
               ELSE UNION {{j \in Children(p, sc) \cap Folders : items[j].slug = path[k]} : p \in g[k - 1]}
    <3>1. k \in 0 .. Len(path) - 1
      BY <1>3, <2>1
    <3> QED
      BY <1>7, <3>1 DEF Walks
  <2>3. k \in 1 .. d /\ k - 1 \in 0 .. d
    BY <2>1, <2>2
  <2>4. g[k - 1] = {place(k - 1)}
    BY <2>1, <2>3
  <2>5. g[k] = {j \in Children(place(k - 1), sc) \cap Folders : items[j].slug = path[k]}
    <3> HIDE DEF place, g
    <3> QED
      BY <2>2, <2>3, <2>4
  <2>6. A[k] \in Folders /\ place(k) = A[k]
    BY <1>1, <2>3
  <2> QED
    BY <1>5, <2>1, <2>3, <2>5, <2>6
<1>9. \A kind : Ends(path, sc, kind) = {i} \cap kind
  <2> SUFFICES ASSUME NEW kind PROVE Ends(path, sc, kind) = {i} \cap kind
    OBVIOUS
  <2>1. g[Len(path) - 1] = {place(d)}
    BY <1>3, <1>8
  <2> HIDE DEF place
  <2>2. Ends(path, sc, kind) = {j \in Children(place(d), sc) \cap kind : items[j].slug = path[Len(path)]}
    BY <2>1 DEF Ends
  <2> QED
    BY <1>6, <2>2
<1>10. Resolve(path, sc) = {i}
  BY <1>2, <1>4, <1>9, ResolveWalks
<1>11. ASSUME sc = Shared PROVE path[1] # Reserved
  <2>1. CASE d = 0
    BY <1>1, <1>3, <1>4, <1>11, <2>1 DEF OwnAddress, IsReservedRootSlug
  <2>2. CASE d # 0
    <3>1. 1 \in 1 .. d
      BY <2>2
    <3>2. A[1] \in Items /\ Live(A[1]) /\ Scope(A[1]) = Shared /\ Parent(A[1]) = Root
      BY <1>1, <1>2, <1>11, <3>1
    <3> QED
      BY <1>3, <1>4, <3>1, <3>2 DEF OwnAddress, IsReservedRootSlug
  <2> QED
    BY <2>1, <2>2
<1> QED
  BY <1>10, <1>11 DEF path

\* The tree of a scope shows its live rows, all of them.
LEMMA TreeShows ==
  ASSUME NEW X, RowsOK(X), NoLoop, X \cap Folders = {}, NEW sc
  PROVE  {i \in Items \ X : Live(i) /\ Scope(i) = sc} = Tree(sc) \ X
<1> DEFINE mine == {i \in Items : Live(i) /\ Scope(i) = sc}
           shown == {f \in mine \cap Folders : \A Y \in SUBSET Folders :
                       (\A g \in mine \cap Folders : Parent(g) \in Y \cup {Root} => g \in Y) => f \in Y}
<1>1. Folders \subseteq Items /\ Items = Folders \cup Leaves /\ Root \notin Folders
  BY ScopeAssumption DEF Items
<1>2. \A j \in mine \ X : Parent(j) \in (mine \cap Folders) \cup {Root}
  <2>1. \A j \in Items : Parent(j) \in Folders \cup {Root}
    BY DEF RowsOK, Row, Parent
  <2> QED
    BY <1>1, <2>1 DEF RowsOK, LiveUnderLive, OneScopePerSubtree, Live, Held
<1>3. shown = mine \cap Folders
  <2> SUFFICES ASSUME NEW Y \in SUBSET Folders,
                      \A g \in mine \cap Folders : Parent(g) \in Y \cup {Root} => g \in Y
               PROVE  mine \cap Folders \subseteq Y
    OBVIOUS
  <2> DEFINE F == (mine \cap Folders) \ Y
  <2> SUFFICES ASSUME F # {} PROVE FALSE
    OBVIOUS
  <2>1. F \in SUBSET Folders /\ \A f \in F : Held(f)
    BY DEF Live, Held
  <2>2. PICK f \in F : Parent(f) \notin F
    BY <2>1 DEF NoLoop
  <2>3. f \in mine \ X
    BY <1>1
  <2> QED
    BY <1>2, <2>2, <2>3
<1>4. Tree(sc) = shown \cup {d \in mine \cap Leaves : Parent(d) \in shown \cup {Root}}
  BY DEF Tree
<1> HIDE DEF mine, shown
<1>5. Tree(sc) \ X = mine \ X
  <2>1. mine \subseteq Items
    BY DEF mine
  <2> QED
    BY <1>1, <1>2, <1>3, <1>4, <2>1
<1> QED
  BY <1>5 DEF mine

\* Rows that are as the invariant says have addresses that lead home.
LEMMA RowsLeadHome ==
  ASSUME NEW X, RowsOK(X), NoLoop, X \cap Folders = {}
  PROVE  AddressesLeadHome(X)
BY WalkLeads, TreeShows DEF AddressesLeadHome, RowsOK, LiveUnderLive

-----------------------------------------------------------------------------
(* No step of a tree puts a folder below itself *)

\* Folders may go, and stay where they are.
LEMMA NoFolderMoved ==
  ASSUME NoLoop, \A g \in Folders : Held(g)' => Held(g) /\ Parent(g)' = Parent(g)
  PROVE  NoLoop'
<1> SUFFICES ASSUME NEW F \in SUBSET Folders, F # {}, \A g \in F : Held(g)'
             PROVE  \E g \in F : Parent(g)' \notin F
  BY DEF NoLoop
<1>1. PICK g \in F : Parent(g) \notin F
  BY DEF NoLoop
<1> QED
  BY <1>1

\* One folder may be filed among folders whose parents are among them, if it is not.
LEMMA OneFolderMoved ==
  ASSUME TypeOK, NoLoop, NEW f \in Folders, NEW V \in SUBSET Folders, f \notin V,
         Parent(f)' \in V \cup {Root},
         \A g \in Folders \ {f} : Held(g)' => Held(g) /\ Parent(g)' = Parent(g),
         \A g \in V : Held(g) => Parent(g) \in V \cup {Root}
  PROVE  NoLoop'
<1> SUFFICES ASSUME NEW F \in SUBSET Folders, F # {}, \A g \in F : Held(g)',
                    \A g \in F : Parent(g)' \in F
             PROVE  FALSE
  BY DEF NoLoop
<1>1. Root \notin Folders
  BY ScopeAssumption DEF Items
<1>2. CASE f \notin F
  <2>1. PICK g \in F : Parent(g) \notin F
    BY <1>2 DEF NoLoop
  <2> QED
    BY <1>2, <2>1
<1>3. CASE f \in F
  <2>1. F \cap V # {}
    BY <1>1, <1>3
  <2>2. \A g \in F \cap V : Held(g) /\ Parent(g) \in F \cap V
    BY <1>1
  <2>3. F \cap V \in SUBSET Folders
    OBVIOUS
  <2> QED
    BY <2>1, <2>2, <2>3 DEF NoLoop
<1> QED
  BY <1>2, <1>3

LEMMA CreateMakesNoLoop ==
  ASSUME TypeOK, OneScopePerSubtree, NoLoop,
         NEW u \in Users, NEW i \in Items, NEW p \in Folds, NEW said, NEW title,
         Create(u, i, p, said, title)
  PROVE  NoLoop'
<1>1. PICK r : r.parent = p /\ items' = [items EXCEPT ![i] = r]
  <2>1. PICK s : items' = [items EXCEPT ![i] = [state |-> "live", parent |-> p,
                                                scope |-> ScopeUnder(p, said), slug |-> s]]
    BY DEF Create
  <2> QED
    BY <2>1
<1>2. ~Held(i) /\ (p # Root => p \in Folders /\ Held(p))
  BY DEF Create, AssertFolder, VisibleTo, Held, Folds
<1>3. \A g \in Items \ {i} : Held(g)' => Held(g) /\ Parent(g)' = Parent(g)
  BY <1>1 DEF TypeOK, Held, Parent
<1>4. Folders \subseteq Items
  BY DEF Items
<1>5. CASE i \in Folders
  <2> DEFINE V == {g \in Folders : Held(g)}
  <2>1. Parent(i)' = p
    BY <1>1 DEF TypeOK, Parent
  <2>2. \A g \in V : Parent(g) \in V \cup {Root}
    BY <1>4 DEF TypeOK, OneScopePerSubtree, Row, Parent
  <2>3. V \in SUBSET Folders /\ i \notin V /\ p \in V \cup {Root}
    BY <1>2
  <2>4. \A g \in Folders \ {i} : Held(g)' => Held(g) /\ Parent(g)' = Parent(g)
    BY <1>3, <1>4
  <2> HIDE DEF V
  <2> QED
    BY <1>5, <2>1, <2>2, <2>3, <2>4, OneFolderMoved
<1>6. CASE i \notin Folders
  BY <1>3, <1>4, <1>6, NoFolderMoved
<1> QED
  BY <1>5, <1>6

\* What is above the new parent in the mover's sight is all that is above it.
LEMMA MoveMakesNoLoop ==
  ASSUME TypeOK, OneScopePerSubtree, NoLoop,
         NEW u \in Users, NEW i \in Items, NEW p \in Folds, Move(u, i, p),
         i \in Folders => ~WouldCycle(u, i, p)
  PROVE  NoLoop'
<1>1. PICK s : items' = [items EXCEPT ![i].parent = p, ![i].slug = s]
  BY DEF Move
<1>2. p # Root => p \in Folders /\ VisibleTo(u, p)
  BY DEF Move, AssertFolder, Folds
<1>3. \A g \in Items \ {i} : Held(g)' => Held(g) /\ Parent(g)' = Parent(g)
  BY <1>1 DEF TypeOK, Held, Parent
<1>4. Folders \subseteq Items
  BY DEF Items
<1>5. CASE i \in Folders /\ p # Root
  <2>1. PICK Y \in SUBSET Folders :
          /\ p \in Y /\ i \notin Y
          /\ \A g \in Y : VisibleTo(u, g) /\ Parent(g) # Root => Parent(g) \in Y
    BY <1>5 DEF WouldCycle
  <2> DEFINE V == {g \in Y : VisibleTo(u, g)}
  <2>2. Parent(i)' = p
    BY <1>1 DEF TypeOK, Row, Parent
  <2>3. \A g \in V : Parent(g) \in V \cup {Root}
    BY <1>4, <2>1 DEF OneScopePerSubtree, VisibleTo
  <2>4. V \in SUBSET Folders /\ i \notin V /\ p \in V
    BY <1>2, <1>5, <2>1
  <2>5. \A g \in Folders \ {i} : Held(g)' => Held(g) /\ Parent(g)' = Parent(g)
    BY <1>3, <1>4
  <2> HIDE DEF V
  <2> QED
    BY <1>5, <2>2, <2>3, <2>4, <2>5, OneFolderMoved
<1>6. CASE i \in Folders /\ p = Root
  <2>1. Parent(i)' = Root
    BY <1>1, <1>6 DEF TypeOK, Row, Parent
  <2>2. \A g \in Folders \ {i} : Held(g)' => Held(g) /\ Parent(g)' = Parent(g)
    BY <1>3, <1>4
  <2>3. PICK V \in SUBSET Folders : V = {}
    OBVIOUS
  <2>4. i \notin V /\ Parent(i)' \in V \cup {Root} /\ \A g \in V : Held(g) => Parent(g) \in V \cup {Root}
    BY <2>1, <2>3
  <2> QED
    BY <1>6, <2>2, <2>4, OneFolderMoved
<1>7. CASE i \notin Folders
  BY <1>3, <1>4, <1>7, NoFolderMoved
<1> QED
  BY <1>5, <1>6, <1>7

\* What is published was private, and nothing above a shared folder is.
LEMMA PublishMakesNoLoop ==
  ASSUME TypeOK, OneScopePerSubtree, NoLoop,
         NEW u \in Users, NEW i \in Items, NEW p \in Folds, Publish(u, i, p)
  PROVE  NoLoop'
<1> DEFINE S == IF i \in Folders THEN Subtree(i) ELSE {i}
<1>1. PICK s :
        items' = [j \in Items |->
                     IF j = i THEN [items[i] EXCEPT !.scope = Shared, !.parent = p, !.slug = s]
                     ELSE IF j \in S THEN [items[j] EXCEPT !.scope = Shared] ELSE items[j]]
  BY DEF Publish
<1> HIDE DEF S
<1>2. /\ Scope(i) = u /\ u # Shared
      /\ p # Root => p \in Folders /\ Held(p) /\ Scope(p) = Shared
  BY ScopeAssumption DEF Publish, AssertFolder, VisibleTo, ScopeUnder, Folds
<1>3. \A g \in Items \ {i} : Held(g)' => Held(g) /\ Parent(g)' = Parent(g)
  BY <1>1 DEF TypeOK, Row, Held, Parent
<1>4. Folders \subseteq Items
  BY DEF Items
<1>5. CASE i \in Folders
  <2> DEFINE V == {g \in Folders : Held(g) /\ Scope(g) = Shared}
  <2>1. Parent(i)' = p
    BY <1>1 DEF TypeOK, Row, Parent
  <2>2. \A g \in V : Parent(g) \in V \cup {Root}
    BY <1>4 DEF TypeOK, OneScopePerSubtree, Row, Parent
  <2>3. V \in SUBSET Folders /\ i \notin V /\ p \in V \cup {Root}
    BY <1>2
  <2>4. \A g \in Folders \ {i} : Held(g)' => Held(g) /\ Parent(g)' = Parent(g)
    BY <1>3, <1>4
  <2> HIDE DEF V
  <2> QED
    BY <1>5, <2>1, <2>2, <2>3, <2>4, OneFolderMoved
<1>6. CASE i \notin Folders
  BY <1>3, <1>4, <1>6, NoFolderMoved
<1> QED
  BY <1>5, <1>6

LEMMA DeleteMakesNoLoop ==
  ASSUME TypeOK, NoLoop, NEW u \in Users, DeleteStep(u)
  PROVE  NoLoop'
<1>1. ASSUME NEW S, \A i \in S : Live(i), items' = Archived(S)
      PROVE  NoLoop'
  <2>1. \A i \in Items : Held(i)' => Held(i) /\ Parent(i)' = Parent(i)
    <3> SUFFICES ASSUME NEW i \in Items, Held(i)'
                 PROVE  Held(i) /\ Parent(i)' = Parent(i)
      OBVIOUS
    <3>1. items'[i] = IF i \in S THEN [items[i] EXCEPT !.state = "archived"] ELSE items[i]
      BY <1>1 DEF Archived
    <3>2. CASE i \in S
      BY <1>1, <3>1, <3>2 DEF TypeOK, Row, Held, Live, Parent
    <3>3. CASE i \notin S
      BY <3>1, <3>3 DEF Held, Parent
    <3> QED
      BY <3>2, <3>3
  <2> QED
    BY <2>1, NoFolderMoved DEF Items
<1>2. ASSUME NEW S, Purge(S)
      PROVE  NoLoop'
  <2>1. \A i \in Items : Held(i)' => Held(i) /\ Parent(i)' = Parent(i)
    BY <1>2 DEF Purge, NoRow, Held, Parent
  <2> QED
    BY <2>1, NoFolderMoved DEF Items
<1>3. ASSUME NEW d \in Leaves, NEW hard \in BOOLEAN, DeleteLeaf(u, d, hard)
      PROVE  NoLoop'
  BY <1>1, <1>2, <1>3 DEF DeleteLeaf
<1>4. ASSUME NEW f \in Folders, NEW cascade \in BOOLEAN, NEW hard \in BOOLEAN,
             DeleteTree(u, f, cascade, hard)
      PROVE  NoLoop'
  <2> DEFINE fs == DescendantFolders(f, FALSE)
  <2>1. Purge(Subtree(f)) \/ items' = Archived({i \in fs \cup InFolders(fs) : Live(i)})
    BY <1>4 DEF DeleteTree, ArchiveSubtree
  <2> HIDE DEF fs
  <2> QED
    BY <1>1, <1>2, <2>1
<1> QED
  BY <1>3, <1>4 DEF DeleteStep

LEMMA UpdateMakesNoLoop ==
  ASSUME TypeOK, NoLoop, NEW u, NEW i \in Items, NEW title, NEW archive, Update(u, i, title, archive)
  PROVE  NoLoop'
<1>1. PICK s, state : items' = [items EXCEPT ![i].slug = s, ![i].state = state]
  BY DEF Update
<1>2. Held(i)
  BY DEF Update, VisibleTo
<1>3. \A g \in Items : Held(g)' => Held(g) /\ Parent(g)' = Parent(g)
  BY <1>1, <1>2 DEF TypeOK, Row, Held, Parent
<1> QED
  BY <1>3, NoFolderMoved DEF Items

LEMMA TreeStepMakesNoLoop ==
  ASSUME TypeOK, OneScopePerSubtree, NoLoop, TreeStep
  PROVE  NoLoop'
<1>1. ASSUME UNCHANGED items
      PROVE  NoLoop'
  BY <1>1, NoFolderMoved DEF Held, Parent
<1>2. ASSUME NEW u \in Users, RowStep(u)
      PROVE  NoLoop'
  BY <1>2, CreateMakesNoLoop, UpdateMakesNoLoop, MoveMakesNoLoop, PublishMakesNoLoop DEF RowStep
<1>3. ASSUME NEW u \in Users, PinStep(u)
      PROVE  NoLoop'
  BY <1>1, <1>3 DEF PinStep, PinRead, Unpin
<1>4. ASSUME NEW c \in pinning, PinInsert(c)
      PROVE  NoLoop'
  BY <1>1, <1>4 DEF PinInsert
<1> QED
  BY <1>2, <1>3, <1>4, DeleteMakesNoLoop DEF TreeStep

LEMMA NoLoopInit == ASSUME TreeInit PROVE NoLoop
BY DEF TreeInit, NoRow, NoLoop, Held, Items

-----------------------------------------------------------------------------
(* No step of a tree takes anything from a shelf behind its owner's back *)

ShelfOf(i) == IF Held(i) THEN Scope(i) ELSE Root

\* What PrivateShelf asks of a member's step.
ShelvesKept(u) == Shelf!Keep(u) \/ Shelf!Publish(u) \/ Shelf!Discard(u)
                  \/ \A i \in Items : ShelfOf(i)' = ShelfOf(i)

LEMMA ShelfStep == ASSUME NEW u \in Users, by' = u, ShelvesKept(u) PROVE Shelf!Next
<1>1. CASE \A i \in Items : ShelfOf(i)' = ShelfOf(i)
  BY <1>1 DEF Shelf!Next, ShelfOf
<1> QED
  BY <1>1 DEF Shelf!Next, ShelvesKept

LEMMA SameShelves ==
  ASSUME NEW u, \A i \in Items : Held(i)' = Held(i) /\ Scope(i)' = Scope(i)
  PROVE  ShelvesKept(u)
BY DEF ShelvesKept, ShelfOf

\* A new row goes on the shared shelf or on its maker's.
LEMMA NewRowIsKept ==
  ASSUME TypeOK, NEW u \in Users, NEW i \in Items, NEW r, items[i].state = "new",
         r.state = "live", r.scope \in {Shared, u}, items' = [items EXCEPT ![i] = r]
  PROVE  ShelvesKept(u)
<1>1. ShelfOf(i) = Root
  BY DEF ShelfOf, Held
<1>2. ShelfOf(i)' = r.scope
  BY DEF TypeOK, ShelfOf, Held, Scope
<1>3. \A j \in Items \ {i} : ShelfOf(j)' = ShelfOf(j)
  BY DEF TypeOK, ShelfOf, Held, Scope
<1>4. [j \in Items |-> ShelfOf(j)]' = [[j \in Items |-> ShelfOf(j)] EXCEPT ![i] = r.scope]
  BY <1>2, <1>3
<1>5. Shelf!Keep(u)
  BY <1>1, <1>4 DEF Shelf!Keep, ShelfOf
<1> QED
  BY <1>5 DEF ShelvesKept

LEMMA CreateIsKept ==
  ASSUME TypeOK, NEW u \in Users, NEW i \in Items, NEW p \in Folds, NEW said \in CreateScopes(u),
         NEW title \in Titles, Create(u, i, p, said, title)
  PROVE  ShelvesKept(u)
<1>1. ScopeUnder(p, said) \in {Shared, u}
  BY DEF Create, AssertFolder, VisibleTo, ScopeUnder, CreateScopes
<1>2. PICK s : items' = [items EXCEPT ![i] = [state |-> "live", parent |-> p,
                                              scope |-> ScopeUnder(p, said), slug |-> s]]
  BY DEF Create
<1> DEFINE r == [state |-> "live", parent |-> p, scope |-> ScopeUnder(p, said), slug |-> s]
<1>3. items[i].state = "new" /\ r.state = "live" /\ r.scope = ScopeUnder(p, said)
  BY DEF Create
<1>4. items' = [items EXCEPT ![i] = r]
  BY <1>2
<1> HIDE DEF r
<1> QED
  BY <1>1, <1>3, <1>4, NewRowIsKept

LEMMA AcceptIsKept ==
  ASSUME TypeOK, AcceptingOK, NEW c \in accepting, NEW title \in Titles, AcceptBlob(c, title)
  PROVE  c[1] \in Users /\ by' = c[1] /\ ShelvesKept(c[1])
<1>1. c[1] \in Users /\ c[2] \in Items /\ by' = c[1]
  BY DEF AcceptingOK, AcceptBlob, Items
<1>2. CASE Held(c[3]) /\ items[c[2]].state = "new"
  <2>1. PICK s : items' = [items EXCEPT ![c[2]] = [state |-> "live", parent |-> c[3],
                                                   scope |-> Shared, slug |-> s]]
    BY <1>2 DEF AcceptBlob
  <2> DEFINE r == [state |-> "live", parent |-> c[3], scope |-> Shared, slug |-> s]
  <2>2. r.state = "live" /\ r.scope = Shared
    OBVIOUS
  <2>3. items' = [items EXCEPT ![c[2]] = r]
    BY <2>1
  <2> HIDE DEF r
  <2> QED
    BY <1>1, <1>2, <2>2, <2>3, NewRowIsKept
<1>3. CASE ~(Held(c[3]) /\ items[c[2]].state = "new")
  <2>1. \A i \in Items : Held(i)' = Held(i) /\ Scope(i)' = Scope(i)
    BY <1>3 DEF AcceptBlob, Held, Scope
  <2> QED
    BY <1>1, <2>1, SameShelves
<1> QED
  BY <1>2, <1>3

\* What an admin throws away at once is on one shelf.
LEMMA PurgeIsDiscard ==
  ASSUME TypeOK, NEW u \in Admins, NEW S \in SUBSET Items, Purge(S), NEW s \in Scopes,
         \A i \in S : Held(i) /\ Scope(i) = s
  PROVE  ShelvesKept(u)
<1>1. S \in SUBSET {i \in Items : ShelfOf(i) = s}
  BY DEF ShelfOf
<1>2. \A i \in Items : items'[i] = IF i \in S THEN NoRow("purged") ELSE items[i]
  BY DEF Purge
<1>3. \A i \in Items : ShelfOf(i)' = IF i \in S THEN Root ELSE ShelfOf(i)
  BY <1>2 DEF NoRow, ShelfOf, Held, Scope
<1>4. [i \in Items |-> ShelfOf(i)]' = [i \in Items |-> IF i \in S THEN Root ELSE ShelfOf(i)]
  BY <1>3
<1>5. s \in {Shared} \cup Users
  BY DEF Scopes
<1>6. Shelf!Discard(u)
  BY <1>1, <1>4, <1>5 DEF Shelf!Discard, ShelfOf
<1> QED
  BY <1>6 DEF ShelvesKept

LEMMA PublishIsPublish ==
  ASSUME NEW X, TypeOK, RowsOK(X),
         NEW u \in Users, NEW i \in Items, NEW p \in Folds, Publish(u, i, p)
  PROVE  ShelvesKept(u)
<1>1. PICK S \in SUBSET Items :
        /\ \A j \in S : Held(j) /\ Scope(j) = u
        /\ \A j \in Items : Held(j)' = Held(j) /\ Scope(j)' = IF j \in S THEN Shared ELSE Scope(j)
  BY PublishEdits
<1>2. S \in SUBSET {j \in Items : ShelfOf(j) = u}
  BY <1>1 DEF ShelfOf
<1>3. \A j \in Items : ShelfOf(j)' = IF j \in S THEN Shared ELSE ShelfOf(j)
  BY <1>1 DEF ShelfOf
<1>4. [j \in Items |-> ShelfOf(j)]' = [j \in Items |-> IF j \in S THEN Shared ELSE ShelfOf(j)]
  BY <1>3
<1>5. Shelf!Publish(u)
  BY <1>2, <1>4 DEF Shelf!Publish, ShelfOf
<1> QED
  BY <1>5 DEF ShelvesKept

LEMMA DeleteLeafIsKept ==
  ASSUME NEW X, TypeOK, RowsOK(X),
         NEW u \in Users, NEW d \in Leaves, NEW hard \in BOOLEAN, DeleteLeaf(u, d, hard)
  PROVE  ShelvesKept(u)
<1>1. d \in Items /\ Scope(d) \in Scopes /\ \A i \in Items : Parent(i) # d
  BY NothingInLeaves DEF TypeOK, Row, Scope
<1>2. CASE u \in Admins /\ Held(d) /\ Purge({d})
  BY <1>1, <1>2, PurgeIsDiscard
<1>3. CASE Live(d) /\ items' = Archived({d}) /\ UNCHANGED <<household, personal>>
  <2>1. \A j \in Items : Held(j)' = Held(j) /\ Scope(j)' = Scope(j)
    BY <1>1, <1>3, ArchiveEdits DEF DeleteLeaf
  <2> QED
    BY <2>1, SameShelves
<1> QED
  BY <1>2, <1>3 DEF DeleteLeaf

LEMMA DeleteTreeIsKept ==
  ASSUME NEW X, TypeOK, RowsOK(X),
         NEW u \in Users, NEW f \in Folders, NEW cascade \in BOOLEAN, NEW hard \in BOOLEAN,
         DeleteTree(u, f, cascade, hard)
  PROVE  ShelvesKept(u)
<1>1. CASE hard
  <2>1. u \in Admins /\ Held(f) /\ Purge(Subtree(f))
    BY <1>1 DEF DeleteTree
  <2>2. /\ Subtree(f) \in SUBSET Items
        /\ \A i \in Subtree(f) : Held(i) /\ Scope(i) = Scope(f)
    BY <2>1, SubtreeClosed DEF RowsOK
  <2>3. Scope(f) \in Scopes
    BY DEF TypeOK, Row, Items, Scope
  <2> QED
    BY <2>1, <2>2, <2>3, PurgeIsDiscard
<1>2. CASE ~hard
  <2>1. \A j \in Items : Held(j)' = Held(j) /\ Scope(j)' = Scope(j)
    BY <1>2, ArchiveSubtreeEdits DEF DeleteTree
  <2> QED
    BY <2>1, SameShelves
<1> QED
  BY <1>1, <1>2

LEMMA RowStepKeepsShelves ==
  ASSUME NEW X, TypeOK, RowsOK(X), NEW u \in Users, RowStep(u) \/ DeleteStep(u)
  PROVE  ShelvesKept(u)
<1>1. ASSUME NEW i \in Items, NEW p \in Folds, NEW said \in CreateScopes(u), NEW title \in Titles,
             Create(u, i, p, said, title)
      PROVE  ShelvesKept(u)
  BY <1>1, CreateIsKept
<1>2. ASSUME NEW i \in Items, NEW title \in Titles \cup {Unsaid}, NEW change \in Changes,
             change = "archive" => \A j \in Items : ~(Live(j) /\ Parent(j) = i),
             Update(u, i, title, change)
      PROVE  ShelvesKept(u)
  BY <1>2, UpdateEdits, SameShelves
<1>3. ASSUME NEW i \in Items, NEW p \in Folds, Move(u, i, p)
      PROVE  ShelvesKept(u)
  BY <1>3, MoveEdits, SameShelves
<1>4. ASSUME NEW i \in Items, NEW p \in Folds, Publish(u, i, p)
      PROVE  ShelvesKept(u)
  BY <1>4, PublishIsPublish
<1>5. ASSUME NEW d \in Leaves, NEW hard \in BOOLEAN, DeleteLeaf(u, d, hard)
      PROVE  ShelvesKept(u)
  BY <1>5, DeleteLeafIsKept
<1>6. ASSUME NEW f \in Folders, NEW cascade \in BOOLEAN, NEW hard \in BOOLEAN,
             DeleteTree(u, f, cascade, hard)
      PROVE  ShelvesKept(u)
  BY <1>6, DeleteTreeIsKept
<1> QED
  BY <1>1, <1>2, <1>3, <1>4, <1>5, <1>6 DEF RowStep, DeleteStep

LEMMA RowsAlone == ASSUME NEW u \in Users, by' = u, UNCHANGED items PROVE Shelf!Next
<1>1. \A i \in Items : Held(i)' = Held(i) /\ Scope(i)' = Scope(i)
  BY DEF Held, Scope
<1> QED
  BY <1>1, SameShelves, ShelfStep

LEMMA TreeStepKeepsShelves ==
  ASSUME NEW X, TreeInv(X), TreeStep
  PROVE  Shelf!Next
<1>1. TypeOK /\ RowsOK(X)
  BY DEF TreeInv
<1>2. ASSUME NEW u \in Users, RowStep(u) \/ DeleteStep(u)
      PROVE  Shelf!Next
  <2>1. by' = u /\ ShelvesKept(u)
    BY <1>1, <1>2, RowStepEdits, RowStepKeepsShelves
  <2> QED
    BY <2>1, ShelfStep
<1>3. ASSUME NEW u \in Users, PinStep(u)
      PROVE  Shelf!Next
  <2>1. by' = u /\ UNCHANGED items
    BY <1>3 DEF PinStep, PinRead, Unpin
  <2> QED
    BY <2>1, RowsAlone
<1>4. ASSUME NEW c \in pinning, PinInsert(c)
      PROVE  Shelf!Next
  BY <1>4, PinInsertKeepsInv, RowsAlone
<1> QED
  BY <1>2, <1>3, <1>4 DEF TreeStep

LEMMA ShelvesBeginEmpty == ASSUME TreeInit PROVE Shelf!Init
BY DEF TreeInit, Shelf!Init, NoRow, Held

-----------------------------------------------------------------------------
(* The documents *)

LEMMA DocumentsTakeTreeSteps ==
  ASSUME NEW u \in Users, DocumentStep(u) \/ FolderStep(u), TypeOK
  PROVE  RowStep(u) \/ DeleteStep(u) \/ PinStep(u)
<1>1. ASSUME NEW d \in Leaves
      PROVE  d \in Items /\ \A i \in Items : Parent(i) # d
  BY <1>1, NothingInLeaves
<1>2. CASE DocumentStep(u)
  <2>1. \A d \in Leaves : d \notin Folders
    BY ScopeAssumption
  <2> QED
    BY <1>1, <1>2, <2>1 DEF DocumentStep, RowStep, DeleteStep, PinStep
<1>3. CASE FolderStep(u)
  <2>1. PICK f \in Folders :
          \/ \E p \in Folds, said \in CreateScopes(u), name \in Titles : Create(u, f, p, said, name)
          \/ \E name \in Titles \cup {Unsaid}, change \in Changes :
               /\ change = "archive" => \A i \in Items : ~(Live(i) /\ Parent(i) = f)
               /\ Update(u, f, name, change)
          \/ \E p \in Folds : (~WouldCycle(u, f, p) /\ Move(u, f, p)) \/ Publish(u, f, p)
          \/ \E cascade, hard \in BOOLEAN : DeleteFolder(u, f, cascade, hard)
    BY <1>3 DEF FolderStep, CreateFolder, UpdateFolder, MoveFolder, PublishFolder
  <2>2. \A cascade, hard \in BOOLEAN : DeleteFolder(u, f, cascade, hard) => DeleteTree(u, f, cascade, hard)
    BY DEF DeleteFolder, PurgeFolder, DeleteTree
  <2>3. f \in Items
    BY DEF Items
  <2> QED
    BY <2>1, <2>2, <2>3 DEF RowStep, DeleteStep
<1> QED
  BY <1>2, <1>3

LEMMA DocumentsNext ==
  ASSUME TypeOK, [Next]_vars
  PROVE  \/ TreeStep /\ UNCHANGED <<accepting, slipped>>
         \/ \E u \in Users, d \in Leaves, f \in Folders : SinkTarget(u, d, f)
         \/ \E c \in accepting, title \in Titles : AcceptBlob(c, title)
         \/ UNCHANGED vars
<1>1. ASSUME NEW u \in Users, DocumentStep(u) \/ FolderStep(u)
      PROVE  TreeStep
  BY <1>1, DocumentsTakeTreeSteps DEF TreeStep
<1>2. ASSUME NEW c \in pinning, PinInsert(c)
      PROVE  TreeStep
  BY <1>2 DEF TreeStep
<1> QED
  BY <1>1, <1>2 DEF Next

LEMMA DocumentInvInit == Init => DocumentInv
<1> SUFFICES ASSUME Init
             PROVE  DocumentInv
  OBVIOUS
<1>1. TreeInv({}) /\ NoLoop /\ slipped = {} /\ accepting = {}
  BY TreeInvInit, NoLoopInit DEF Init
<1>2. AcceptingOK
  BY <1>1 DEF AcceptingOK
<1> QED
  BY <1>1, <1>2 DEF DocumentInv

\* A hand-over that has read its folder stays right about it while the rows only open up.
LEMMA AcceptingWaits ==
  ASSUME AcceptingOK, OnlyOpens, accepting' \subseteq accepting
  PROVE  AcceptingOK'
<1>1. accepting \subseteq Users \X Leaves \X Folders /\ Folders \subseteq Items
  BY DEF AcceptingOK, Items
<1>2. \A i \in Items : Held(i) => items[i].state # "new"
  BY DEF Held
<1> SUFFICES ASSUME NEW c \in accepting'
             PROVE  items'[c[3]].state # "new" /\ (Held(c[3])' => Scope(c[3])' = Shared)
  BY <1>1 DEF AcceptingOK
<1>3. c[3] \in Items /\ items[c[3]].state # "new" /\ (Held(c[3]) => Scope(c[3]) = Shared)
  BY <1>1 DEF AcceptingOK
<1> QED
  BY <1>2, <1>3 DEF OnlyOpens

\* A hand-over makes no folder.
LEMMA AcceptMakesNoLoop ==
  ASSUME TypeOK, AcceptingOK, NoLoop, NEW c \in accepting, NEW title, AcceptBlob(c, title)
  PROVE  NoLoop'
<1>1. c[2] \notin Folders
  BY ScopeAssumption DEF AcceptingOK
<1>2. \A g \in Items \ {c[2]} : items'[g] = items[g]
  BY DEF AcceptBlob, TypeOK
<1> QED
  BY <1>1, <1>2, NoFolderMoved DEF Held, Parent, Items

LEMMA DocumentInvNext == DocumentInv /\ [Next]_vars => DocumentInv'
<1> SUFFICES ASSUME DocumentInv, [Next]_vars
             PROVE  DocumentInv'
  OBVIOUS
<1>1. PICK X : X = slipped
  OBVIOUS
<1>2. PICK Y : Y = slipped'
  OBVIOUS
<1>3. TreeInv(X) /\ AcceptingOK /\ NoLoop /\ TypeOK /\ RowsOK(X) /\ OneScopePerSubtree
  BY <1>1 DEF DocumentInv, TreeInv, RowsOK
<1>4. TreeInv(Y)' /\ NoLoop' /\ AcceptingOK' => DocumentInv'
  BY <1>2 DEF DocumentInv
<1>5. CASE TreeStep /\ UNCHANGED <<accepting, slipped>>
  <2>1. X = Y /\ TreeInv(X)' /\ OnlyOpens
    BY <1>1, <1>2, <1>3, <1>5, TreeStepKeepsInv
  <2>2. NoLoop'
    BY <1>3, <1>5, TreeStepMakesNoLoop
  <2> QED
    BY <1>3, <1>4, <1>5, <2>1, <2>2, AcceptingWaits
<1>6. ASSUME NEW u \in Users, NEW d \in Leaves, NEW f \in Folders, SinkTarget(u, d, f)
      PROVE  DocumentInv'
  <2>1. /\ UNCHANGED <<items, household, personal, pinning, slipped>> /\ by' = u
        /\ accepting' = {<<u, d, f>>} /\ items[f].state # "new" /\ Scope(f) = Shared
    BY <1>6 DEF SinkTarget, Live
  <2>2. AcceptingOK'
    BY <2>1 DEF AcceptingOK, Scope
  <2>3. X = Y /\ TreeInv(X)'
    BY <1>1, <1>2, <1>3, <2>1, TreeInvStutters
  <2>4. NoLoop'
    BY <1>3, <2>1, NoFolderMoved DEF Held, Parent
  <2> QED
    BY <1>4, <2>2, <2>3, <2>4
<1>7. ASSUME NEW c \in accepting, NEW title \in Titles, AcceptBlob(c, title)
      PROVE  DocumentInv'
  <2>1. by' \in Users /\ accepting' \subseteq accepting
    BY <1>3, <1>7 DEF AcceptBlob, AcceptingOK
  <2>2. RowsEdited(Y)
    BY <1>1, <1>2, <1>3, <1>7, AcceptEdits
  <2>3. TreeInv(Y)'
    BY <1>3, <2>1, <2>2, EditKeepsInv
  <2>4. AcceptingOK'
    BY <1>3, <2>1, <2>2, AcceptingWaits DEF RowsEdited
  <2> QED
    BY <1>3, <1>4, <1>7, <2>3, <2>4, AcceptMakesNoLoop
<1>8. CASE UNCHANGED vars
  <2>1. X = Y /\ UNCHANGED <<items, household, personal, pinning>> /\ by' \in Users
    BY <1>1, <1>2, <1>3, <1>8 DEF vars, TypeOK
  <2>2. AcceptingOK'
    BY <1>3, <1>8 DEF vars, AcceptingOK, Held, Scope
  <2>3. NoLoop'
    BY <1>3, <2>1, NoFolderMoved DEF Held, Parent
  <2> QED
    BY <1>3, <1>4, <2>1, <2>2, <2>3, TreeInvStutters
<1> QED
  BY <1>3, <1>5, <1>6, <1>7, <1>8, DocumentsNext

LEMMA DocumentInvariant == Spec => []DocumentInv
BY DocumentInvInit, DocumentInvNext, PTL DEF Spec

LEMMA DocumentInvSays ==
  DocumentInv => TypeOK /\ OneScopePerSubtree /\ PinsAreSeen /\ OwnAddress /\ AncestorsAreLive /\ NoLoop
BY DEF DocumentInv, TreeInv, RowsOK, LiveUnderLive, AncestorsAreLive

\* The rows, the pins and the calls under way have their types in every state.
THEOREM TreeTypeCorrect == Spec => []TypeOK
BY DocumentInvSays, DocumentInvariant, PTL

\* A row is in the scope of the folder it is filed in, which is still there: creating,
\* moving, publishing, deleting for good and the hand-over of a file keep a subtree in
\* one scope (documents/store.go, sink.go).
THEOREM OneScopeBelow == Spec => []OneScopePerSubtree
BY DocumentInvSays, DocumentInvariant, PTL

\* A pin for everyone is on a shared document and a personal one on a document its holder
\* sees, although the document was read before the transaction that pins it.
THEOREM PinsStaySeen == Spec => []PinsAreSeen
BY DocumentInvSays, DocumentInvariant, PTL

\* No two live rows of one place, a folder and a document neither, have one slug, and no
\* live row at the shared root has that of the private tree's route.
THEOREM AddressesDiffer == Spec => []OwnAddress
BY DocumentInvSays, DocumentInvariant, PTL

\* The folder a live row is filed in is live, but for a file handed over into a folder
\* that was deleted while the file was being copied.
THEOREM FoldersStayLive == Spec => []AncestorsAreLive
BY DocumentInvSays, DocumentInvariant, PTL

\* No sequence of moves and publications puts a folder below itself, although the check for
\* it walks only over what the mover can see (documents/service.go, wouldCycle).
THEOREM FoldersHangFromTheRoot == Spec => []NoLoop
BY DocumentInvSays, DocumentInvariant, PTL

\* What a hand-over may leave in a folder that has gone is a document, never a folder.
LEMMA LeavesSlip == Spec => [](slipped \subseteq Leaves)
<1>1. Init => slipped \subseteq Leaves
  BY DEF Init
<1>2. DocumentInv /\ slipped \subseteq Leaves /\ [Next]_vars => (slipped \subseteq Leaves)'
  <2> SUFFICES ASSUME DocumentInv, slipped \subseteq Leaves, [Next]_vars
               PROVE  slipped' \subseteq Leaves
    OBVIOUS
  <2>1. CASE UNCHANGED slipped
    BY <2>1
  <2>2. ASSUME NEW c \in accepting, NEW title \in Titles, AcceptBlob(c, title)
        PROVE  slipped' \subseteq Leaves
    <3>1. c[2] \in Leaves
      BY DEF DocumentInv, AcceptingOK
    <3> QED
      BY <2>2, <3>1 DEF AcceptBlob
  <2>3. (\E u \in Users, d \in Leaves, f \in Folders : SinkTarget(u, d, f)) => UNCHANGED slipped
    BY DEF SinkTarget
  <2> QED
    BY <2>1, <2>2, <2>3 DEF Next, vars
<1> QED
  BY <1>1, <1>2, DocumentInvariant, PTL DEF Spec

\* After any edits, and whatever a hand-over finds when its copy is done, all that lies under
\* a folder is in the folder's scope, and every live row is where its address says: its slug
\* path leads to it alone, and the tree of its scope shows it (documents/store.go, sink.go).
THEOREM AddressesHold == Spec => []TreesHold
<1>1. DocumentInv /\ slipped \subseteq Leaves => TreesHold
  <2> SUFFICES ASSUME DocumentInv, slipped \subseteq Leaves
               PROVE  TreesHold
    OBVIOUS
  <2>1. RowsOK(slipped) /\ NoLoop
    BY DEF DocumentInv, TreeInv
  <2>2. slipped \cap Folders = {}
    BY ScopeAssumption
  <2> QED
    BY <2>1, <2>2, RowsLeadHome DEF TreesHold, RowsOK
<1> QED
  BY <1>1, LeavesSlip, DocumentInvariant, PTL

LEMMA DocumentsKeepShelves ==
  DocumentInv /\ [Next]_vars => [Shelf!Next]_<<[i \in Items |-> ShelfOf(i)], by>>
<1> SUFFICES ASSUME DocumentInv, [Next]_vars
             PROVE  Shelf!Next \/ UNCHANGED <<[i \in Items |-> ShelfOf(i)], by>>
  OBVIOUS
<1>1. PICK X : X = slipped
  OBVIOUS
<1>2. TreeInv(X) /\ AcceptingOK /\ TypeOK
  BY <1>1 DEF DocumentInv, TreeInv
<1>3. CASE TreeStep
  BY <1>2, <1>3, TreeStepKeepsShelves
<1>4. ASSUME NEW u \in Users, NEW d \in Leaves, NEW f \in Folders, SinkTarget(u, d, f)
      PROVE  Shelf!Next
  BY <1>4, RowsAlone DEF SinkTarget
<1>5. ASSUME NEW c \in accepting, NEW title \in Titles, AcceptBlob(c, title)
      PROVE  Shelf!Next
  BY <1>2, <1>5, AcceptIsKept, ShelfStep
<1>6. CASE UNCHANGED vars
  BY <1>6 DEF vars, ShelfOf, Held, Scope
<1> QED
  BY <1>2, <1>3, <1>4, <1>5, <1>6, DocumentsNext

\* What is on a member's shelf leaves it only when they publish it, a whole subtree at a
\* time, or when an admin throws it away, and nothing comes back from the shared shelf:
\* the documents' tree implements PrivateShelf (documents/service.go, sink.go).
THEOREM ShelvesAreKept == Spec => ShelfSpec
<1>1. Init => Shelf!Init
  BY ShelvesBeginEmpty DEF Init
<1>2. DocumentInv /\ [Next]_vars => [Shelf!Next]_<<[i \in Items |-> IF Held(i) THEN Scope(i) ELSE Root], by>>
  BY DocumentsKeepShelves DEF ShelfOf
<1> QED
  BY <1>1, <1>2, DocumentInvariant, PTL DEF Spec, ShelfSpec, Shelf!Spec

-----------------------------------------------------------------------------
(* The notes *)

\* NoteTree names the operators of the common tree once more; they are the same.
LEMMA NotesReadRows ==
  /\ Noted!Items = Items /\ Noted!TypeOK <=> TypeOK
  /\ \A i : /\ Noted!Held(i) <=> Held(i)
            /\ Noted!Live(i) <=> Live(i)
            /\ Noted!Scope(i) = Scope(i)
            /\ Noted!Parent(i) = Parent(i)
  /\ \A u, i : Noted!VisibleTo(u, i) <=> VisibleTo(u, i)
BY DEF Noted!Items, Items, Noted!TypeOK, TypeOK, Noted!Row, Row, Noted!States, States, Noted!Scopes, Scopes,
       Noted!Held, Held, Noted!Live, Live, Noted!Scope, Scope, Noted!Parent, Parent,
       Noted!VisibleTo, VisibleTo

LEMMA NotesFreeSlug ==
  \A p, sc, base, except : Noted!FreeSlug(p, sc, base, except) = FreeSlug(p, sc, base, except)
BY DEF Noted!FreeSlug, FreeSlug, Noted!Candidate, Candidate, Noted!Cardinality, Cardinality,
       Noted!SiblingSlugTaken, SiblingSlugTaken, Noted!IsReservedRootSlug, IsReservedRootSlug,
       Noted!Children, Children, Noted!ParentKey, ParentKey,
       Noted!Live, Live, Noted!Scope, Scope, Noted!Parent, Parent, Noted!Items, Items

LEMMA NotesWalk ==
  /\ \A f, deleted : Noted!DescendantFolders(f, deleted) = DescendantFolders(f, deleted)
  /\ \A fs : Noted!InFolders(fs) = InFolders(fs)
  /\ \A f : Noted!Subtree(f) = Subtree(f)
<1>1. \A f, deleted : Noted!DescendantFolders(f, deleted) = DescendantFolders(f, deleted)
  BY NotesReadRows DEF Noted!DescendantFolders, DescendantFolders
<1>2. \A fs : Noted!InFolders(fs) = InFolders(fs)
  BY NotesReadRows DEF Noted!InFolders, InFolders
<1> QED
  BY <1>1, <1>2 DEF Noted!Subtree, Subtree

LEMMA NotesFile ==
  /\ \A u : Noted!CreateScopes(u) = CreateScopes(u)
  /\ \A u, p, said : Noted!AssertFolder(u, p, said) <=> AssertFolder(u, p, said)
  /\ \A p, said : Noted!ScopeUnder(p, said) = ScopeUnder(p, said)
BY NotesReadRows DEF Noted!CreateScopes, CreateScopes, Noted!AssertFolder, AssertFolder,
                     Noted!ScopeUnder, ScopeUnder

LEMMA NotesCreate ==
  ASSUME NEW u, NEW i, NEW p, NEW said, NEW title, Noted!Create(u, i, p, said, title)
  PROVE  Create(u, i, p, said, title)
BY NotesFreeSlug, NotesFile DEF Noted!Create, Create

LEMMA NotesUpdate ==
  ASSUME NEW u, NEW i, NEW title, NEW archive, Noted!Update(u, i, title, archive)
  PROVE  Update(u, i, title, archive)
BY NotesFreeSlug, NotesReadRows DEF Noted!Update, Update

LEMMA NotesMove ==
  ASSUME NEW u, NEW i, NEW p, Noted!Move(u, i, p)
  PROVE  Move(u, i, p)
BY NotesFreeSlug, NotesReadRows, NotesFile DEF Noted!Move, Move

LEMMA NotesPublish ==
  ASSUME NEW u, NEW i, NEW p, Noted!Publish(u, i, p)
  PROVE  Publish(u, i, p)
<1> DEFINE below == IF i \in Folders THEN Subtree(i) ELSE {i}
<1>1. \E s \in FreeSlug(p, Shared, items[i].slug, i) :
        items' = [j \in Items |->
                    IF j = i THEN [items[i] EXCEPT !.scope = Shared, !.parent = p, !.slug = s]
                    ELSE IF j \in below THEN [items[j] EXCEPT !.scope = Shared] ELSE items[j]]
  BY NotesFreeSlug, NotesWalk DEF Noted!Publish, Noted!Items, Items
<1>2. /\ Live(i) /\ Scope(i) = u /\ AssertFolder(u, p, Unsaid) /\ ScopeUnder(p, Unsaid) = Shared
      /\ by' = u /\ UNCHANGED <<household, personal, pinning>>
  BY NotesReadRows, NotesFile DEF Noted!Publish
<1> QED
  BY <1>1, <1>2 DEF Publish

LEMMA NotesPurge ==
  /\ \A S : Noted!Purge(S) <=> Purge(S)
  /\ \A S : Noted!Archived(S) = Archived(S)
BY DEF Noted!Purge, Purge, Noted!NoRow, NoRow, Noted!Archived, Archived, Noted!Items, Items

LEMMA NotesWouldCycle ==
  ASSUME NEW u, NEW f, NEW p, ~Noted!WouldCycle(u, f, p)
  PROVE  ~WouldCycle(u, f, p)
BY NotesReadRows DEF Noted!WouldCycle, WouldCycle

LEMMA NotesDeleteLeaf ==
  ASSUME NEW u, NEW d, NEW hard, Noted!DeleteLeaf(u, d, hard)
  PROVE  DeleteLeaf(u, d, hard)
BY NotesPurge, NotesReadRows DEF Noted!DeleteLeaf, DeleteLeaf

LEMMA NotesDeleteFolder ==
  ASSUME NEW u, NEW f, NEW cascade, NEW hard, Noted!DeleteFolder(u, f, cascade, hard)
  PROVE  DeleteTree(u, f, cascade, hard)
<1>1. ASSUME Noted!ArchiveSubtree(u, f, cascade)
      PROVE  ArchiveSubtree(u, f, cascade)
  <2> DEFINE fs == DescendantFolders(f, FALSE)
  <2>1. {i \in fs \cup InFolders(fs) : Noted!Live(i)} = {i \in fs \cup InFolders(fs) : Live(i)}
    BY DEF Noted!Live, Live
  <2>2. {i \in Noted!Items : Noted!Live(i) /\ Noted!Parent(i) = f} = {i \in Items : Live(i) /\ Parent(i) = f}
    BY DEF Noted!Live, Live, Noted!Parent, Parent, Noted!Items, Items
  <2>3. items' = Archived({i \in fs \cup InFolders(fs) : Live(i)})
    BY <1>1, <2>1, NotesPurge, NotesWalk DEF Noted!ArchiveSubtree
  <2>4. /\ VisibleTo(u, f) /\ UNCHANGED <<household, personal>>
        /\ cascade \/ {i \in Items : Live(i) /\ Parent(i) = f} = {}
    BY <1>1, <2>2, NotesReadRows DEF Noted!ArchiveSubtree
  <2> QED
    BY <2>3, <2>4 DEF ArchiveSubtree
<1> QED
  BY <1>1, NotesPurge, NotesReadRows, NotesWalk DEF Noted!DeleteFolder, DeleteTree

LEMMA NotesPin ==
  ASSUME NEW u, NEW d, NEW everyone
  PROVE  /\ Noted!PinRead(u, d, everyone) => PinRead(u, d, everyone)
         /\ Noted!Unpin(u, d, everyone) => Unpin(u, d, everyone)
BY NotesReadRows DEF Noted!PinRead, PinRead, Noted!Unpin, Unpin

LEMMA NotesPinInsert == ASSUME NEW c, Noted!PinInsert(c) PROVE PinInsert(c)
BY NotesReadRows DEF Noted!PinInsert, PinInsert

LEMMA NotesNext == ASSUME TypeOK, Noted!Next PROVE TreeStep
<1>1. Noted!Folds = Folds /\ Noted!Changes = Changes /\ Noted!Items = Items
  BY DEF Noted!Folds, Folds, Noted!Changes, Changes, Noted!Items, Items
<1>2. ASSUME NEW u \in Users, Noted!NoteStep(u)
      PROVE  RowStep(u) \/ DeleteStep(u) \/ PinStep(u)
  <2>1. PICK n \in Leaves :
          \/ \E p \in Folds, said \in CreateScopes(u), title \in Titles : Noted!Create(u, n, p, said, title)
          \/ \E title \in Titles \cup {Unsaid}, change \in Changes : Noted!Update(u, n, title, change)
          \/ \E p \in Folds : Noted!Move(u, n, p) \/ Noted!Publish(u, n, p)
          \/ \E hard \in BOOLEAN : Noted!DeleteLeaf(u, n, hard)
          \/ \E everyone \in BOOLEAN : Noted!PinRead(u, n, everyone) \/ Noted!Unpin(u, n, everyone)
    BY <1>1, <1>2, NotesFile
       DEF Noted!NoteStep, Noted!CreateNote, Noted!UpdateNote, Noted!MoveNote, Noted!PublishNote,
           Noted!DeleteNote, Noted!Pin, Noted!UnpinNote
  <2>2. n \in Items /\ n \notin Folders /\ \A i \in Items : Parent(i) # n
    BY NothingInLeaves, ScopeAssumption
  <2>3. CASE \E p \in Folds, said \in CreateScopes(u), title \in Titles : Noted!Create(u, n, p, said, title)
    BY <2>2, <2>3, NotesCreate DEF RowStep
  <2>4. CASE \E title \in Titles \cup {Unsaid}, change \in Changes : Noted!Update(u, n, title, change)
    BY <2>2, <2>4, NotesUpdate DEF RowStep
  <2>5. CASE \E p \in Folds : Noted!Move(u, n, p) \/ Noted!Publish(u, n, p)
    BY <2>2, <2>5, NotesMove, NotesPublish DEF RowStep
  <2>6. CASE \E hard \in BOOLEAN : Noted!DeleteLeaf(u, n, hard)
    BY <2>6, NotesDeleteLeaf DEF DeleteStep
  <2>7. CASE \E everyone \in BOOLEAN : Noted!PinRead(u, n, everyone) \/ Noted!Unpin(u, n, everyone)
    BY <2>7, NotesPin DEF PinStep
  <2> QED
    BY <2>1, <2>3, <2>4, <2>5, <2>6, <2>7
<1>3. ASSUME NEW u \in Users, Noted!FolderStep(u)
      PROVE  RowStep(u) \/ DeleteStep(u) \/ PinStep(u)
  <2>1. PICK f \in Folders :
          \/ \E p \in Folds, said \in CreateScopes(u), name \in Titles : Noted!Create(u, f, p, said, name)
          \/ \E name \in Titles \cup {Unsaid}, change \in Changes :
               /\ change = "archive" => \A i \in Items : ~(Noted!Live(i) /\ Noted!Parent(i) = f)
               /\ Noted!Update(u, f, name, change)
          \/ \E p \in Folds : \/ ~Noted!WouldCycle(u, f, p) /\ Noted!Move(u, f, p)
                              \/ Noted!Publish(u, f, p)
          \/ \E cascade, hard \in BOOLEAN : Noted!DeleteFolder(u, f, cascade, hard)
    BY <1>1, <1>3, NotesFile
       DEF Noted!FolderStep, Noted!CreateFolder, Noted!UpdateFolder, Noted!MoveFolder,
           Noted!PublishFolder
  <2>2. f \in Items
    BY DEF Items
  <2>3. CASE \E p \in Folds, said \in CreateScopes(u), name \in Titles : Noted!Create(u, f, p, said, name)
    BY <2>2, <2>3, NotesCreate DEF RowStep
  <2>4. CASE \E name \in Titles \cup {Unsaid}, change \in Changes :
               /\ change = "archive" => \A i \in Items : ~(Noted!Live(i) /\ Noted!Parent(i) = f)
               /\ Noted!Update(u, f, name, change)
    BY <2>2, <2>4, NotesUpdate, NotesReadRows DEF RowStep
  <2>5. CASE \E p \in Folds : \/ ~Noted!WouldCycle(u, f, p) /\ Noted!Move(u, f, p)
                              \/ Noted!Publish(u, f, p)
    BY <2>2, <2>5, NotesWouldCycle, NotesMove, NotesPublish DEF RowStep
  <2>6. CASE \E cascade, hard \in BOOLEAN : Noted!DeleteFolder(u, f, cascade, hard)
    BY <2>6, NotesDeleteFolder DEF DeleteStep
  <2> QED
    BY <2>1, <2>3, <2>4, <2>5, <2>6
<1> QED
  BY <1>2, <1>3, NotesPinInsert DEF Noted!Next, TreeStep

LEMMA NotesInvInit == Noted!Init => TreeInv({}) /\ NoLoop
<1>1. Noted!TreeInit => TreeInit
  BY DEF Noted!TreeInit, TreeInit, Noted!NoRow, NoRow, Noted!Items, Items
<1> QED
  BY <1>1, TreeInvInit, NoLoopInit DEF Noted!Init

LEMMA NotesInvNext == TreeInv({}) /\ NoLoop /\ [Noted!Next]_(Noted!vars) => TreeInv({})' /\ NoLoop'
<1> SUFFICES ASSUME TreeInv({}), NoLoop, [Noted!Next]_(Noted!vars)
             PROVE  TreeInv({})' /\ NoLoop'
  OBVIOUS
<1>1. CASE Noted!Next
  <2>1. TypeOK /\ OneScopePerSubtree
    BY DEF TreeInv, RowsOK
  <2>2. TreeStep
    BY <1>1, <2>1, NotesNext
  <2> QED
    BY <2>1, <2>2, TreeStepKeepsInv, TreeStepMakesNoLoop
<1>2. CASE UNCHANGED Noted!vars
  <2>1. UNCHANGED <<items, household, personal, pinning>> /\ by' \in Users
    BY <1>2 DEF Noted!vars, TreeInv, TypeOK
  <2>2. NoLoop'
    BY <2>1, NoFolderMoved DEF Held, Parent
  <2> QED
    BY <2>1, <2>2, TreeInvStutters
<1> QED
  BY <1>1, <1>2

LEMMA NotesInvariant == Noted!Spec => [](TreeInv({}) /\ NoLoop)
BY NotesInvInit, NotesInvNext, PTL DEF Noted!Spec

\* Of the notes too: a note is in the scope of its folder, which is there and live while the
\* note is; pins are seen by those they are for; no two live rows of a place share a slug;
\* no folder comes to lie below itself; and every live row is where its address leads
\* (notes/store.go, notes/service.go).
THEOREM NotesStayTogether ==
  Noted!Spec => [](/\ OneScopePerSubtree /\ PinsAreSeen /\ OwnAddress /\ NoLoop
                   /\ AddressesLeadHome({}))
<1>1. TreeInv({}) /\ NoLoop => /\ OneScopePerSubtree /\ PinsAreSeen /\ OwnAddress /\ NoLoop
                              /\ AddressesLeadHome({})
  BY RowsLeadHome DEF TreeInv, RowsOK
<1> QED
  BY <1>1, NotesInvariant, PTL

\* A private note is made shared by its owner alone and thrown away by an admin alone: the
\* notes' tree implements PrivateShelf.
THEOREM NoteShelvesAreKept == Noted!Spec => Noted!ShelfSpec
<1>1. Noted!Init => Noted!Shelf!Init
  BY DEF Noted!Init, Noted!TreeInit, Noted!Shelf!Init, Noted!NoRow, Noted!Held, Noted!Items
<1>2. TreeInv({}) /\ [Noted!Next]_(Noted!vars) => [Noted!Shelf!Next]_<<[i \in Noted!Items |-> IF Noted!Held(i) THEN Noted!Scope(i) ELSE Root], by>>
  <2> SUFFICES ASSUME TreeInv({}), [Noted!Next]_(Noted!vars)
               PROVE  [Noted!Shelf!Next]_<<[i \in Noted!Items |-> IF Noted!Held(i) THEN Noted!Scope(i) ELSE Root], by>>
    OBVIOUS
  <2>1. Shelf!Next => Noted!Shelf!Next
    BY DEF Shelf!Next, Noted!Shelf!Next, Shelf!Keep, Noted!Shelf!Keep, Shelf!Publish, Noted!Shelf!Publish,
           Shelf!Discard, Noted!Shelf!Discard, Noted!Held, Held, Noted!Scope, Scope, Noted!Items, Items
  <2>2. CASE Noted!Next
    BY <2>1, <2>2, NotesNext, TreeStepKeepsShelves DEF TreeInv
  <2>3. CASE UNCHANGED Noted!vars
    BY <2>3 DEF Noted!vars, Noted!Held, Noted!Scope
  <2> QED
    BY <2>2, <2>3
<1> QED
  BY <1>1, <1>2, NotesInvariant, PTL DEF Noted!Spec, Noted!ShelfSpec, Noted!Shelf!Spec

----------------------------------------------------------------------------
(* The documents' vault. *)

Stages == {"new", "sent", "committed", "kept", "gone"}
Jobs == {Idle} \cup [doc : Docs, at : {"deriving", "rastering", "leaving"}]
               \cup [doc : Docs, at : {"finishing"}, preview : Statuses, thumb : Statuses, keys : SUBSET Derived]
Parts == Docs \X ({"original"} \cup Derived)
Passes == {Idle} \cup [at : {"listed"}, present : SUBSET Parts, aged : SUBSET Parts]
                 \cup [at : {"read"}, present : SUBSET Parts, aged : SUBSET Parts, claimed : SUBSET Parts]

VaultTypeInv ==
  /\ row \in [Docs -> Rows \cup {NoDocument}] /\ stage \in [Docs -> Stages]
  /\ objects \subseteq Parts /\ old \subseteq objects
  /\ queue \in Seq(Docs) /\ Len(queue) <= QueueSize /\ inFlight \subseteq Docs
  /\ job \in [Workers -> Jobs] /\ deferred \subseteq Docs
  /\ conf \in [enabled : BOOLEAN, converter : BOOLEAN]
  /\ phase \in {"down", "backfill", "requeue", "settle", "up"} /\ todo \subseteq Docs
  /\ pass \in Passes

Original(d) == <<d, "original">>

\* Who has a row, and what an upload has put by then.
StageInv ==
  \A d \in Docs : /\ HasRow(d) => stage[d] \in {"committed", "kept"} /\ Original(d) \in objects
                  /\ stage[d] = "new" => Original(d) \notin objects
                  /\ stage[d] = "sent" => Original(d) \in objects /\ Original(d) \notin old

\* What a pass has seen old is no upload's, or is claimed.
PassInv ==
  pass # Idle =>
    /\ \A d \in Docs : stage[d] \in {"new", "sent"} => Original(d) \notin pass.aged
    /\ pass.at = "read" => \A d \in Docs : HasRow(d) => Original(d) \in pass.claimed \/ Original(d) \notin pass.aged

VaultInv == VaultTypeInv /\ StageInv /\ PassInv

----------------------------------------------------------------------------
(* Shapes. *)

LEMMA RowShapes ==
  /\ NoDocument \notin Rows
  /\ \A t \in Types, p \in Statuses, th \in Statuses : [type |-> t, preview |-> p, thumb |-> th, keys |-> {}] \in Rows
<1>1. \A r \in Rows : r.type # "none"
  BY DEF Rows, Types
<1>2. NoDocument.type = "none"
  BY DEF NoDocument
<1> QED
  BY <1>1, <1>2 DEF Rows

LEMMA Plans ==
  ASSUME NEW t \in Types, NEW e \in BOOLEAN
  PROVE  /\ PreviewPlan(t, e) \in Statuses /\ ThumbnailPlan(t, e) \in Statuses
         /\ PreviewPlan(t, e) = "pending" \/ ThumbnailPlan(t, e) = "pending" => e /\ NeedsDerivedObject(t)
BY DEF PreviewPlan, ThumbnailPlan, NeedsDerivedObject, Types, Statuses

LEMMA JobShapes ==
  ASSUME VaultTypeInv, NEW w \in Workers
  PROVE  /\ job[w] # Idle => job[w].doc \in Docs
         /\ job[w].at \in {"deriving", "rastering", "leaving"} => job[w] \in [doc : Docs, at : {"deriving", "rastering", "leaving"}]
         /\ job[w].at = "finishing" =>
              job[w] \in [doc : Docs, at : {"finishing"}, preview : Statuses, thumb : Statuses, keys : SUBSET Derived]
         /\ job[w].at = "idle" <=> job[w] = Idle
         /\ job[w].at \in {"idle", "deriving", "rastering", "leaving", "finishing"}
<1>1. job[w] \in Jobs
  BY DEF VaultTypeInv
<1>2. CASE job[w] = Idle
  BY <1>2 DEF Idle
<1>3. CASE job[w] \in [doc : Docs, at : {"deriving", "rastering", "leaving"}]
  BY <1>3 DEF Idle
<1>4. CASE job[w] \in [doc : Docs, at : {"finishing"}, preview : Statuses, thumb : Statuses, keys : SUBSET Derived]
  BY <1>4 DEF Idle
<1> QED
  BY <1>1, <1>2, <1>3, <1>4 DEF Jobs

LEMMA PassShapes ==
  ASSUME VaultTypeInv
  PROVE  /\ pass # Idle => pass.at \in {"listed", "read"} /\ pass.present \subseteq Parts /\ pass.aged \subseteq Parts
         /\ pass.at = "read" => pass # Idle /\ pass.claimed \subseteq Parts
         /\ pass.at = "listed" => pass # Idle
<1>1. pass \in Passes
  BY DEF VaultTypeInv
<1>2. CASE pass = Idle
  BY <1>2 DEF Idle
<1>3. CASE pass \in [at : {"listed"}, present : SUBSET Parts, aged : SUBSET Parts]
  <2>1. pass.at = "listed" /\ pass.present \in SUBSET Parts /\ pass.aged \in SUBSET Parts
    BY <1>3
  <2>2. pass # Idle
    BY <2>1 DEF Idle
  <2> QED
    BY <2>1, <2>2
<1>4. CASE pass \in [at : {"read"}, present : SUBSET Parts, aged : SUBSET Parts, claimed : SUBSET Parts]
  <2>1. pass.at = "read" /\ pass.present \in SUBSET Parts /\ pass.aged \in SUBSET Parts /\ pass.claimed \in SUBSET Parts
    BY <1>4
  <2>2. pass # Idle
    BY <2>1 DEF Idle
  <2> QED
    BY <2>1, <2>2
<1> QED
  BY <1>1, <1>2, <1>3, <1>4 DEF Passes

\* A worker's new job, and the others'.
LEMMA NewJob ==
  ASSUME VaultTypeInv, NEW w \in Workers, NEW j \in Jobs, job' = [job EXCEPT ![w] = j]
  PROVE  job' \in [Workers -> Jobs] /\ job'[w] = j /\ \A v \in Workers \ {w} : job'[v] = job[v]
BY DEF VaultTypeInv

\* A row as its preview's result leaves it: the same document with the same type.
LEMMA Results ==
  ASSUME VaultTypeInv, NEW d \in Docs, NEW p \in Statuses, NEW th \in Statuses, NEW keys \in SUBSET Derived,
         SetPreviewResult(d, p, th, keys)
  PROVE  /\ row' \in [Docs -> Rows \cup {NoDocument}]
         /\ \A x \in Docs : (HasRow(x)' <=> HasRow(x)) /\ (x # d => row'[x] = row[x])
         /\ HasRow(d) => /\ row'[d].type = row[d].type /\ row'[d].preview = p /\ row'[d].thumb = th
                         /\ row'[d].keys = row[d].keys \cup keys
<1>1. CASE ~HasRow(d)
  BY <1>1 DEF SetPreviewResult, VaultTypeInv, HasRow
<1>2. CASE HasRow(d)
  <2>1. row[d] \in Rows
    BY <1>2 DEF HasRow, VaultTypeInv
  <2> DEFINE r == [row[d] EXCEPT !.preview = p, !.thumb = th, !.keys = @ \cup keys]
  <2>2. row' = [row EXCEPT ![d] = r]
    BY <1>2 DEF SetPreviewResult, VaultTypeInv
  <2>3. /\ r \in Rows /\ r.type = row[d].type /\ r.preview = p /\ r.thumb = th /\ r.keys = row[d].keys \cup keys
    BY <2>1 DEF Rows
  <2>4. row'[d] = r /\ \A x \in Docs \ {d} : row'[x] = row[x]
    BY <2>2 DEF VaultTypeInv
  <2>5. HasRow(d)'
    BY <2>3, <2>4, RowShapes DEF HasRow
  <2> HIDE DEF r
  <2>6. row' \in [Docs -> Rows \cup {NoDocument}]
    BY <2>2, <2>3 DEF VaultTypeInv
  <2>7. \A x \in Docs : (HasRow(x)' <=> HasRow(x)) /\ (x # d => row'[x] = row[x])
    BY <1>2, <2>4, <2>5 DEF HasRow
  <2> QED
    BY <2>3, <2>4, <2>6, <2>7
<1> QED
  BY <1>1, <1>2

LEMMA Enqueues ==
  ASSUME VaultTypeInv, QueueSize \in Nat, NEW d \in Docs, Enqueue(d)
  PROVE  /\ queue' \in Seq(Docs) /\ Len(queue') <= QueueSize /\ inFlight' \subseteq Docs /\ deferred' \subseteq Docs
         /\ inFlight \subseteq inFlight' /\ inFlight' \subseteq inFlight \cup {d}
         /\ deferred \subseteq deferred'
         /\ \A x \in Docs : (\E i \in DOMAIN queue : queue[i] = x) => \E i \in DOMAIN queue' : queue'[i] = x
         /\ \A x \in Docs : (\E i \in DOMAIN queue' : queue'[i] = x) => x = d \/ \E i \in DOMAIN queue : queue[i] = x
         /\ d \in inFlight \/ d \in deferred' \/ \E i \in DOMAIN queue' : queue'[i] = d
         /\ d \in inFlight' => d \in inFlight \/ \E i \in DOMAIN queue' : queue'[i] = d
<1>1. CASE d \notin inFlight /\ Len(queue) < QueueSize
  <2>1. queue' = Append(queue, d) /\ inFlight' = inFlight \cup {d} /\ deferred' = deferred
    BY <1>1 DEF Enqueue
  <2>2. queue \in Seq(Docs) /\ Len(queue) \in Nat
    BY DEF VaultTypeInv
  <2>3. /\ queue' \in Seq(Docs) /\ Len(queue') = Len(queue) + 1 /\ queue'[Len(queue) + 1] = d
        /\ DOMAIN queue = 1..Len(queue) /\ DOMAIN queue' = 1..(Len(queue) + 1)
        /\ \A i \in 1..Len(queue) : queue'[i] = queue[i]
    BY <2>1, <2>2
  <2>4. \A x \in Docs : (\E i \in DOMAIN queue : queue[i] = x) => \E i \in DOMAIN queue' : queue'[i] = x
    BY <2>2, <2>3
  <2>5. \A x \in Docs : (\E i \in DOMAIN queue' : queue'[i] = x) => x = d \/ \E i \in DOMAIN queue : queue[i] = x
    BY <2>2, <2>3
  <2>6. \E i \in DOMAIN queue' : queue'[i] = d
    BY <2>2, <2>3
  <2> QED
    BY <1>1, <2>1, <2>2, <2>3, <2>4, <2>5, <2>6 DEF VaultTypeInv
<1>2. CASE ~(d \notin inFlight /\ Len(queue) < QueueSize)
  BY <1>2 DEF Enqueue, VaultTypeInv
<1> QED
  BY <1>1, <1>2

LEMMA Stores ==
  ASSUME VaultTypeInv, NEW d \in Docs, NEW part \in {"original"} \cup Derived, Put(<<d, part>>)
  PROVE  /\ objects' \subseteq Parts /\ old' \subseteq objects'
         /\ \A x \in Docs : Original(x) \in objects => Original(x) \in objects'
         /\ part # "original" => \A x \in Docs : /\ Original(x) \in objects' <=> Original(x) \in objects
                                                 /\ Original(x) \in old' <=> Original(x) \in old
BY DEF Put, VaultTypeInv, Parts, Original

LEMMA Removes ==
  ASSUME VaultTypeInv, NEW keys, Remove(keys) \/ UNCHANGED bucket
  PROVE  /\ objects' \subseteq Parts /\ old' \subseteq objects' /\ objects' \subseteq objects /\ old' \subseteq old
         /\ \A k : k \notin keys => (k \in objects' <=> k \in objects)
BY DEF Remove, VaultTypeInv, bucket

\* Only a worker's own job changes what it holds.
LEMMA WorkerType ==
  ASSUME VaultTypeInv, QueueSize \in Nat, NEW w \in Workers,
         Take(w) \/ Transient(w) \/ DeriveOfficePreview(w) \/ EncodeAndStoreThumb(w)
           \/ SettlePanicked(w) \/ Finish(w) \/ Leave(w)
  PROVE  /\ VaultTypeInv'
         /\ UNCHANGED <<stage, boot, pass>>
         /\ \A d \in Docs : /\ HasRow(d)' <=> HasRow(d)
                            /\ Original(d) \in objects' <=> Original(d) \in objects
                            /\ Original(d) \in old' <=> Original(d) \in old
<1> DEFINE Kept == /\ UNCHANGED <<stage, boot, pass>>
                   /\ \A x \in Docs : HasRow(x)' <=> HasRow(x)
                   /\ \A x \in Docs : Original(x) \in objects' <=> Original(x) \in objects
                   /\ \A x \in Docs : Original(x) \in old' <=> Original(x) \in old
<1>0. ASSUME UNCHANGED <<row, bucket, stage, boot, pass>>, job' \in [Workers -> Jobs],
             queue' \in Seq(Docs) /\ Len(queue') <= QueueSize, inFlight' \subseteq Docs, deferred' \subseteq Docs
      PROVE  VaultTypeInv' /\ Kept
  <2>1. Kept
    BY <1>0 DEF HasRow, bucket, boot
  <2>2. VaultTypeInv'
    BY <1>0 DEF VaultTypeInv, bucket, boot
  <2> QED
    BY <2>1, <2>2
<1>s. ASSUME UNCHANGED <<row, stage, queue, inFlight, deferred, boot, pass>>, job' \in [Workers -> Jobs],
             NEW d \in Docs, NEW part \in Derived, Put(<<d, part>>)
      PROVE  VaultTypeInv' /\ Kept
  <2>1. /\ objects' \subseteq Parts /\ old' \subseteq objects'
        /\ \A x \in Docs : Original(x) \in objects' <=> Original(x) \in objects
        /\ \A x \in Docs : Original(x) \in old' <=> Original(x) \in old
    BY <1>s, Stores DEF Derived
  <2>2. Kept
    <3>1. UNCHANGED <<stage, boot, pass>> /\ \A x \in Docs : HasRow(x)' <=> HasRow(x)
      BY <1>s DEF HasRow
    <3> QED
      BY <2>1, <3>1
  <2>3. VaultTypeInv'
    BY <1>s, <2>1 DEF VaultTypeInv, boot
  <2> QED
    BY <2>2, <2>3
<1>j. /\ job[w] # Idle => job[w].doc \in Docs
      /\ job[w].at \in {"deriving", "rastering", "leaving"} => job[w] \in [doc : Docs, at : {"deriving", "rastering", "leaving"}]
      /\ job[w].at = "finishing" =>
           job[w] \in [doc : Docs, at : {"finishing"}, preview : Statuses, thumb : Statuses, keys : SUBSET Derived]
      /\ job[w].at = "idle" <=> job[w] = Idle
  BY JobShapes
<1>q. queue \in Seq(Docs) /\ Len(queue) \in Nat /\ Len(queue) <= QueueSize /\ inFlight \subseteq Docs /\ deferred \subseteq Docs
  BY DEF VaultTypeInv
<1>l. ASSUME NEW d \in Docs, NEW at \in {"deriving", "rastering", "leaving"} PROVE [doc |-> d, at |-> at] \in Jobs
  BY DEF Jobs
<1>m. ASSUME NEW at \in {"rastering", "leaving"}, job[w].at \in {"deriving", "rastering"}
      PROVE  [job[w] EXCEPT !.at = at] \in Jobs
  BY <1>j, <1>m DEF Jobs
<1>f. ASSUME job[w].at \in {"deriving", "rastering"}, NEW p \in Statuses, NEW th \in Statuses, NEW keys \in SUBSET Derived,
             Finishing(w, p, th, keys)
      PROVE  job' \in [Workers -> Jobs]
  <2>1. [doc |-> job[w].doc, at |-> "finishing", preview |-> p, thumb |-> th, keys |-> keys] \in Jobs
    BY <1>j, <1>f DEF Jobs
  <2> QED
    BY <2>1, <1>f DEF Finishing, VaultTypeInv
<1>1. CASE Take(w)
  <2>1. Head(queue) \in Docs /\ Tail(queue) \in Seq(Docs) /\ Len(Tail(queue)) = Len(queue) - 1
    BY <1>1, <1>q DEF Take
  <2>2. job' \in [Workers -> Jobs]
    BY <1>1, <1>l, <2>1 DEF Take, VaultTypeInv
  <2>3. Len(queue') <= QueueSize /\ queue' \in Seq(Docs)
    BY <1>1, <1>q, <2>1 DEF Take
  <2> QED
    BY <1>0, <1>1, <1>q, <2>2, <2>3 DEF Take
<1>2. CASE Transient(w)
  <2>1. job' \in [Workers -> Jobs]
    BY <1>2, <1>m DEF Transient, VaultTypeInv
  <2> QED
    BY <1>0, <1>2, <1>q, <1>j, <2>1 DEF Transient, Idle
<1>3. CASE DeriveOfficePreview(w)
  <2>1. job[w].doc \in Docs /\ job[w].at = "deriving" /\ UNCHANGED <<row, stage, queue, inFlight, deferred, boot, pass>>
    BY <1>3, <1>j DEF DeriveOfficePreview, Idle
  <2>2. CASE UNCHANGED bucket /\ (Finishing(w, "none", "none", {}) \/ Finishing(w, "failed", "failed", {}))
    <3>1. job' \in [Workers -> Jobs]
      BY <1>f, <2>1, <2>2 DEF Statuses
    <3> QED
      BY <1>0, <1>q, <2>1, <2>2, <3>1
  <2>3. CASE Put(<<job[w].doc, "preview">>) /\ job' = [job EXCEPT ![w].at = "rastering"]
    <3>1. job' \in [Workers -> Jobs]
      BY <1>m, <2>1, <2>3 DEF VaultTypeInv
    <3> QED
      BY <1>s, <1>q, <2>1, <2>3, <3>1 DEF Derived
  <2> QED
    BY <1>3, <2>2, <2>3 DEF DeriveOfficePreview
<1>4. CASE EncodeAndStoreThumb(w)
  <2> DEFINE d == job[w].doc
             made == IF job[w].at = "rastering" THEN {"preview"} ELSE {}
  <2>1. d \in Docs /\ job[w].at \in {"deriving", "rastering"} /\ UNCHANGED <<row, stage, queue, inFlight, deferred, boot, pass>>
    BY <1>4, <1>j DEF EncodeAndStoreThumb, Idle
  <2>2. made \in SUBSET Derived /\ made \cup {"thumb"} \in SUBSET Derived
    BY DEF Derived
  <2>3. \/ UNCHANGED bucket /\ (Finishing(w, "ready", "failed", made) \/ Finishing(w, "ready", "pending", made))
        \/ Finishing(w, "ready", "ready", made \cup {"thumb"}) /\ Put(<<d, "thumb">>)
    BY <1>4 DEF EncodeAndStoreThumb
  <2> HIDE DEF made, d
  <2>4. job' \in [Workers -> Jobs]
    BY <1>f, <2>1, <2>2, <2>3 DEF Statuses
  <2> QED
    BY <1>0, <1>s, <1>q, <2>1, <2>3, <2>4 DEF Derived
<1>5. CASE SettlePanicked(w)
  <2>1. job[w].doc \in Docs /\ UNCHANGED <<row, stage, bucket, queue, inFlight, deferred, boot, pass>>
    BY <1>5, <1>j DEF SettlePanicked, Idle
  <2>2. HasRow(job[w].doc) => row[job[w].doc].preview \in Statuses
    BY <2>1 DEF VaultTypeInv, HasRow, Rows
  <2>3. job' \in [Workers -> Jobs]
    <3>1. CASE HasRow(job[w].doc)
      <4>1. PICK p \in Statuses : Finishing(w, p, "failed", {})
        BY <1>5, <2>2, <3>1 DEF SettlePanicked, Statuses
      <4> QED
        BY <1>5, <1>f, <4>1 DEF SettlePanicked, Statuses
    <3>2. CASE ~HasRow(job[w].doc)
      BY <1>5, <1>m, <3>2 DEF SettlePanicked, VaultTypeInv
    <3> QED
      BY <3>1, <3>2
  <2> QED
    BY <1>0, <1>q, <2>1, <2>3
<1>6. CASE Finish(w)
  <2> DEFINE d == job[w].doc
  <2>1. /\ d \in Docs /\ job[w].preview \in Statuses /\ job[w].thumb \in Statuses /\ job[w].keys \in SUBSET Derived
        /\ UNCHANGED <<stage, bucket, queue, inFlight, boot, pass>>
    BY <1>6, <1>j DEF Finish
  <2>2. job' \in [Workers -> Jobs]
    BY <1>6, <1>l, <2>1 DEF Finish, VaultTypeInv
  <2>3. SetPreviewResult(d, job[w].preview, job[w].thumb, job[w].keys) \/ UNCHANGED row
    BY <1>6 DEF Finish
  <2>4. row' \in [Docs -> Rows \cup {NoDocument}] /\ \A x \in Docs : HasRow(x)' <=> HasRow(x)
    <3>1. CASE SetPreviewResult(d, job[w].preview, job[w].thumb, job[w].keys)
      BY <2>1, <3>1, Results
    <3>2. CASE UNCHANGED row
      BY <3>2 DEF VaultTypeInv, HasRow
    <3> QED
      BY <2>3, <3>1, <3>2
  <2>5. deferred' \subseteq Docs
    BY <1>6, <1>q, <2>1 DEF Finish
  <2> HIDE DEF d
  <2>6. VaultTypeInv'
    BY <2>1, <2>2, <2>4, <2>5 DEF VaultTypeInv, bucket, boot
  <2> QED
    BY <2>1, <2>4, <2>6 DEF bucket
<1>7. CASE Leave(w)
  <2>1. job' \in [Workers -> Jobs]
    BY <1>7 DEF Leave, VaultTypeInv, Jobs
  <2> QED
    BY <1>0, <1>7, <1>q, <2>1 DEF Leave
<1> QED
  BY <1>1, <1>2, <1>3, <1>4, <1>5, <1>6, <1>7

\* The queue and the pool's reasons change, and rows' statuses; nothing else does.
LEMMA StartUpType ==
  ASSUME VaultTypeInv, QueueSize \in Nat,
         \/ \E d \in Docs : BackfillSettled(d) \/ RequeuePending(d) \/ SettlePending(d)
         \/ \E enabled, converter \in BOOLEAN : Start(enabled, converter)
         \/ ListPending \/ StartDone
  PROVE  /\ VaultTypeInv'
         /\ UNCHANGED <<stage, bucket, job, pass>>
         /\ \A d \in Docs : HasRow(d)' <=> HasRow(d)
<1>k. ASSUME UNCHANGED row PROVE \A d \in Docs : HasRow(d)' <=> HasRow(d)
  BY <1>k DEF HasRow
<1>r. ASSUME NEW d \in Docs, HasRow(d)
      PROVE  /\ row[d] \in Rows
             /\ Reopened(d).preview \in Statuses /\ Reopened(d).thumb \in Statuses
             /\ PreviewPlan(row[d].type, FALSE) \in Statuses
  <2>1. row[d] \in Rows
    BY <1>r DEF VaultTypeInv, HasRow
  <2>2. row[d].type \in Types /\ row[d].preview \in Statuses /\ row[d].thumb \in Statuses
    BY <2>1 DEF Rows
  <2>3. PreviewPlan(row[d].type, TRUE) \in Statuses /\ PreviewPlan(row[d].type, FALSE) \in Statuses
    BY <2>2, Plans
  <2> QED
    BY <2>1, <2>2, <2>3 DEF Reopened, Statuses
<1>1. ASSUME NEW d \in Docs, BackfillSettled(d) PROVE VaultTypeInv' /\ UNCHANGED <<stage, bucket, job, pass>> /\ \A x \in Docs : HasRow(x)' <=> HasRow(x)
  <2>1. Enqueue(d) /\ todo' = todo \ {d} /\ UNCHANGED <<stage, bucket, job, conf, phase, pass>>
    BY <1>1 DEF BackfillSettled
  <2>2. queue' \in Seq(Docs) /\ Len(queue') <= QueueSize /\ inFlight' \subseteq Docs /\ deferred' \subseteq Docs
    BY <2>1, Enqueues
  <2>3. row' \in [Docs -> Rows \cup {NoDocument}] /\ \A x \in Docs : HasRow(x)' <=> HasRow(x)
    <3>1. CASE HasRow(d)
      <4>1. PICK p \in Statuses, th \in Statuses : SetPreviewResult(d, p, th, {})
        BY <1>1, <1>r, <3>1 DEF BackfillSettled
      <4> QED
        BY <4>1, Results
    <3>2. CASE ~HasRow(d)
      BY <1>1, <1>k, <3>2 DEF BackfillSettled, VaultTypeInv
    <3> QED
      BY <3>1, <3>2
  <2>4. VaultTypeInv'
    BY <2>1, <2>2, <2>3 DEF VaultTypeInv, bucket
  <2> QED
    BY <2>1, <2>3, <2>4
<1>2. ASSUME NEW d \in Docs, RequeuePending(d) PROVE VaultTypeInv' /\ UNCHANGED <<row, stage, bucket, job, pass>>
  <2>1. Enqueue(d) /\ todo' = todo \ {d} /\ UNCHANGED <<row, stage, bucket, job, conf, phase, pass>>
    BY <1>2 DEF RequeuePending
  <2>2. queue' \in Seq(Docs) /\ Len(queue') <= QueueSize /\ inFlight' \subseteq Docs /\ deferred' \subseteq Docs
    BY <2>1, Enqueues
  <2>3. VaultTypeInv'
    BY <2>1, <2>2 DEF VaultTypeInv, bucket
  <2> QED
    BY <2>1, <2>3
<1>3. ASSUME NEW d \in Docs, SettlePending(d) PROVE VaultTypeInv' /\ UNCHANGED <<stage, bucket, job, pass>> /\ \A x \in Docs : HasRow(x)' <=> HasRow(x)
  <2>1. todo' = todo \ {d} /\ UNCHANGED <<stage, bucket, pool, conf, phase, pass>>
    BY <1>3 DEF SettlePending
  <2>3. row' \in [Docs -> Rows \cup {NoDocument}] /\ \A x \in Docs : HasRow(x)' <=> HasRow(x)
    <3>1. CASE HasRow(d)
      <4>1. PICK p \in Statuses : SetPreviewResult(d, p, "none", {})
        <5>1. (IF row[d].preview = "pending" THEN PreviewPlan(row[d].type, FALSE) ELSE row[d].preview) \in Statuses
          BY <3>1, <1>r DEF Rows
        <5> QED
          BY <1>3, <3>1, <5>1 DEF SettlePending
      <4> QED
        BY <4>1, Results DEF Statuses
    <3>2. CASE ~HasRow(d)
      BY <1>3, <1>k, <3>2 DEF SettlePending, VaultTypeInv
    <3> QED
      BY <3>1, <3>2
  <2>4. VaultTypeInv'
    BY <2>1, <2>3 DEF VaultTypeInv, bucket, pool
  <2> QED
    BY <2>1, <2>3, <2>4 DEF pool
<1>4. ASSUME NEW enabled \in BOOLEAN, NEW converter \in BOOLEAN, Start(enabled, converter)
      PROVE  VaultTypeInv' /\ UNCHANGED <<row, stage, bucket, job, pass>>
  <2>1. SettledWithoutDerivation(converter) \subseteq Docs /\ PendingPreviewIDs \subseteq Docs
    BY DEF SettledWithoutDerivation, PendingPreviewIDs
  <2> QED
    BY <1>4, <2>1 DEF Start, VaultTypeInv, bucket, pool
<1>5. CASE ListPending
  <2>1. PendingPreviewIDs \subseteq Docs
    BY DEF PendingPreviewIDs
  <2> QED
    BY <1>5, <1>k, <2>1 DEF ListPending, VaultTypeInv, bucket
<1>6. CASE StartDone
  BY <1>6, <1>k DEF StartDone, VaultTypeInv, bucket, pool
<1> QED
  BY <1>1, <1>2, <1>3, <1>4, <1>5, <1>6, <1>k

----------------------------------------------------------------------------
(* The originals. *)

\* Requests: what each does to its own document, and that it leaves the others.
LEMMA RequestStep ==
  ASSUME VaultInv, NEW d \in Docs,
         \/ UploadPut(d) \/ UploadRefused(d) \/ DeleteDocument(d) \/ \E type \in Types : UploadInsert(d, type)
  PROVE  VaultInv'
<1> USE DEF VaultInv
<1>t. row \in [Docs -> Rows \cup {NoDocument}] /\ stage \in [Docs -> Stages] /\ objects \subseteq Parts /\ old \subseteq objects
  BY DEF VaultTypeInv
<1>d. Original(d) \in Parts /\ \A x \in Docs : Original(x) = Original(d) => x = d
  BY DEF Original, Parts
<1>f. ASSUME stage' \in [Docs -> Stages], row' \in [Docs -> Rows \cup {NoDocument}], objects' \subseteq Parts, old' \subseteq objects',
             UNCHANGED <<pool, boot, pass>>
      PROVE  VaultTypeInv'
  BY <1>f DEF VaultTypeInv, pool, boot
<1>1. CASE UploadPut(d)
  <2>1. /\ stage[d] = "new" /\ stage' = [stage EXCEPT ![d] = "sent"] /\ UNCHANGED <<row, pool, boot, pass>>
        /\ objects' = objects \cup {Original(d)} /\ old' = old \ {Original(d)}
    BY <1>1 DEF UploadPut, Put, Original
  <2>2. VaultTypeInv'
    BY <1>f, <1>t, <1>d, <2>1 DEF Stages
  <2>3. StageInv'
    BY <1>t, <1>d, <2>1 DEF StageInv, HasRow, Stages
  <2>4. PassInv'
    BY <1>t, <1>d, <2>1 DEF PassInv, HasRow, Stages
  <2> QED
    BY <2>2, <2>3, <2>4
<1>2. ASSUME NEW type \in Types, UploadInsert(d, type) PROVE VaultInv'
  <2>1. PICK r \in Rows : row' = [row EXCEPT ![d] = r]
    <3>1. [type |-> type, preview |-> PreviewPlan(type, conf.enabled),
           thumb |-> ThumbnailPlan(type, conf.enabled), keys |-> {}] \in Rows
      BY Plans, RowShapes DEF VaultTypeInv
    <3> QED
      BY <1>2, <3>1 DEF UploadInsert
  <2>2. /\ stage[d] = "sent" /\ stage' = [stage EXCEPT ![d] = "committed"] /\ UNCHANGED <<bucket, pool, boot, pass>>
        /\ objects' = objects /\ old' = old
    BY <1>2 DEF UploadInsert, bucket
  <2>3. VaultTypeInv'
    BY <1>f, <1>t, <2>1, <2>2 DEF Stages
  <2>4. StageInv'
    BY <1>t, <2>1, <2>2 DEF StageInv, HasRow, Stages
  <2>5. PassInv'
    BY <1>t, <2>1, <2>2 DEF PassInv, HasRow, Stages
  <2> QED
    BY <2>3, <2>4, <2>5
<1>3. CASE UploadRefused(d)
  <2>1. /\ stage[d] = "sent" /\ stage' = [stage EXCEPT ![d] = "gone"] /\ UNCHANGED <<row, pool, boot, pass>>
        /\ Remove({Original(d)}) \/ UNCHANGED bucket
    BY <1>3 DEF UploadRefused, Original
  <2>2. /\ objects' \subseteq Parts /\ old' \subseteq objects' /\ objects' \subseteq objects /\ old' \subseteq old
        /\ \A k : k # Original(d) => (k \in objects' <=> k \in objects)
    BY <2>1, Removes
  <2>3. VaultTypeInv'
    BY <1>f, <1>t, <2>1, <2>2 DEF Stages
  <2>4. StageInv'
    BY <1>t, <1>d, <2>1, <2>2 DEF StageInv, HasRow, Stages
  <2>5. PassInv'
    BY <1>t, <2>1, <2>2 DEF PassInv, HasRow, Stages
  <2> QED
    BY <2>3, <2>4, <2>5
<1>4. CASE DeleteDocument(d)
  <2>1. /\ stage[d] = "kept" /\ row' = [row EXCEPT ![d] = NoDocument] /\ stage' = [stage EXCEPT ![d] = "gone"]
        /\ Remove(ObjectKeysOf(d)) \/ UNCHANGED bucket
        /\ UNCHANGED <<pool, boot, pass>>
    BY <1>4 DEF DeleteDocument
  <2>k. \A x \in Docs \ {d} : Original(x) \notin ObjectKeysOf(d)
    BY DEF ObjectKeysOf, Original
  <2>2. /\ objects' \subseteq Parts /\ old' \subseteq objects' /\ objects' \subseteq objects /\ old' \subseteq old
        /\ \A k : k \notin ObjectKeysOf(d) => (k \in objects' <=> k \in objects)
    BY <2>1, Removes
  <2>3. VaultTypeInv'
    BY <1>f, <1>t, <2>1, <2>2 DEF Stages
  <2>4. StageInv'
    BY <1>t, <2>k, <2>1, <2>2 DEF StageInv, HasRow, Stages
  <2>5. PassInv'
    BY <1>t, <2>1, <2>2 DEF PassInv, HasRow, Stages
  <2> QED
    BY <2>3, <2>4, <2>5
<1> QED
  BY <1>1, <1>2, <1>3, <1>4

\* The daily pass, and time.
LEMMA PassStep ==
  ASSUME VaultInv, ListObjects \/ ReadClaims \/ Reconcile \/ Age
  PROVE  VaultInv'
<1> USE DEF VaultInv
<1>t. row \in [Docs -> Rows \cup {NoDocument}] /\ stage \in [Docs -> Stages] /\ objects \subseteq Parts /\ old \subseteq objects
  BY DEF VaultTypeInv
<1>f. ASSUME objects' \subseteq Parts, old' \subseteq objects', pass' \in Passes, UNCHANGED <<row, stage, pool, boot>>
      PROVE  VaultTypeInv'
  BY <1>f DEF VaultTypeInv, pool, boot
<1>1. CASE ListObjects
  <2>1. /\ pass' = [at |-> "listed", present |-> objects, aged |-> old]
        /\ UNCHANGED <<row, stage, bucket, pool, boot>> /\ objects' = objects /\ old' = old
    BY <1>1 DEF ListObjects, bucket
  <2>2. pass' \in Passes
    BY <1>t, <2>1 DEF Passes
  <2>3. VaultTypeInv'
    BY <1>f, <1>t, <2>1, <2>2
  <2>4. StageInv'
    BY <2>1 DEF StageInv, HasRow
  <2>5. PassInv'
    BY <1>t, <2>1 DEF PassInv, StageInv
  <2> QED
    BY <2>3, <2>4, <2>5
<1>2. CASE ReadClaims
  <2>1. /\ pass.at = "listed" /\ pass # Idle /\ pass.present \subseteq Parts /\ pass.aged \subseteq Parts
        /\ pass' = [at |-> "read", present |-> pass.present, aged |-> pass.aged, claimed |-> ExpectedObjects]
        /\ UNCHANGED <<row, stage, bucket, pool, boot>> /\ objects' = objects /\ old' = old
    BY <1>2, PassShapes DEF ReadClaims, bucket
  <2>2. pass' \in Passes
    <3>1. ASSUME NEW d \in Docs, HasRow(d) PROVE ObjectKeysOf(d) \subseteq Parts
      <4>1. row[d].keys \subseteq Derived
        BY <3>1, <1>t DEF HasRow, Rows
      <4> QED
        BY <4>1 DEF ObjectKeysOf, Parts
    <3>2. ExpectedObjects \subseteq Parts
      BY <3>1 DEF ExpectedObjects
    <3> QED
      BY <3>2, <2>1 DEF Passes
  <2>3. VaultTypeInv'
    BY <1>f, <1>t, <2>1, <2>2
  <2>4. StageInv'
    BY <2>1 DEF StageInv, HasRow
  <2>5. \A d \in Docs : HasRow(d) => Original(d) \in ExpectedObjects
    BY DEF ExpectedObjects, ObjectKeysOf, Original
  <2>6. pass'.aged = pass.aged /\ pass'.claimed = ExpectedObjects
    BY <2>1
  <2>7. PassInv'
    BY <2>1, <2>5, <2>6 DEF PassInv, HasRow
  <2> QED
    BY <2>3, <2>4, <2>7
<1>3. CASE Reconcile
  <2>1. /\ pass.at = "read" /\ pass # Idle /\ pass' = Idle /\ UNCHANGED <<row, stage, pool, boot>>
        /\ Remove(Deletable) \/ UNCHANGED bucket
    BY <1>3, PassShapes DEF Reconcile
  <2>2. /\ objects' \subseteq Parts /\ old' \subseteq objects' /\ objects' \subseteq objects /\ old' \subseteq old
        /\ \A k : k \notin Deletable => (k \in objects' <=> k \in objects)
    BY <2>1, Removes
  <2>3. VaultTypeInv'
    BY <1>f, <2>1, <2>2 DEF Passes
  <2>4. \A d \in Docs : HasRow(d) \/ stage[d] = "sent" => Original(d) \notin Deletable
    BY <2>1 DEF PassInv, Deletable
  <2>5. StageInv'
    BY <2>1, <2>2, <2>4 DEF StageInv, HasRow
  <2>6. PassInv'
    BY <2>1 DEF PassInv
  <2> QED
    BY <2>3, <2>5, <2>6
<1>4. CASE Age
  <2>1. /\ pass = Idle /\ \A d \in Docs : stage[d] # "sent"
        /\ old' = objects /\ UNCHANGED <<row, stage, objects, pool, boot, pass>>
    BY <1>4 DEF Age
  <2>2. VaultTypeInv'
    BY <2>1 DEF VaultTypeInv, pool, boot
  <2>3. StageInv'
    BY <2>1 DEF StageInv, HasRow
  <2>4. PassInv'
    BY <2>1 DEF PassInv
  <2> QED
    BY <2>2, <2>3, <2>4
<1> QED
  BY <1>1, <1>2, <1>3, <1>4

LEMMA StopType == ASSUME VaultInv, QueueSize \in Nat, Stop PROVE VaultInv'
<1> USE DEF VaultInv
<1>1. /\ phase' = "down" /\ queue' = <<>> /\ inFlight' = {} /\ job' = [w \in Workers |-> Idle]
      /\ deferred' = {} /\ todo' = {} /\ pass' = Idle /\ UNCHANGED <<row, bucket, conf>>
      /\ objects' = objects /\ old' = old
  BY DEF Stop, bucket
<1>2. /\ stage' \in [Docs -> Stages]
      /\ \A d \in Docs : /\ stage'[d] # "sent"
                         /\ stage'[d] = "new" => stage[d] = "new"
                         /\ stage[d] \in {"committed", "kept"} => stage'[d] = "kept"
  <2>1. \A d \in Docs : stage'[d] = CASE stage[d] = "sent" -> "gone"
                                      [] stage[d] = "committed" -> "kept"
                                      [] OTHER -> stage[d]
    BY DEF Stop
  <2>2. \A d \in Docs : stage[d] \in Stages
    BY DEF VaultTypeInv
  <2>3. \A d \in Docs : /\ stage'[d] \in Stages /\ stage'[d] # "sent"
                        /\ stage'[d] = "new" => stage[d] = "new"
                        /\ stage[d] \in {"committed", "kept"} => stage'[d] = "kept"
    BY <2>1, <2>2 DEF Stages
  <2>4. stage' = [d \in Docs |-> stage'[d]]
    BY DEF Stop
  <2> QED
    BY <2>3, <2>4
<1>3. VaultTypeInv'
  <2>1. job' \in [Workers -> Jobs] /\ <<>> \in Seq(Docs) /\ Len(<<>>) = 0
    BY <1>1 DEF Jobs
  <2> QED
    BY <1>1, <1>2, <2>1 DEF VaultTypeInv, Passes
<1>4. StageInv'
  BY <1>1, <1>2 DEF StageInv, HasRow
<1>5. PassInv'
  BY <1>1 DEF PassInv
<1> QED
  BY <1>3, <1>4, <1>5

LEMMA EnqueueType == ASSUME VaultInv, QueueSize \in Nat, NEW d \in Docs, UploadEnqueue(d) PROVE VaultInv'
<1> USE DEF VaultInv
<1>1. stage' = [stage EXCEPT ![d] = "kept"] /\ stage[d] = "committed" /\ UNCHANGED <<row, bucket, job, boot, pass>>
      /\ objects' = objects /\ old' = old
  BY DEF UploadEnqueue, bucket
<1>2. queue' \in Seq(Docs) /\ Len(queue') <= QueueSize /\ inFlight' \subseteq Docs /\ deferred' \subseteq Docs
  <2>1. Enqueue(d) \/ UNCHANGED <<queue, inFlight, deferred>>
    BY DEF UploadEnqueue
  <2>2. CASE Enqueue(d)
    BY <2>2, Enqueues
  <2>3. CASE UNCHANGED <<queue, inFlight, deferred>>
    BY <2>3 DEF VaultTypeInv
  <2> QED
    BY <2>1, <2>2, <2>3
<1>3. stage' \in [Docs -> Stages]
  BY <1>1 DEF VaultTypeInv, Stages
<1>4. VaultTypeInv'
  BY <1>1, <1>2, <1>3 DEF VaultTypeInv, boot
<1>5. StageInv'
  BY <1>1 DEF StageInv, HasRow, VaultTypeInv
<1>6. PassInv'
  BY <1>1 DEF PassInv, HasRow, VaultTypeInv
<1> QED
  BY <1>4, <1>5, <1>6

LEMMA VaultInvInit == ASSUME QueueSize \in Nat, VaultInit PROVE VaultInv
<1>1. VaultTypeInv
  <2>1. job \in [Workers -> Jobs] /\ Len(<<>>) = 0 /\ <<>> \in Seq(Docs)
    BY DEF VaultInit, Jobs
  <2> QED
    BY <2>1 DEF VaultInit, VaultTypeInv, Stages, Passes, Parts
<1>2. StageInv /\ PassInv
  BY DEF VaultInit, StageInv, PassInv, HasRow
<1> QED
  BY <1>1, <1>2 DEF VaultInv

LEMMA VaultStep == ASSUME VaultInv, QueueSize \in Nat, [VaultNext]_vaultVars PROVE VaultInv'
<1>q. ASSUME VaultTypeInv', UNCHANGED <<stage, pass>>,
             \A d \in Docs : /\ HasRow(d)' <=> HasRow(d)
                             /\ Original(d) \in objects' <=> Original(d) \in objects
                             /\ Original(d) \in old' <=> Original(d) \in old
      PROVE  VaultInv'
  <2>1. StageInv'
    BY <1>q DEF VaultInv, StageInv
  <2>2. PassInv'
    BY <1>q DEF VaultInv, PassInv
  <2> QED
    BY <1>q, <2>1, <2>2 DEF VaultInv
<1>1. ASSUME NEW d \in Docs,
             \/ UploadPut(d) \/ UploadRefused(d) \/ DeleteDocument(d) \/ \E type \in Types : UploadInsert(d, type)
      PROVE  VaultInv'
  BY <1>1, RequestStep
<1>2. ASSUME NEW d \in Docs, UploadEnqueue(d) PROVE VaultInv'
  BY <1>2, EnqueueType
<1>3. ASSUME \/ \E d \in Docs : BackfillSettled(d) \/ RequeuePending(d) \/ SettlePending(d)
             \/ \E enabled, converter \in BOOLEAN : Start(enabled, converter)
             \/ ListPending \/ StartDone
      PROVE  VaultInv'
  <2>1. VaultTypeInv' /\ UNCHANGED <<stage, bucket, job, pass>> /\ \A d \in Docs : HasRow(d)' <=> HasRow(d)
    BY <1>3, StartUpType DEF VaultInv
  <2> QED
    BY <2>1, <1>q DEF bucket
<1>4. ASSUME NEW w \in Workers,
             Take(w) \/ Transient(w) \/ DeriveOfficePreview(w) \/ EncodeAndStoreThumb(w)
               \/ SettlePanicked(w) \/ Finish(w) \/ Leave(w)
      PROVE  VaultInv'
  <2>1. /\ VaultTypeInv' /\ UNCHANGED <<stage, boot, pass>>
        /\ \A d \in Docs : /\ HasRow(d)' <=> HasRow(d)
                           /\ Original(d) \in objects' <=> Original(d) \in objects
                           /\ Original(d) \in old' <=> Original(d) \in old
    BY <1>4, WorkerType DEF VaultInv
  <2> QED
    BY <2>1, <1>q
<1>5. ASSUME ListObjects \/ ReadClaims \/ Reconcile \/ Age PROVE VaultInv'
  BY <1>5, PassStep
<1>6. CASE Stop
  BY <1>6, StopType
<1>7. CASE UNCHANGED vaultVars
  <2>1. VaultTypeInv' /\ UNCHANGED <<stage, pass, objects, old, row>>
    BY <1>7 DEF VaultInv, VaultTypeInv, vaultVars, bucket, pool, boot
  <2> QED
    BY <2>1, <1>q DEF HasRow
<1> QED
  BY <1>1, <1>2, <1>3, <1>4, <1>5, <1>6, <1>7 DEF VaultNext

----------------------------------------------------------------------------
(* The previews. *)

Pending(d) == HasRow(d) /\ (row[d].preview = "pending" \/ row[d].thumb = "pending")
Queued(d) == \E i \in DOMAIN queue : queue[i] = d
InHand(d) == \E w \in Workers : job[w] # Idle /\ job[w].doc = d
Uploaded(d) == stage[d] \in {"committed", "kept", "gone"}
WorkedOn(d) == stage[d] = "committed" \/ d \in deferred \/ Queued(d) \/ InHand(d)

\* What has a turn was uploaded, so its row never comes back once it is gone;
\* the pool's marks are of what has a turn; only what the pool derives is pending.
TurnInv ==
  \A d \in Docs : /\ Queued(d) \/ InHand(d) => Uploaded(d)
                  /\ d \in inFlight => Queued(d) \/ InHand(d)
                  /\ Pending(d) => NeedsDerivedObject(row[d].type)

\* What a job leaves pending it has put off to the next boot.
JobOK(w) ==
  /\ job[w].at = "rastering" /\ HasRow(job[w].doc) => row[job[w].doc].type = "office"
  /\ job[w].at = "finishing" =>
       /\ job[w].preview # "pending"
       /\ job[w].thumb = "pending" /\ HasRow(job[w].doc) => NeedsDerivedObject(row[job[w].doc].type)
  /\ job[w].at = "leaving" /\ Pending(job[w].doc) => job[w].doc \in deferred

JobInv == \A w \in Workers : JobOK(w)

\* A boot begins with an empty pool, and opens again only what has no turn.
StartInv ==
  /\ phase = "down" => /\ queue = <<>> /\ \A w \in Workers : job[w] = Idle
                       /\ \A d \in Docs : stage[d] \notin {"sent", "committed"}
  /\ phase = "backfill" => \A d \in todo : /\ stage[d] \in {"kept", "gone"} /\ ~Queued(d) /\ ~InHand(d)
                                           /\ HasRow(d) => NeedsDerivedObject(row[d].type)
  /\ phase = "requeue" => \A d \in todo : Uploaded(d)
  /\ phase = "settle" => ~conf.enabled

\* While start-up queues what is pending, whatever it has yet to come to is on its list.
WorkInv ==
  conf.enabled /\ phase \in {"requeue", "up"} =>
    \A d \in Docs : Pending(d) => WorkedOn(d) \/ (phase = "requeue" /\ d \in todo)

PreviewInv == TurnInv /\ JobInv /\ StartInv /\ WorkInv

\* What every step within a boot leaves of the rows: an uploaded document's row
\* never appears again, and nothing becomes pending that the pool does not derive.
RowsGoOn ==
  \A x \in Docs :
    /\ Uploaded(x) => Uploaded(x)'
    /\ stage[x] \in {"kept", "gone"} => stage'[x] \in {"kept", "gone"}
    /\ HasRow(x)' => ~Uploaded(x) \/ (HasRow(x) /\ row'[x].type = row[x].type)
    /\ Pending(x)' => NeedsDerivedObject(row'[x].type)

\* And of the turns: who is given one has been uploaded and is not to be opened
\* again, and who loses one without a reason has nothing pending.
TurnsGoOn ==
  /\ UNCHANGED <<conf, phase>> /\ todo' \subseteq todo /\ deferred \subseteq deferred'
  /\ phase = "down" => UNCHANGED <<queue, job, stage>>
  /\ \A x \in Docs :
       /\ Queued(x)' \/ InHand(x)'
            => Queued(x) \/ InHand(x) \/ (Uploaded(x) /\ (phase = "backfill" => x \notin todo'))
       /\ x \in inFlight' => Queued(x)' \/ InHand(x)'
       /\ phase = "requeue" /\ x \in todo \ todo' => WorkedOn(x)'
       /\ Pending(x)' => Pending(x) \/ WorkedOn(x)'
       /\ Pending(x)' /\ WorkedOn(x) => WorkedOn(x)' \/ ~conf.enabled

LEMMA GoesOn ==
  ASSUME VaultTypeInv, PreviewInv, RowsGoOn, TurnsGoOn
  PROVE  TurnInv' /\ StartInv' /\ WorkInv'
<1> USE DEF PreviewInv
<1>1. TurnInv'
  <2> SUFFICES ASSUME NEW d \in Docs
               PROVE  /\ Queued(d)' \/ InHand(d)' => Uploaded(d)'
                      /\ d \in inFlight' => Queued(d)' \/ InHand(d)'
                      /\ Pending(d)' => NeedsDerivedObject(row'[d].type)
    BY DEF TurnInv
  <2>1. Queued(d) \/ InHand(d) => Uploaded(d)
    BY DEF TurnInv
  <2> QED
    BY <2>1 DEF RowsGoOn, TurnsGoOn
<1>2. StartInv'
  <2>1. phase' = phase /\ conf' = conf /\ todo' \subseteq todo
    BY DEF TurnsGoOn
  <2>2. ASSUME phase = "down"
        PROVE  queue' = <<>> /\ (\A w \in Workers : job'[w] = Idle) /\ \A d \in Docs : stage'[d] \notin {"sent", "committed"}
    BY <2>2 DEF TurnsGoOn, StartInv
  <2>3. ASSUME phase = "backfill", NEW d \in Docs, d \in todo'
        PROVE  stage'[d] \in {"kept", "gone"} /\ ~Queued(d)' /\ ~InHand(d)' /\ (HasRow(d)' => NeedsDerivedObject(row'[d].type))
    <3>1. stage[d] \in {"kept", "gone"} /\ ~Queued(d) /\ ~InHand(d) /\ (HasRow(d) => NeedsDerivedObject(row[d].type))
      BY <2>1, <2>3 DEF StartInv
    <3>2. stage'[d] \in {"kept", "gone"} /\ (HasRow(d)' => NeedsDerivedObject(row'[d].type))
      BY <3>1 DEF RowsGoOn, Uploaded
    <3>3. ~Queued(d)' /\ ~InHand(d)'
      BY <2>3, <3>1 DEF TurnsGoOn
    <3> QED
      BY <3>2, <3>3
  <2>4. ASSUME phase = "requeue", NEW d \in Docs, d \in todo' PROVE Uploaded(d)'
    <3>1. Uploaded(d)
      BY <2>1, <2>4 DEF StartInv
    <3> QED
      BY <3>1 DEF RowsGoOn
  <2>5. todo' \subseteq Docs
    BY <2>1 DEF VaultTypeInv
  <2> QED
    BY <2>1, <2>2, <2>3, <2>4, <2>5 DEF StartInv
<1>3. WorkInv'
  <2> SUFFICES ASSUME conf.enabled, phase \in {"requeue", "up"}, NEW d \in Docs, Pending(d)'
               PROVE  WorkedOn(d)' \/ (phase = "requeue" /\ d \in todo')
    <3>1. phase' = phase /\ conf' = conf
      BY DEF TurnsGoOn
    <3> QED
      BY <3>1 DEF WorkInv
  <2>1. CASE Pending(d)
    <3>1. WorkedOn(d) \/ (phase = "requeue" /\ d \in todo)
      BY <2>1 DEF WorkInv
    <3> QED
      BY <3>1 DEF TurnsGoOn
  <2>2. CASE ~Pending(d)
    BY <2>2 DEF TurnsGoOn
  <2> QED
    BY <2>1, <2>2
<1> QED
  BY <1>1, <1>2, <1>3

\* A worker that keeps its job keeps what holds of it.
LEMMA JobsGoOn ==
  ASSUME VaultTypeInv, PreviewInv, RowsGoOn, NEW v \in Workers, job'[v] = job[v], deferred \subseteq deferred',
         \A x \in Docs : InHand(x) /\ Pending(x)' => Pending(x) \/ x \in deferred'
  PROVE  JobOK(v)'
<1>1. CASE job[v] = Idle
  BY <1>1 DEF Idle, JobOK
<1>2. CASE job[v] # Idle
  <2> DEFINE d == job[v].doc
  <2>1. d \in Docs /\ InHand(d)
    BY <1>2, JobShapes DEF InHand
  <2>2. Uploaded(d)
    BY <2>1 DEF PreviewInv, TurnInv
  <2>3. JobOK(v)
    BY DEF PreviewInv, JobInv
  <2>4. ASSUME row'[d] # NoDocument PROVE HasRow(d) /\ row'[d].type = row[d].type
    BY <2>1, <2>2, <2>4 DEF RowsGoOn, HasRow
  <2>5. ASSUME row'[d] # NoDocument, row'[d].preview = "pending" \/ row'[d].thumb = "pending"
        PROVE  Pending(d) \/ d \in deferred'
    BY <2>1, <2>5 DEF Pending, HasRow
  <2> QED
    BY <2>3, <2>4, <2>5 DEF JobOK, HasRow, Pending
<1> QED
  BY <1>1, <1>2

LEMMA PreviewsGoOn ==
  ASSUME VaultTypeInv, PreviewInv, RowsGoOn, TurnsGoOn,
         \A x \in Docs : InHand(x) /\ Pending(x)' => Pending(x) \/ x \in deferred',
         \A v \in Workers : job'[v] = job[v] \/ JobOK(v)'
  PROVE  PreviewInv'
<1>1. TurnInv' /\ StartInv' /\ WorkInv'
  BY GoesOn
<1>2. deferred \subseteq deferred'
  BY DEF TurnsGoOn
<1>3. JobInv'
  BY <1>2, JobsGoOn DEF JobInv
<1> QED
  BY <1>1, <1>3 DEF PreviewInv

\* A request within its own boot.
LEMMA RequestPreviews ==
  ASSUME VaultInv, PreviewInv, NEW d \in Docs,
         \/ UploadPut(d) \/ UploadRefused(d) \/ DeleteDocument(d) \/ \E type \in Types : UploadInsert(d, type)
  PROVE  PreviewInv'
<1> USE DEF PreviewInv, VaultInv
<1>1. /\ UNCHANGED <<queue, inFlight, job, deferred, conf, phase, todo>>
      /\ \A x \in Docs \ {d} : row'[x] = row[x] /\ stage'[x] = stage[x]
      /\ row \in [Docs -> Rows \cup {NoDocument}] /\ stage \in [Docs -> Stages]
  BY DEF UploadPut, UploadRefused, DeleteDocument, UploadInsert, VaultTypeInv, pool, boot
<1>2. phase # "down"
  BY DEF UploadPut, UploadRefused, DeleteDocument, UploadInsert, StartInv
<1>3. \/ stage[d] = "new" /\ stage'[d] = "sent" /\ row'[d] = row[d]
      \/ stage[d] = "sent" /\ stage'[d] = "gone" /\ row'[d] = row[d]
      \/ stage[d] = "kept" /\ stage'[d] = "gone" /\ row'[d] = NoDocument
      \/ /\ stage[d] = "sent" /\ stage'[d] = "committed"
         /\ Pending(d)' => NeedsDerivedObject(row'[d].type)
  <2>1. CASE UploadPut(d)
    BY <1>1, <2>1 DEF UploadPut
  <2>2. CASE UploadRefused(d)
    BY <1>1, <2>2 DEF UploadRefused
  <2>3. CASE DeleteDocument(d)
    BY <1>1, <2>3 DEF DeleteDocument
  <2>4. ASSUME NEW type \in Types, UploadInsert(d, type)
        PROVE  stage[d] = "sent" /\ stage'[d] = "committed" /\ (Pending(d)' => NeedsDerivedObject(row'[d].type))
    <3>1. /\ stage[d] = "sent" /\ stage'[d] = "committed"
          /\ row'[d] = [type |-> type, preview |-> PreviewPlan(type, conf.enabled),
                        thumb |-> ThumbnailPlan(type, conf.enabled), keys |-> {}]
      BY <1>1, <2>4 DEF UploadInsert
    <3>2. row'[d].type = type /\ row'[d].preview = PreviewPlan(type, conf.enabled)
          /\ row'[d].thumb = ThumbnailPlan(type, conf.enabled)
      BY <3>1
    <3>3. conf.enabled \in BOOLEAN
      BY DEF VaultTypeInv
    <3> QED
      BY <3>1, <3>2, <3>3, Plans DEF Pending
  <2> QED
    BY <2>1, <2>2, <2>3, <2>4
<1>q. \A x \in Docs : /\ Queued(x)' <=> Queued(x)
                      /\ InHand(x)' <=> InHand(x)
                      /\ Pending(x) => NeedsDerivedObject(row[x].type)
                      /\ x \in inFlight => Queued(x) \/ InHand(x)
  BY <1>1 DEF Queued, InHand, TurnInv
<1>x. \A x \in Docs \ {d} : /\ HasRow(x)' <=> HasRow(x)
                            /\ Pending(x)' <=> Pending(x)
                            /\ Uploaded(x)' <=> Uploaded(x)
  BY <1>1 DEF HasRow, Pending, Uploaded
<1>h. InHand(d) => Uploaded(d)
  BY DEF TurnInv
<1>p. /\ HasRow(d)' => ~Uploaded(d) \/ (HasRow(d) /\ row'[d].type = row[d].type)
      /\ Pending(d)' => Pending(d) \/ stage'[d] = "committed"
      /\ Pending(d)' /\ InHand(d) => Pending(d)
      /\ Pending(d)' => NeedsDerivedObject(row'[d].type)
      /\ Uploaded(d) => Uploaded(d)'
      /\ stage[d] = "committed" => stage'[d] = "committed"
      /\ stage[d] \in {"kept", "gone"} => stage'[d] \in {"kept", "gone"}
  BY <1>3, <1>q, <1>h DEF HasRow, Pending, Uploaded
<1>5. RowsGoOn
  BY <1>1, <1>q, <1>x, <1>p DEF RowsGoOn
<1>6. TurnsGoOn
  <2>1. \A x \in Docs : WorkedOn(x) => WorkedOn(x)'
    BY <1>1, <1>q, <1>p DEF WorkedOn
  <2>2. \A x \in Docs : Pending(x)' => Pending(x) \/ WorkedOn(x)'
    BY <1>x, <1>p DEF WorkedOn
  <2> QED
    BY <1>1, <1>2, <1>q, <2>1, <2>2 DEF TurnsGoOn
<1>7. \A x \in Docs : InHand(x) /\ Pending(x)' => Pending(x) \/ x \in deferred'
  BY <1>x, <1>p
<1> QED
  BY <1>1, <1>5, <1>6, <1>7, PreviewsGoOn

\* What Enqueue does for the turns: its own document has one, a mark without a
\* turn is nobody's, and no one else's changes.
LEMMA EnqueueTurns ==
  ASSUME VaultTypeInv, QueueSize \in Nat, PreviewInv, NEW d \in Docs, Enqueue(d), UNCHANGED job
  PROVE  /\ deferred \subseteq deferred'
         /\ \A x \in Docs : Queued(x) => Queued(x)'
         /\ \A x \in Docs : InHand(x)' <=> InHand(x)
         /\ \A x \in Docs : Queued(x)' => Queued(x) \/ x = d
         /\ \A x \in Docs : x \in inFlight' => Queued(x)' \/ InHand(x)'
         /\ d \in deferred' \/ Queued(d)' \/ InHand(d)'
<1>1. \A x \in Docs : InHand(x)' <=> InHand(x)
  BY DEF InHand
<1>2. /\ deferred \subseteq deferred'
      /\ inFlight' \subseteq inFlight \cup {d}
      /\ \A x \in Docs : Queued(x) => Queued(x)'
      /\ \A x \in Docs : Queued(x)' => x = d \/ Queued(x)
      /\ d \in inFlight \/ d \in deferred' \/ Queued(d)'
      /\ d \in inFlight' => d \in inFlight \/ Queued(d)'
  BY Enqueues DEF Queued
<1>3. \A x \in Docs : x \in inFlight => Queued(x) \/ InHand(x)
  BY DEF PreviewInv, TurnInv
<1> QED
  BY <1>1, <1>2, <1>3

LEMMA EnqueuePreviews ==
  ASSUME VaultInv, QueueSize \in Nat, PreviewInv, NEW d \in Docs, UploadEnqueue(d)
  PROVE  PreviewInv'
<1> USE DEF PreviewInv, VaultInv
<1>1. /\ stage[d] = "committed" /\ stage' = [stage EXCEPT ![d] = "kept"] /\ UNCHANGED <<row, job, conf, phase, todo>>
      /\ stage \in [Docs -> Stages]
  BY DEF UploadEnqueue, boot, VaultTypeInv
<1>2. phase # "down"
  BY <1>1 DEF StartInv
<1>3. \A x \in Docs : /\ HasRow(x)' <=> HasRow(x)
                      /\ Pending(x)' <=> Pending(x)
                      /\ Uploaded(x)' <=> Uploaded(x)
                      /\ stage[x] \in {"kept", "gone"} => stage'[x] \in {"kept", "gone"}
                      /\ Pending(x) => NeedsDerivedObject(row[x].type)
                      /\ x # d => stage'[x] = stage[x]
  BY <1>1 DEF HasRow, Pending, Uploaded, TurnInv
<1>4. /\ deferred \subseteq deferred'
      /\ \A x \in Docs : Queued(x) => Queued(x)'
      /\ \A x \in Docs : InHand(x)' <=> InHand(x)
      /\ \A x \in Docs : Queued(x)' => Queued(x) \/ x = d
      /\ \A x \in Docs : x \in inFlight' => Queued(x)' \/ InHand(x)'
      /\ conf.enabled /\ Pending(d) => d \in deferred' \/ Queued(d)' \/ InHand(d)'
  <2>1. CASE Enqueue(d)
    BY <1>1, <2>1, EnqueueTurns
  <2>2. CASE ~(HasRow(d) /\ conf.enabled /\ NeedsDerivedObject(row[d].type)) /\ UNCHANGED <<queue, inFlight, deferred>>
    <3>1. ~(conf.enabled /\ Pending(d))
      BY <1>3, <2>2 DEF Pending
    <3> QED
      BY <1>1, <2>2, <3>1 DEF Queued, InHand, TurnInv
  <2> QED
    BY <2>1, <2>2 DEF UploadEnqueue
<1>5. RowsGoOn
  BY <1>1, <1>3 DEF RowsGoOn
<1>6. TurnsGoOn
  <2>1. Uploaded(d) /\ (phase = "backfill" => d \notin todo')
    BY <1>1 DEF Uploaded, StartInv
  <2>2. \A x \in Docs : Pending(x)' /\ WorkedOn(x) => WorkedOn(x)' \/ ~conf.enabled
    BY <1>3, <1>4 DEF WorkedOn
  <2> QED
    BY <1>1, <1>2, <1>3, <1>4, <2>1, <2>2 DEF TurnsGoOn
<1> QED
  BY <1>1, <1>3, <1>5, <1>6, PreviewsGoOn

\* A worker whose job goes on has the same document in hand.
LEMMA SameHand ==
  ASSUME VaultTypeInv, NEW w \in Workers, NEW j \in Jobs, job' = [job EXCEPT ![w] = j],
         job[w] # Idle, j # Idle, j.doc = job[w].doc
  PROVE  \A x \in Docs : InHand(x)' <=> InHand(x)
<1>1. job'[w] = j /\ \A v \in Workers \ {w} : job'[v] = job[v]
  BY NewJob
<1> QED
  BY <1>1 DEF InHand

\* A worker that goes on with its job leaves the turns as they are.
LEMMA WorkGoesOn ==
  ASSUME VaultTypeInv, PreviewInv, NEW w \in Workers, NEW j \in Jobs, job' = [job EXCEPT ![w] = j],
         job[w] # Idle, j # Idle, j.doc = job[w].doc, JobOK(w)',
         UNCHANGED <<stage, queue, inFlight, boot>>, deferred \subseteq deferred',
         \A x \in Docs : /\ HasRow(x)' => HasRow(x) /\ row'[x].type = row[x].type
                         /\ Pending(x)' => Pending(x) \/ (x \in deferred' /\ NeedsDerivedObject(row[x].type))
  PROVE  PreviewInv'
<1> USE DEF PreviewInv
<1>1. \A x \in Docs : (InHand(x)' <=> InHand(x)) /\ (Queued(x)' <=> Queued(x))
  BY SameHand DEF Queued
<1>2. phase # "down"
  BY DEF StartInv
<1>3. \A x \in Docs : /\ Pending(x) => NeedsDerivedObject(row[x].type)
                      /\ x \in inFlight => Queued(x) \/ InHand(x)
                      /\ Uploaded(x)' <=> Uploaded(x)
  BY DEF TurnInv, Uploaded
<1>4. RowsGoOn
  <2>1. \A x \in Docs : Pending(x)' => HasRow(x)'
    BY DEF Pending
  <2> QED
    BY <1>3, <2>1 DEF RowsGoOn
<1>5. TurnsGoOn
  <2>1. \A x \in Docs : WorkedOn(x) => WorkedOn(x)'
    BY <1>1 DEF WorkedOn
  <2>2. \A x \in Docs : Pending(x)' => Pending(x) \/ WorkedOn(x)'
    BY DEF WorkedOn
  <2>3. UNCHANGED <<conf, phase, todo>>
    BY DEF boot
  <2> QED
    BY <1>1, <1>2, <1>3, <2>1, <2>2, <2>3 DEF TurnsGoOn
<1>6. \A v \in Workers \ {w} : job'[v] = job[v]
  BY NewJob
<1> QED
  BY <1>4, <1>5, <1>6, PreviewsGoOn

LEMMA TakePreviews ==
  ASSUME VaultTypeInv, PreviewInv, NEW w \in Workers, Take(w)
  PROVE  PreviewInv'
<1> USE DEF PreviewInv
<1>0. queue \in Seq(Docs) /\ queue # <<>> /\ Len(queue) \in Nat \ {0}
  BY DEF Take, VaultTypeInv
<1>h. PICK h \in Docs : h = Head(queue)
  BY <1>0
<1>1. /\ h \in Docs /\ Queued(h) /\ job[w] = Idle /\ phase # "down"
      /\ job' = [job EXCEPT ![w] = [doc |-> h, at |-> IF HasRow(h) THEN "deriving" ELSE "leaving"]]
      /\ queue' = Tail(queue) /\ UNCHANGED <<row, stage, inFlight, deferred, conf, phase, todo>>
  <2>1. 1 \in DOMAIN queue /\ queue[1] = h
    BY <1>0, <1>h
  <2> QED
    BY <1>h, <2>1 DEF Take, Queued, boot
<1>2. \A x \in Docs : /\ Queued(x) => Queued(x)' \/ x = h
                      /\ Queued(x)' => Queued(x)
  <2>1. queue \in Seq(Docs) /\ queue # <<>> /\ Len(queue) \in Nat \ {0} /\ h = queue[1]
    BY <1>0, <1>h
  <2>2. /\ DOMAIN queue = 1..Len(queue) /\ DOMAIN queue' = 1..(Len(queue) - 1)
        /\ \A i \in 1..(Len(queue) - 1) : queue'[i] = queue[i + 1]
    BY <1>1, <2>1
  <2>3. \A x \in Docs : Queued(x)' => Queued(x)
    BY <2>1, <2>2 DEF Queued
  <2>4. ASSUME NEW x \in Docs, NEW i \in DOMAIN queue, queue[i] = x, x # h PROVE Queued(x)'
    <3>1. i # 1 /\ i - 1 \in DOMAIN queue' /\ queue'[i - 1] = x
      BY <2>1, <2>2, <2>4
    <3> QED
      BY <3>1 DEF Queued
  <2> QED
    BY <2>3, <2>4 DEF Queued
<1>3. /\ job'[w] = [doc |-> h, at |-> IF HasRow(h) THEN "deriving" ELSE "leaving"] /\ job'[w] # Idle
      /\ job'[w].doc = h
      /\ \A v \in Workers \ {w} : job'[v] = job[v]
  BY <1>1 DEF VaultTypeInv, Idle
<1>4. \A x \in Docs : /\ InHand(x) => InHand(x)'
                      /\ InHand(x)' => InHand(x) \/ x = h
  BY <1>1, <1>3 DEF InHand
<1>5. InHand(h)'
  BY <1>3 DEF InHand
<1>6. \A x \in Docs : /\ HasRow(x)' <=> HasRow(x)
                      /\ Pending(x)' <=> Pending(x)
                      /\ Uploaded(x)' <=> Uploaded(x)
                      /\ Pending(x) => NeedsDerivedObject(row[x].type)
                      /\ x \in inFlight => Queued(x) \/ InHand(x)
  BY <1>1 DEF HasRow, Pending, Uploaded, TurnInv
<1>7. RowsGoOn
  BY <1>1, <1>6 DEF RowsGoOn
<1>8. TurnsGoOn
  <2>1. \A x \in Docs : WorkedOn(x) => WorkedOn(x)'
    BY <1>1, <1>2, <1>4, <1>5 DEF WorkedOn
  <2>2. \A x \in Docs : Queued(x)' \/ InHand(x)' => Queued(x) \/ InHand(x)
    BY <1>1, <1>2, <1>4
  <2>3. \A x \in Docs : x \in inFlight' => Queued(x)' \/ InHand(x)'
    BY <1>1, <1>2, <1>4, <1>5, <1>6
  <2> QED
    BY <1>1, <1>6, <2>1, <2>2, <2>3 DEF TurnsGoOn
<1>9. JobOK(w)'
  <2>1. job'[w].doc = h /\ job'[w].at \in {"deriving", "leaving"} /\ (job'[w].at = "leaving" => ~HasRow(h))
    BY <1>3
  <2>2. row' = row
    BY <1>1
  <2> QED
    BY <2>1, <2>2 DEF JobOK, Pending, HasRow
<1> QED
  BY <1>3, <1>6, <1>7, <1>8, <1>9, PreviewsGoOn

LEMMA LeavePreviews ==
  ASSUME VaultTypeInv, PreviewInv, NEW w \in Workers, Leave(w)
  PROVE  PreviewInv'
<1> USE DEF PreviewInv
<1> DEFINE d == job[w].doc
<1>1. /\ d \in Docs /\ job[w] # Idle /\ job[w].at = "leaving"
      /\ inFlight' = inFlight \ {d} /\ job' = [job EXCEPT ![w] = Idle]
      /\ UNCHANGED <<row, stage, queue, deferred, conf, phase, todo>>
  BY JobShapes DEF Leave, boot, Idle
<1>2. Pending(d) => d \in deferred
  BY <1>1 DEF JobInv, JobOK
<1> HIDE DEF d
<1>3. job'[w] = Idle /\ \A v \in Workers \ {w} : job'[v] = job[v]
  BY <1>1 DEF VaultTypeInv
<1>4. \A x \in Docs : /\ InHand(x)' => InHand(x)
                      /\ InHand(x) => InHand(x)' \/ x = d
                      /\ Queued(x)' <=> Queued(x)
  BY <1>1, <1>3 DEF InHand, Queued, d
<1>5. phase # "down"
  BY <1>1 DEF StartInv
<1>6. \A x \in Docs : /\ HasRow(x)' <=> HasRow(x)
                      /\ Pending(x)' <=> Pending(x)
                      /\ Uploaded(x)' <=> Uploaded(x)
                      /\ Pending(x) => NeedsDerivedObject(row[x].type)
                      /\ x \in inFlight => Queued(x) \/ InHand(x)
  BY <1>1 DEF HasRow, Pending, Uploaded, TurnInv
<1>7. RowsGoOn
  BY <1>1, <1>6 DEF RowsGoOn
<1>8. TurnsGoOn
  <2>1. \A x \in Docs : Pending(x)' /\ WorkedOn(x) => WorkedOn(x)'
    BY <1>1, <1>2, <1>4, <1>6 DEF WorkedOn
  <2> QED
    BY <1>1, <1>4, <1>5, <1>6, <2>1 DEF TurnsGoOn
<1>9. JobOK(w)'
  BY <1>3 DEF JobOK, Idle
<1> QED
  BY <1>1, <1>3, <1>6, <1>7, <1>8, <1>9, PreviewsGoOn

\* What a job finishes with.
LEMMA FinishingJob ==
  ASSUME VaultTypeInv, NEW w \in Workers, job[w].at \in {"deriving", "rastering"},
         NEW p \in Statuses, NEW th \in Statuses, NEW keys \in SUBSET Derived, Finishing(w, p, th, keys)
  PROVE  \E j \in Jobs : /\ job' = [job EXCEPT ![w] = j] /\ j # Idle /\ j.doc = job[w].doc
                         /\ j.at = "finishing" /\ j.preview = p /\ j.thumb = th
<1> DEFINE j == [doc |-> job[w].doc, at |-> "finishing", preview |-> p, thumb |-> th, keys |-> keys]
<1>1. job[w].doc \in Docs
  BY JobShapes DEF Idle
<1>2. j \in Jobs
  BY <1>1 DEF Jobs
<1>3. j.doc = job[w].doc /\ j.at = "finishing" /\ j.preview = p /\ j.thumb = th
  OBVIOUS
<1>4. j # Idle
  BY <1>3 DEF Idle
<1>5. job' = [job EXCEPT ![w] = j]
  BY DEF Finishing
<1> HIDE DEF j
<1> QED
  BY <1>2, <1>3, <1>4, <1>5

\* A job that moves on without finishing.
LEMMA MovingJob ==
  ASSUME VaultTypeInv, NEW w \in Workers, job[w].at \in {"deriving", "rastering"},
         NEW at \in {"rastering", "leaving"}, job' = [job EXCEPT ![w].at = at]
  PROVE  \E j \in Jobs : job' = [job EXCEPT ![w] = j] /\ j # Idle /\ j.doc = job[w].doc /\ j.at = at
<1> DEFINE j == [job[w] EXCEPT !.at = at]
<1>1. job[w] \in [doc : Docs, at : {"deriving", "rastering", "leaving"}]
  BY JobShapes
<1>2. j \in Jobs /\ j.doc = job[w].doc /\ j.at = at
  BY <1>1 DEF Jobs
<1>3. j # Idle
  BY <1>2 DEF Idle
<1>4. job' = [job EXCEPT ![w] = j]
  BY DEF VaultTypeInv
<1> HIDE DEF j
<1> QED
  BY <1>2, <1>3, <1>4

LEMMA WorkerPreviews ==
  ASSUME VaultTypeInv, PreviewInv, NEW w \in Workers,
         Transient(w) \/ DeriveOfficePreview(w) \/ EncodeAndStoreThumb(w) \/ SettlePanicked(w)
  PROVE  PreviewInv'
<1> DEFINE d == job[w].doc
<1>1. /\ d \in Docs /\ job[w] # Idle /\ job[w].at \in {"deriving", "rastering"}
      /\ UNCHANGED <<row, stage, queue, inFlight, boot>> /\ deferred \subseteq deferred'
  BY JobShapes DEF Transient, DeriveOfficePreview, EncodeAndStoreThumb, SettlePanicked, Idle
<1>2. \A x \in Docs : /\ HasRow(x)' => HasRow(x) /\ row'[x].type = row[x].type
                      /\ Pending(x)' => Pending(x)
  BY <1>1 DEF HasRow, Pending
<1>3. TypeOf(w) \in {"office", "picture"} => HasRow(d) /\ row[d].type = TypeOf(w)
  BY DEF TypeOf
<1>4. JobOK(w)
  BY DEF PreviewInv, JobInv
<1>g. ASSUME NEW j \in Jobs, job' = [job EXCEPT ![w] = j], j # Idle, j.doc = d, JobOK(w)'
      PROVE  PreviewInv'
  BY <1>1, <1>2, <1>g, WorkGoesOn
<1>n. ASSUME NEW j \in Jobs, job' = [job EXCEPT ![w] = j] PROVE job'[w] = j
  BY <1>n DEF VaultTypeInv
<1>f. ASSUME NEW p \in Statuses \ {"pending"}, NEW th \in Statuses, NEW keys \in SUBSET Derived, Finishing(w, p, th, keys),
             th = "pending" /\ HasRow(d) => NeedsDerivedObject(row[d].type)
      PROVE  PreviewInv'
  <2>1. PICK j \in Jobs : /\ job' = [job EXCEPT ![w] = j] /\ j # Idle /\ j.doc = d
                          /\ j.at = "finishing" /\ j.preview = p /\ j.thumb = th
    BY <1>1, <1>f, FinishingJob
  <2>2. JobOK(w)'
    BY <1>n, <1>1, <1>f, <2>1 DEF JobOK, HasRow
  <2> QED
    BY <1>g, <2>1, <2>2
<1>5. CASE Transient(w)
  <2>1. PICK j \in Jobs : job' = [job EXCEPT ![w] = j] /\ j # Idle /\ j.doc = d /\ j.at = "leaving"
    BY <1>1, <1>5, MovingJob DEF Transient
  <2>2. d \in deferred'
    BY <1>5 DEF Transient
  <2>3. JobOK(w)'
    BY <1>n, <2>1, <2>2 DEF JobOK
  <2> QED
    BY <1>g, <2>1, <2>3
<1>6. CASE DeriveOfficePreview(w)
  <2>1. CASE Finishing(w, "none", "none", {}) \/ Finishing(w, "failed", "failed", {})
    BY <1>f, <2>1 DEF Statuses
  <2>2. CASE job' = [job EXCEPT ![w].at = "rastering"]
    <3>1. PICK j \in Jobs : job' = [job EXCEPT ![w] = j] /\ j # Idle /\ j.doc = d /\ j.at = "rastering"
      BY <1>1, <2>2, MovingJob
    <3>2. HasRow(d) /\ row[d].type = "office" /\ row' = row
      BY <1>1, <1>3, <1>6 DEF DeriveOfficePreview
    <3>3. JobOK(w)'
      BY <1>n, <3>1, <3>2 DEF JobOK
    <3> QED
      BY <1>g, <3>1, <3>3
  <2> QED
    BY <1>6, <2>1, <2>2 DEF DeriveOfficePreview
<1>7. CASE EncodeAndStoreThumb(w)
  <2> DEFINE made == IF job[w].at = "rastering" THEN {"preview"} ELSE {}
  <2>1. made \in SUBSET Derived /\ made \cup {"thumb"} \in SUBSET Derived
    BY DEF Derived
  <2>2. HasRow(d) => NeedsDerivedObject(row[d].type)
    BY <1>3, <1>4, <1>7 DEF EncodeAndStoreThumb, JobOK, NeedsDerivedObject
  <2>3. \/ Finishing(w, "ready", "failed", made) \/ Finishing(w, "ready", "pending", made)
        \/ Finishing(w, "ready", "ready", made \cup {"thumb"})
    BY <1>7 DEF EncodeAndStoreThumb
  <2> HIDE DEF made
  <2> QED
    BY <1>f, <2>1, <2>2, <2>3 DEF Statuses
<1>8. CASE SettlePanicked(w)
  <2>1. CASE HasRow(d)
    <3>1. row[d].preview \in Statuses
      BY <1>1, <2>1 DEF VaultTypeInv, HasRow, Rows
    <3>2. PICK p \in Statuses \ {"pending"} : Finishing(w, p, "failed", {})
      BY <1>8, <2>1, <3>1 DEF SettlePanicked, Statuses
    <3> QED
      BY <1>f, <3>2 DEF Statuses
  <2>2. CASE ~HasRow(d)
    <3>1. PICK j \in Jobs : job' = [job EXCEPT ![w] = j] /\ j # Idle /\ j.doc = d /\ j.at = "leaving"
      BY <1>1, <1>8, <2>2, MovingJob DEF SettlePanicked
    <3>2. row'[d] = NoDocument
      BY <1>1, <2>2 DEF HasRow
    <3>3. JobOK(w)'
      BY <1>n, <3>1, <3>2 DEF JobOK, Pending, HasRow
    <3> QED
      BY <1>g, <3>1, <3>3
  <2> QED
    BY <2>1, <2>2
<1> QED
  BY <1>5, <1>6, <1>7, <1>8

LEMMA FinishPreviews ==
  ASSUME VaultTypeInv, PreviewInv, NEW w \in Workers, Finish(w)
  PROVE  PreviewInv'
<1>1. PICK d \in Docs : d = job[w].doc
  BY JobShapes DEF Finish
<1> DEFINE j == [doc |-> d, at |-> "leaving"]
<1>2. /\ job[w].preview \in Statuses \ {"pending"} /\ job[w].thumb \in Statuses /\ job[w].keys \in SUBSET Derived
      /\ job[w] # Idle
      /\ job[w].thumb = "pending" /\ HasRow(d) => NeedsDerivedObject(row[d].type)
  BY <1>1, JobShapes DEF Finish, PreviewInv, JobInv, JobOK, Idle
<1>3. /\ job' = [job EXCEPT ![w] = j] /\ UNCHANGED <<stage, queue, inFlight, boot>>
      /\ \/ /\ SetPreviewResult(d, job[w].preview, job[w].thumb, job[w].keys)
            /\ deferred' = IF job[w].thumb = "pending" THEN deferred \cup {d} ELSE deferred
         \/ UNCHANGED row /\ deferred' = deferred \cup {d}
  BY <1>1 DEF Finish
<1>4. j \in Jobs /\ j.doc = d /\ j.at = "leaving"
  BY DEF Jobs
<1>5. j # Idle
  BY <1>4 DEF Idle
<1> HIDE DEF j
<1>6. job'[w] = j
  BY <1>3, <1>4 DEF VaultTypeInv
<1>7. /\ deferred \subseteq deferred'
      /\ \A x \in Docs : /\ HasRow(x)' => HasRow(x) /\ row'[x].type = row[x].type
                         /\ Pending(x)' => Pending(x) \/ (x \in deferred' /\ NeedsDerivedObject(row[x].type))
      /\ Pending(d)' => d \in deferred'
  <2>1. CASE /\ SetPreviewResult(d, job[w].preview, job[w].thumb, job[w].keys)
             /\ deferred' = IF job[w].thumb = "pending" THEN deferred \cup {d} ELSE deferred
    <3>1. PICK p \in Statuses, th \in Statuses, keys \in SUBSET Derived :
             p = job[w].preview /\ th = job[w].thumb /\ SetPreviewResult(d, p, th, keys)
      BY <1>2, <2>1
    <3>2. /\ \A x \in Docs : (HasRow(x)' <=> HasRow(x)) /\ (x # d => row'[x] = row[x])
          /\ HasRow(d) => row'[d].type = row[d].type /\ row'[d].preview = p /\ row'[d].thumb = th
      BY <3>1, Results
    <3>3. \A x \in Docs \ {d} : (HasRow(x)' => HasRow(x) /\ row'[x].type = row[x].type) /\ (Pending(x)' => Pending(x))
      BY <3>2 DEF Pending
    <3>4. Pending(d)' => d \in deferred' /\ NeedsDerivedObject(row[d].type)
      BY <1>2, <2>1, <3>1, <3>2 DEF Pending
    <3>5. deferred \subseteq deferred'
      BY <2>1
    <3> QED
      BY <3>2, <3>3, <3>4, <3>5
  <2>2. CASE UNCHANGED row /\ deferred' = deferred \cup {d}
    BY <2>2 DEF HasRow, Pending
  <2> QED
    BY <1>3, <2>1, <2>2
<1>8. JobOK(w)'
  BY <1>4, <1>6, <1>7 DEF JobOK
<1> QED
  BY <1>1, <1>2, <1>3, <1>4, <1>5, <1>7, <1>8, WorkGoesOn

\* Start-up gives a turn to what it opens again and to what it finds pending.
LEMMA StartUpPreviews ==
  ASSUME VaultInv, QueueSize \in Nat, PreviewInv, NEW d \in Docs,
         BackfillSettled(d) \/ RequeuePending(d) \/ SettlePending(d)
  PROVE  PreviewInv'
<1> USE DEF PreviewInv, VaultInv
<1>1. /\ phase \in {"backfill", "requeue", "settle"} /\ d \in todo /\ todo' = todo \ {d}
      /\ UNCHANGED <<stage, job, conf, phase>>
  BY DEF BackfillSettled, RequeuePending, SettlePending, pool
<1>2. /\ phase = "backfill" => stage[d] \in {"kept", "gone"} /\ ~Queued(d) /\ ~InHand(d)
                               /\ (HasRow(d) => NeedsDerivedObject(row[d].type))
      /\ phase = "requeue" => Uploaded(d)
  BY <1>1 DEF StartInv
<1>3. \A x \in Docs : /\ Pending(x) => NeedsDerivedObject(row[x].type)
                      /\ x \in inFlight => Queued(x) \/ InHand(x)
                      /\ Uploaded(x)' <=> Uploaded(x)
                      /\ InHand(x)' <=> InHand(x)
  BY <1>1 DEF TurnInv, Uploaded, InHand
<1>4. /\ \A x \in Docs : HasRow(x)' => HasRow(x) /\ row'[x].type = row[x].type
      /\ \A x \in Docs \ {d} : Pending(x)' => Pending(x)
      /\ phase = "requeue" => \A x \in Docs : Pending(x)' => Pending(x)
      /\ phase = "settle" => ~Pending(d)'
  <2>1. CASE UNCHANGED row
    <3>1. CASE SettlePending(d) /\ ~HasRow(d)
      BY <2>1, <3>1 DEF HasRow, Pending, SettlePending
    <3>2. CASE phase # "settle"
      BY <2>1, <3>2 DEF HasRow, Pending
    <3>3. CASE SettlePending(d) /\ HasRow(d)
      <4>1. PICK p \in Statuses : SetPreviewResult(d, p, "none", {}) /\ p # "pending"
        <5>1. row[d] \in Rows
          BY <3>3 DEF VaultTypeInv, HasRow
        <5>2. row[d].type \in Types /\ row[d].preview \in Statuses
          BY <5>1 DEF Rows
        <5> QED
          BY <3>3, <5>2, Plans DEF SettlePending
      <4>2. row'[d].preview = p /\ row'[d].thumb = "none"
        BY <3>3, <4>1, Results DEF Statuses
      <4> QED
        BY <2>1, <3>3, <4>1, <4>2 DEF HasRow, Pending, SettlePending
    <3> QED
      BY <1>1, <3>1, <3>2, <3>3 DEF BackfillSettled, RequeuePending, SettlePending
  <2>2. ASSUME NEW p \in Statuses, NEW th \in Statuses, SetPreviewResult(d, p, th, {}), HasRow(d)
        PROVE  /\ \A x \in Docs : HasRow(x)' => HasRow(x) /\ row'[x].type = row[x].type
               /\ \A x \in Docs \ {d} : Pending(x)' => Pending(x)
               /\ p # "pending" /\ th # "pending" => ~Pending(d)'
    <3>1. /\ \A x \in Docs : (HasRow(x)' <=> HasRow(x)) /\ (x # d => row'[x] = row[x])
          /\ row'[d].type = row[d].type /\ row'[d].preview = p /\ row'[d].thumb = th
      BY <2>2, Results
    <3> QED
      BY <3>1 DEF Pending
  <2>3. CASE BackfillSettled(d) /\ HasRow(d)
    <3>1. PICK p \in Statuses, th \in Statuses : SetPreviewResult(d, p, th, {})
      <4>1. row[d] \in Rows
        BY <2>3 DEF VaultTypeInv, HasRow
      <4>2. row[d].type \in Types /\ row[d].preview \in Statuses /\ row[d].thumb \in Statuses
        BY <4>1 DEF Rows
      <4>3. PreviewPlan(row[d].type, TRUE) \in Statuses
        BY <4>2, Plans
      <4>4. Reopened(d).preview \in Statuses /\ Reopened(d).thumb \in Statuses
        BY <4>2, <4>3 DEF Reopened, Statuses
      <4> QED
        BY <2>3, <4>4 DEF BackfillSettled
    <3> QED
      BY <2>2, <2>3, <3>1 DEF BackfillSettled
  <2>4. CASE SettlePending(d) /\ HasRow(d)
    <3>1. row[d] \in Rows
      BY <2>4 DEF VaultTypeInv, HasRow
    <3>2. row[d].type \in Types /\ row[d].preview \in Statuses
      BY <3>1 DEF Rows
    <3>3. PICK p \in Statuses : SetPreviewResult(d, p, "none", {}) /\ p # "pending"
      BY <2>4, <3>2, Plans DEF SettlePending
    <3>4. phase = "settle"
      BY <2>4 DEF SettlePending
    <3> QED
      BY <2>2, <2>4, <3>3, <3>4 DEF Statuses
  <2> QED
    BY <2>1, <2>3, <2>4 DEF BackfillSettled, RequeuePending, SettlePending
<1>5. RowsGoOn
  <2>1. \A x \in Docs : Pending(x)' => HasRow(x)'
    BY DEF Pending
  <2>2. Pending(d)' => NeedsDerivedObject(row[d].type)
    BY <1>1, <1>2, <1>3, <1>4, <2>1
  <2> QED
    BY <1>1, <1>3, <1>4, <2>1, <2>2 DEF RowsGoOn
<1>6. /\ deferred \subseteq deferred'
      /\ \A x \in Docs : Queued(x) => Queued(x)'
      /\ \A x \in Docs : Queued(x)' => Queued(x) \/ (x = d /\ phase # "settle")
      /\ \A x \in Docs : x \in inFlight' => Queued(x)' \/ InHand(x)'
      /\ phase # "settle" => d \in deferred' \/ Queued(d)' \/ InHand(d)'
  <2>1. CASE Enqueue(d) /\ phase # "settle"
    BY <1>1, <2>1, EnqueueTurns
  <2>2. CASE phase = "settle" /\ UNCHANGED <<queue, inFlight, deferred>>
    BY <1>3, <2>2 DEF Queued
  <2> QED
    BY <2>1, <2>2 DEF BackfillSettled, RequeuePending, SettlePending, pool
<1>7. TurnsGoOn
  <2>1. \A x \in Docs : WorkedOn(x) => WorkedOn(x)'
    BY <1>1, <1>3, <1>6 DEF WorkedOn
  <2>2. phase # "settle" => WorkedOn(d)'
    BY <1>6 DEF WorkedOn
  <2>3. \A x \in Docs : Queued(x)' \/ InHand(x)'
          => Queued(x) \/ InHand(x) \/ (Uploaded(x) /\ (phase = "backfill" => x \notin todo'))
    BY <1>1, <1>2, <1>3, <1>6 DEF Uploaded
  <2>4. \A x \in Docs : Pending(x)' => Pending(x) \/ WorkedOn(x)'
    BY <1>1, <1>4, <2>2
  <2>5. phase # "down"
    BY <1>1
  <2>6. \A x \in Docs : phase = "requeue" /\ x \in todo \ todo' => WorkedOn(x)'
    BY <1>1, <2>2
  <2>7. todo' \subseteq todo
    BY <1>1
  <2> QED
    BY <1>1, <1>6, <2>1, <2>3, <2>4, <2>5, <2>6, <2>7 DEF TurnsGoOn
<1>8. \A x \in Docs : InHand(x) /\ Pending(x)' => Pending(x) \/ x \in deferred'
  BY <1>1, <1>2, <1>4
<1> QED
  BY <1>1, <1>5, <1>7, <1>8, PreviewsGoOn

\* A boot begins, goes from one list to the next, and is up.
LEMMA BootPreviews ==
  ASSUME VaultInv, PreviewInv,
         (\E enabled, converter \in BOOLEAN : Start(enabled, converter)) \/ ListPending \/ StartDone
  PROVE  PreviewInv'
<1> USE DEF PreviewInv, VaultInv
<1>1. /\ UNCHANGED <<row, stage, queue, inFlight, job>> /\ deferred \subseteq deferred'
      /\ deferred' = deferred \/ deferred' = deferred \cup PendingPreviewIDs
  BY DEF Start, ListPending, StartDone, pool
<1>2. \A x \in Docs : /\ HasRow(x)' <=> HasRow(x)
                      /\ Pending(x)' <=> Pending(x)
                      /\ Uploaded(x)' <=> Uploaded(x)
                      /\ Queued(x)' <=> Queued(x)
                      /\ InHand(x)' <=> InHand(x)
                      /\ HasRow(x) => Uploaded(x)
                      /\ x \in PendingPreviewIDs <=> Pending(x)
  BY <1>1 DEF HasRow, Pending, Uploaded, Queued, InHand, StageInv, PendingPreviewIDs
<1>3. TurnInv'
  BY <1>1, <1>2 DEF TurnInv
<1>4. JobInv'
  <2>1. \A w \in Workers : JobOK(w)'
    BY <1>1 DEF JobInv, JobOK, HasRow, Pending
  <2> QED
    BY <2>1 DEF JobInv
<1>5. ASSUME NEW enabled \in BOOLEAN, NEW converter \in BOOLEAN, Start(enabled, converter)
      PROVE  StartInv' /\ WorkInv'
  <2>1. /\ phase = "down" /\ conf'.enabled = enabled
        /\ \/ enabled /\ phase' = "backfill" /\ todo' = SettledWithoutDerivation(converter)
           \/ ~enabled /\ phase' = "settle"
    BY <1>5 DEF Start
  <2>2. ASSUME NEW x \in SettledWithoutDerivation(converter)
        PROVE  x \in Docs /\ HasRow(x) /\ NeedsDerivedObject(row[x].type) /\ stage[x] = "kept" /\ ~Queued(x) /\ ~InHand(x)
    <3>1. x \in Docs /\ HasRow(x) /\ NeedsDerivedObject(row[x].type)
      BY <2>2 DEF SettledWithoutDerivation
    <3>2. stage[x] = "kept" /\ queue = <<>> /\ \A w \in Workers : job[w] = Idle
      BY <2>1, <3>1 DEF StartInv, StageInv
    <3> QED
      BY <3>1, <3>2 DEF Queued, InHand
  <2>3. StartInv'
    BY <1>1, <1>2, <2>1, <2>2 DEF StartInv
  <2>4. WorkInv'
    BY <2>1 DEF WorkInv
  <2> QED
    BY <2>3, <2>4
<1>6. CASE ListPending
  <2>1. CASE phase' = "requeue" /\ todo' = PendingPreviewIDs
    <3>1. \A x \in todo' : x \in Docs /\ Uploaded(x)'
      BY <1>2, <2>1 DEF PendingPreviewIDs
    <3>2. StartInv'
      BY <2>1, <3>1 DEF StartInv
    <3>3. WorkInv'
      BY <1>2, <2>1 DEF WorkInv
    <3> QED
      BY <1>3, <1>4, <3>2, <3>3
  <2>2. CASE phase' = "up" /\ deferred' = deferred \cup PendingPreviewIDs
    <3>1. WorkInv'
      BY <1>2, <2>2 DEF WorkInv, WorkedOn
    <3> QED
      BY <1>3, <1>4, <2>2, <3>1 DEF StartInv
  <2> QED
    BY <1>6, <2>1, <2>2 DEF ListPending
<1>7. CASE StartDone
  <2>1. /\ phase \in {"requeue", "settle"} /\ todo = {} /\ phase' = "up" /\ conf' = conf
        /\ UNCHANGED <<stage, queue, job, deferred>>
    BY <1>7 DEF StartDone, pool
  <2>2. \A x \in Docs : WorkedOn(x) => WorkedOn(x)'
    BY <1>2, <2>1 DEF WorkedOn
  <2>3. WorkInv'
    BY <1>2, <2>1, <2>2 DEF WorkInv, StartInv
  <2> QED
    BY <1>3, <1>4, <2>1, <2>3 DEF StartInv
<1> QED
  BY <1>3, <1>4, <1>5, <1>6, <1>7

LEMMA StopPreviews ==
  ASSUME VaultInv, PreviewInv, Stop
  PROVE  PreviewInv'
<1>1. /\ phase' = "down" /\ queue' = <<>> /\ inFlight' = {} /\ job' = [w \in Workers |-> Idle] /\ row' = row
      /\ \A d \in Docs : stage'[d] = CASE stage[d] = "sent" -> "gone"
                                       [] stage[d] = "committed" -> "kept"
                                       [] OTHER -> stage[d]
  BY DEF Stop
<1>2. \A d \in Docs : stage'[d] \notin {"sent", "committed"}
  BY <1>1
<1>3. \A d \in Docs : ~Queued(d)' /\ ~InHand(d)' /\ (Pending(d)' <=> Pending(d))
  BY <1>1 DEF Queued, InHand, Pending, HasRow
<1>4. TurnInv'
  BY <1>1, <1>3 DEF PreviewInv, TurnInv
<1>5. JobInv'
  BY <1>1 DEF JobInv, JobOK, Idle
<1>6. StartInv'
  BY <1>1, <1>2 DEF StartInv
<1>7. WorkInv'
  BY <1>1 DEF WorkInv
<1> QED
  BY <1>4, <1>5, <1>6, <1>7 DEF PreviewInv

LEMMA PreviewInit == ASSUME VaultInit PROVE PreviewInv
<1>1. /\ phase = "down" /\ queue = <<>> /\ inFlight = {} /\ \A w \in Workers : job[w] = Idle
      /\ \A d \in Docs : stage[d] = "new" /\ row[d] = NoDocument
  BY DEF VaultInit
<1>2. \A d \in Docs : ~Queued(d) /\ ~InHand(d) /\ ~Pending(d)
  BY <1>1 DEF Queued, InHand, Pending, HasRow
<1>3. TurnInv /\ StartInv /\ WorkInv
  BY <1>1, <1>2 DEF TurnInv, StartInv, WorkInv
<1>4. JobInv
  BY <1>1 DEF JobInv, JobOK, Idle
<1> QED
  BY <1>3, <1>4 DEF PreviewInv

LEMMA PreviewStep ==
  ASSUME VaultInv, QueueSize \in Nat, PreviewInv, [VaultNext]_vaultVars
  PROVE  PreviewInv'
<1>1. ASSUME NEW d \in Docs,
             \/ UploadPut(d) \/ UploadRefused(d) \/ DeleteDocument(d) \/ \E type \in Types : UploadInsert(d, type)
      PROVE  PreviewInv'
  BY <1>1, RequestPreviews
<1>2. ASSUME NEW d \in Docs, UploadEnqueue(d) PROVE PreviewInv'
  BY <1>2, EnqueuePreviews
<1>3. ASSUME NEW d \in Docs, BackfillSettled(d) \/ RequeuePending(d) \/ SettlePending(d) PROVE PreviewInv'
  BY <1>3, StartUpPreviews
<1>4. ASSUME NEW w \in Workers, Take(w) PROVE PreviewInv'
  BY <1>4, TakePreviews DEF VaultInv
<1>5. ASSUME NEW w \in Workers, Transient(w) \/ DeriveOfficePreview(w) \/ EncodeAndStoreThumb(w) \/ SettlePanicked(w)
      PROVE  PreviewInv'
  BY <1>5, WorkerPreviews DEF VaultInv
<1>6. ASSUME NEW w \in Workers, Finish(w) PROVE PreviewInv'
  BY <1>6, FinishPreviews DEF VaultInv
<1>7. ASSUME NEW w \in Workers, Leave(w) PROVE PreviewInv'
  BY <1>7, LeavePreviews DEF VaultInv
<1>8. ASSUME (\E enabled, converter \in BOOLEAN : Start(enabled, converter)) \/ ListPending \/ StartDone
      PROVE  PreviewInv'
  BY <1>8, BootPreviews
<1>9. CASE Stop
  BY <1>9, StopPreviews
<1>10. ASSUME ListObjects \/ ReadClaims \/ Reconcile \/ Age \/ UNCHANGED vaultVars PROVE PreviewInv'
  <2>1. UNCHANGED <<row, stage, queue, inFlight, job, deferred, conf, phase, todo>>
    BY <1>10 DEF ListObjects, ReadClaims, Reconcile, Age, vaultVars, pool, boot
  <2>2. TurnInv'
    BY <2>1 DEF PreviewInv, TurnInv, Queued, InHand, Uploaded, Pending, HasRow
  <2>3. JobInv'
    BY <2>1 DEF PreviewInv, JobInv, JobOK, Pending, HasRow
  <2>4. StartInv'
    BY <2>1 DEF PreviewInv, StartInv, Queued, InHand, Uploaded, HasRow
  <2>5. WorkInv'
    BY <2>1 DEF PreviewInv, WorkInv, WorkedOn, Queued, InHand, Pending, HasRow
  <2> QED
    BY <2>2, <2>3, <2>4, <2>5 DEF PreviewInv
<1> QED
  BY <1>1, <1>2, <1>3, <1>4, <1>5, <1>6, <1>7, <1>8, <1>9, <1>10 DEF VaultNext

----------------------------------------------------------------------------
(* The theorems. *)

LEMMA VaultInvariant == ASSUME QueueSize \in Nat PROVE VaultSpec => []VaultInv
<1>1. VaultInit => VaultInv
  BY VaultInvInit
<1>2. VaultInv /\ [VaultNext]_vaultVars => VaultInv'
  BY VaultStep
<1> QED
  BY <1>1, <1>2, PTL DEF VaultSpec

LEMMA PreviewInvariant == ASSUME QueueSize \in Nat PROVE VaultSpec => []PreviewInv
<1>1. VaultInit => PreviewInv
  BY PreviewInit
<1>2. VaultInv /\ PreviewInv /\ [VaultNext]_vaultVars => PreviewInv'
  BY PreviewStep
<1> QED
  BY <1>1, <1>2, VaultInvariant, PTL DEF VaultSpec

\* Rows, objects, the pool and a pass keep their types, for any documents,
\* workers and room in the queue.
THEOREM VaultTypeCorrect == ASSUME QueueSize \in Nat PROVE VaultSpec => []VaultTypeOK
<1>1. VaultInv => VaultTypeOK
  BY DEF VaultInv, VaultTypeInv, VaultTypeOK, Stages, Parts
<1> QED
  BY <1>1, VaultInvariant, PTL

\* A document that has a row has the bytes it was uploaded with, whatever fails,
\* stops or is swept meanwhile, for any limits of the sweep: upload.go stores
\* them before the row, and mirror.go lists the bucket before it reads the rows.
THEOREM OriginalBytesAreKept == ASSUME QueueSize \in Nat PROVE VaultSpec => []OriginalsStay
<1>1. VaultInv => OriginalsStay
  BY DEF VaultInv, StageInv, OriginalsStay, Original
<1> QED
  BY <1>1, VaultInvariant, PTL

\* Once start-up is over, whatever is pending is queued, in a worker's hands, or
\* put off to the next boot: preview.go strands nothing, for any room in its
\* queue, any number of workers and any restarts.
THEOREM NothingPendingIsStranded == ASSUME QueueSize \in Nat PROVE VaultSpec => []PendingIsWorkedOn
<1>1. PreviewInv => PendingIsWorkedOn
  <2>1. PreviewInv => WorkInv
    BY DEF PreviewInv
  <2>2. WorkInv => PendingIsWorkedOn
    <3> SUFFICES ASSUME WorkInv, phase = "up", conf.enabled, NEW d \in Docs, Pending(d)
                 PROVE  \/ stage[d] = "committed" \/ d \in deferred
                        \/ \E i \in DOMAIN queue : queue[i] = d
                        \/ \E w \in Workers : job[w] # Idle /\ job[w].doc = d
      BY DEF PendingIsWorkedOn, Pending
    <3>1. WorkedOn(d)
      BY DEF WorkInv
    <3> QED
      BY <3>1 DEF WorkedOn, Queued, InHand
  <2> QED
    BY <2>1, <2>2
<1> QED
  BY <1>1, PreviewInvariant, PTL

----------------------------------------------------------------------------
(* The notes' images. *)

ImageTypeOK ==
  /\ body \in [Notes -> (SUBSET Images) \cup {None}]
  /\ owner \in [Images -> Notes \cup {None}] /\ uploading \in [Images -> Notes \cup {None}]
  /\ used \subseteq Images /\ bytes \subseteq used /\ settled \subseteq used /\ aged \subseteq used
  /\ unrefSince \in [Images -> {"off", "running", "over"}]
  /\ saves \subseteq [note : Notes, before : SUBSET Images, after : SUBSET Images]
  /\ sweep \in {NoPass} \cup [at : {"read", "scanned", "swept"}, expected : SUBSET Images, ids : SUBSET Images]

\* An image between its object and its row.
Fresh(i) == uploading[i] # None
FreshInv ==
  \A i \in Images : Fresh(i) =>
    /\ i \in bytes /\ i \notin ImageRows /\ i \notin settled \cup aged
    /\ \A n \in Notes : Here(n) => i \notin body[n]
    /\ \A save \in saves : i \notin save.before
    /\ sweep # NoPass => i \notin sweep.ids

\* What a pass does not expect to find is no row, or is too young to be removed.
SweepInv ==
  /\ sweep # NoPass => \A i \in ImageRows : i \in sweep.expected \/ i \notin aged
  /\ ImageRows \subseteq used
  /\ \A n \in Notes : Here(n) => body[n] \subseteq used
  /\ \A save \in saves : save.before \subseteq used
  /\ sweep # NoPass => sweep.ids \subseteq used

ImageInv == ImageTypeOK /\ FreshInv /\ SweepInv /\ RowsHaveBytes

----------------------------------------------------------------------------

LEMMA PassRecords ==
  ASSUME ImageTypeOK, sweep # NoPass
  PROVE  sweep \in [at : {"read", "scanned", "swept"}, expected : SUBSET Images, ids : SUBSET Images]
BY DEF ImageTypeOK

LEMMA PassesAreNotIdle ==
  ASSUME NEW s \in [at : {"read", "scanned", "swept"}, expected : SUBSET Images, ids : SUBSET Images]
  PROVE  s # NoPass
<1>1. s.at # "idle"
  OBVIOUS
<1> QED
  BY <1>1 DEF NoPass

LEMMA ImageInitHolds ==
  ASSUME None \notin Notes, ImageInit
  PROVE  ImageInv
<1>1. ImageTypeOK
  BY DEF ImageInit, ImageTypeOK
<1>2. ImageRows = {} /\ \A i \in Images : ~Fresh(i)
  BY DEF ImageInit, ImageRows, Fresh
<1>3. FreshInv /\ SweepInv /\ RowsHaveBytes
  BY <1>2 DEF ImageInit, FreshInv, SweepInv, RowsHaveBytes
<1> QED
  BY <1>1, <1>3 DEF ImageInv

\* What is collected is not between its object and its row.
LEMMA CollectedAreNotFresh ==
  ASSUME None \notin Notes, ImageInv, NEW save \in saves, NEW i \in Candidates(save)
  PROVE  i \in Images /\ ~Fresh(i)
<1>1. save.before \subseteq Images
  BY DEF ImageInv, ImageTypeOK
<1>2. i \in NoteImagesFor(save.note) \/ i \in save.before
  BY DEF Candidates
<1>3. i \in Images
  BY <1>1, <1>2 DEF NoteImagesFor
<1>4. save.note \in Notes
  BY DEF ImageInv, ImageTypeOK
<1> QED
  BY <1>2, <1>3, <1>4 DEF ImageInv, FreshInv, NoteImagesFor, ImageRows, Fresh

\* Every step keeps the invariant.
LEMMA ImageStep ==
  ASSUME None \notin Notes, ImageInv, ImageNext
  PROVE  ImageInv'
<1> USE DEF Here
<1>0. ImageTypeOK /\ FreshInv /\ SweepInv /\ RowsHaveBytes
  BY DEF ImageInv
<1>1. ASSUME NEW n \in Notes, NEW i \in Images, UploadImage(n, i) PROVE ImageInv'
  <2>1. /\ i \notin used /\ used' = used \cup {i} /\ bytes' = bytes \cup {i} /\ UNCHANGED <<store, time, saves, sweep>>
        /\ uploading'[i] = n /\ \A j \in Images \ {i} : uploading'[j] = uploading[j]
    BY <1>0, <1>1 DEF UploadImage, ImageTypeOK
  <2>2. ImageTypeOK'
    BY <1>0, <1>1 DEF UploadImage, ImageTypeOK, store, time
  <2>3. ImageRows' = ImageRows
    BY <2>1 DEF ImageRows, store
  <2>4. i \in bytes' /\ i \notin ImageRows /\ i \notin settled \cup aged /\ (\A m \in Notes : Here(m) => i \notin body[m])
        /\ (\A save \in saves : i \notin save.before) /\ (sweep # NoPass => i \notin sweep.ids)
    BY <1>0, <2>1 DEF SweepInv, ImageTypeOK
  <2>5. FreshInv'
    <3> SUFFICES ASSUME NEW j \in Images, Fresh(j)'
                 PROVE  /\ j \in bytes' /\ j \notin ImageRows' /\ j \notin settled' \cup aged'
                        /\ \A m \in Notes : Here(m)' => j \notin body'[m]
                        /\ \A save \in saves' : j \notin save.before
                        /\ sweep' # NoPass => j \notin sweep'.ids
      BY DEF FreshInv
    <3>1. CASE j = i
      BY <2>1, <2>3, <2>4, <3>1 DEF store, time
    <3>2. CASE j # i
      <4>1. Fresh(j)
        BY <2>1, <3>2 DEF Fresh
      <4> QED
        BY <1>0, <2>1, <2>3, <4>1 DEF FreshInv, store, time
    <3> QED
      BY <3>1, <3>2
  <2>6. SweepInv' /\ RowsHaveBytes'
    BY <1>0, <2>1, <2>3 DEF SweepInv, RowsHaveBytes, store, time
  <2> QED
    BY <2>2, <2>5, <2>6 DEF ImageInv
<1>2. ASSUME NEW i \in Images, InsertNoteImage(i) PROVE ImageInv'
  <2>1. /\ Fresh(i) /\ UNCHANGED <<body, used, time, saves, sweep>>
        /\ uploading'[i] = None /\ \A j \in Images \ {i} : uploading'[j] = uploading[j]
    BY <1>0, <1>2 DEF InsertNoteImage, ImageTypeOK, Fresh
  <2>2. bytes' \subseteq bytes /\ bytes \ bytes' \subseteq {i} /\ (bytes' # bytes => owner' = owner)
        /\ (owner' = owner \/ owner' = [owner EXCEPT ![i] = uploading[i]])
    BY <1>2 DEF InsertNoteImage, PurgeImageObjects
  <2>3. ImageTypeOK'
    <3>1. uploading' \in [Images -> Notes \cup {None}] /\ owner' \in [Images -> Notes \cup {None}]
      BY <1>0, <1>2, <2>2 DEF InsertNoteImage, ImageTypeOK
    <3> QED
      BY <1>0, <2>1, <2>2, <3>1 DEF ImageTypeOK, time
  <2>4. i \in bytes /\ i \notin ImageRows /\ i \notin aged /\ i \in used
    BY <1>0, <2>1 DEF FreshInv, ImageTypeOK
  <2>5. ImageRows' \subseteq ImageRows \cup {i} /\ (bytes' # bytes => ImageRows' = ImageRows)
    BY <1>0, <2>2 DEF ImageRows, ImageTypeOK
  <2>6. ASSUME NEW j \in Images, Fresh(j)' PROVE Fresh(j) /\ j # i
    BY <2>1, <2>6 DEF Fresh
  <2>7. FreshInv'
    BY <1>0, <2>1, <2>2, <2>5, <2>6 DEF FreshInv, time
  <2>8. SweepInv' /\ RowsHaveBytes'
    BY <1>0, <2>1, <2>2, <2>4, <2>5 DEF SweepInv, RowsHaveBytes, time
  <2> QED
    BY <2>3, <2>7, <2>8 DEF ImageInv
<1>3. ASSUME NEW n \in Notes, NEW new, NEW i \in ImageRows, Here(n), new = body[n] \cup {i} \/ new = body[n] \ {i}, SaveBody(n, new)
      PROVE  ImageInv'
  <2> DEFINE save == [note |-> n, before |-> body[n], after |-> new]
  <2>1. UNCHANGED <<owner, uploads, time, sweep>> /\ body' = [body EXCEPT ![n] = new] /\ saves' = saves \cup {save}
    BY <1>3 DEF SaveBody
  <2>2. body[n] \subseteq Images /\ new \subseteq Images /\ i \in Images /\ i \in used
    BY <1>0, <1>3 DEF ImageTypeOK, ImageRows, SweepInv
  <2>3. ImageTypeOK'
    <3>1. save \in [note : Notes, before : SUBSET Images, after : SUBSET Images]
      BY <2>2
    <3>2. body' \in [Notes -> (SUBSET Images) \cup {None}]
      BY <1>0, <2>1, <2>2 DEF ImageTypeOK
    <3> QED
      BY <1>0, <2>1, <3>1, <3>2 DEF ImageTypeOK, uploads, time
  <2>4. ImageRows' = ImageRows
    BY <2>1 DEF ImageRows
  <2>5. body'[n] = new /\ \A m \in Notes \ {n} : body'[m] = body[m]
    BY <1>0, <2>1 DEF ImageTypeOK
  <2>6. FreshInv'
    <3> SUFFICES ASSUME NEW j \in Images, Fresh(j)'
                 PROVE  /\ j \in bytes' /\ j \notin ImageRows' /\ j \notin settled' \cup aged'
                        /\ \A m \in Notes : Here(m)' => j \notin body'[m]
                        /\ \A s \in saves' : j \notin s.before
                        /\ sweep' # NoPass => j \notin sweep'.ids
      BY DEF FreshInv
    <3>1. Fresh(j)
      BY <2>1 DEF Fresh, uploads
    <3>2. /\ j \in bytes /\ j \notin ImageRows /\ j \notin settled \cup aged /\ (sweep # NoPass => j \notin sweep.ids)
          /\ (\A m \in Notes : Here(m) => j \notin body[m]) /\ (\A s \in saves : j \notin s.before)
      BY <1>0, <3>1 DEF FreshInv
    <3>3. j # i /\ j \notin body[n] /\ j \notin new
      BY <1>3, <3>2
    <3>4. save.before = body[n]
      OBVIOUS
    <3> QED
      BY <2>1, <2>4, <2>5, <3>2, <3>3, <3>4 DEF uploads, time
  <2>7. SweepInv' /\ RowsHaveBytes'
    <3>1. body[n] \subseteq used /\ new \subseteq used
      BY <1>0, <1>3, <2>2 DEF SweepInv
    <3>2. save.before = body[n]
      OBVIOUS
    <3> QED
      BY <1>0, <2>1, <2>4, <2>5, <3>1, <3>2 DEF SweepInv, RowsHaveBytes, uploads, time
  <2> QED
    BY <2>3, <2>6, <2>7 DEF ImageInv
<1>4. ASSUME NEW save \in saves, GcNoteImages(save) PROVE ImageInv'
  <2> DEFINE clock == [i \in Images |->
                     CASE i \in CurrentBody(save) -> "off"
                       [] i \in Candidates(save) /\ i \in save.before /\ unrefSince[i] = "off" -> "running"
                       [] OTHER -> unrefSince[i]]
              due == {i \in Candidates(save) : clock[i] # "running"}
  <2>1. /\ saves' = saves \ {save} /\ UNCHANGED <<body, uploading, used, settled, aged, sweep>>
        /\ unrefSince' = [i \in Images |-> IF i \in due THEN "off" ELSE clock[i]]
        /\ owner' = [i \in Images |-> IF i \in due THEN None ELSE owner[i]]
        /\ (bytes' = bytes \ due \/ bytes' = bytes)
    BY <1>4 DEF GcNoteImages, DeleteNoteImages, PurgeImageObjects
  <2>2. \A i \in Images : Fresh(i) => i \notin due
    BY CollectedAreNotFresh
  <2>3. clock \in [Images -> {"off", "running", "over"}]
    BY <1>0 DEF ImageTypeOK
  <2>4. unrefSince' \in [Images -> {"off", "running", "over"}] /\ owner' \in [Images -> Notes \cup {None}]
    BY <1>0, <2>1, <2>3 DEF ImageTypeOK
  <2>5. ImageTypeOK'
    BY <1>0, <2>1, <2>4 DEF ImageTypeOK
  <2>6. ImageRows' = ImageRows \ due
    BY <2>1 DEF ImageRows
  <2>7. FreshInv'
    BY <1>0, <2>1, <2>2, <2>6 DEF FreshInv, Fresh
  <2>8. SweepInv' /\ RowsHaveBytes'
    BY <1>0, <2>1, <2>6 DEF SweepInv, RowsHaveBytes
  <2> QED
    BY <2>5, <2>7, <2>8 DEF ImageInv
<1>5. ASSUME NEW n \in Notes, DeleteNote(n) PROVE ImageInv'
  <2> DEFINE owned == NoteImagesFor(n)
             kept == OtherNotesImageRefs(n)
             purge == (owned \cup body[n]) \ kept
  <2>1. PICK heir \in [Images -> Notes] :
          owner' = [i \in Images |-> CASE i \in purge -> None
                                      [] i \in owned \cap kept -> heir[i]
                                      [] OTHER -> owner[i]]
    BY <1>5 DEF DeleteNote
  <2>2. /\ Here(n) /\ body' = [body EXCEPT ![n] = None] /\ UNCHANGED <<uploading, used, time, saves, sweep>>
        /\ (bytes' = bytes \ purge \/ bytes' = bytes)
    BY <1>5 DEF DeleteNote, PurgeImageObjects
  <2>3. ASSUME NEW i \in Images PROVE owner'[i] \in Notes \cup {None} /\ (i \in ImageRows' => i \in ImageRows /\ i \notin purge)
    <3>1. i \in owned => i \in ImageRows
      BY <1>0 DEF NoteImagesFor, ImageRows, ImageTypeOK
    <3>2. owner'[i] = (CASE i \in purge -> None [] i \in owned \cap kept -> heir[i] [] OTHER -> owner[i])
      BY <2>1
    <3>3. CASE i \in purge
      BY <3>2, <3>3 DEF ImageRows
    <3>4. CASE i \notin purge /\ i \in owned \cap kept
      BY <3>1, <3>2, <3>4
    <3>5. CASE i \notin purge /\ i \notin owned \cap kept
      <4>1. owner'[i] = owner[i]
        BY <3>2, <3>5
      <4> QED
        BY <1>0, <3>5, <4>1 DEF ImageTypeOK, ImageRows
    <3> QED
      BY <3>3, <3>4, <3>5
  <2>4. ImageTypeOK'
    <3>1. owner' \in [Images -> Notes \cup {None}] /\ body' \in [Notes -> (SUBSET Images) \cup {None}]
      <4>1. owner' \in [Images -> Notes \cup {None}]
        <5>1. owner' = [i \in Images |-> owner'[i]]
          BY <2>1
        <5> QED
          BY <2>3, <5>1
      <4>2. body' \in [Notes -> (SUBSET Images) \cup {None}]
        BY <1>0, <2>2 DEF ImageTypeOK
      <4> QED
        BY <4>1, <4>2
    <3> QED
      BY <1>0, <2>2, <3>1 DEF ImageTypeOK, time
  <2>5. ASSUME NEW i \in Images, Fresh(i) PROVE i \notin purge
    BY <1>0, <2>2, <2>5 DEF FreshInv, NoteImagesFor, ImageRows, Fresh
  <2>6. \A m \in Notes : Here(m)' => Here(m) /\ body'[m] = body[m]
    BY <1>0, <2>2 DEF ImageTypeOK
  <2>7. ImageRows' \subseteq ImageRows \ purge
    BY <2>3 DEF ImageRows
  <2>8. FreshInv'
    BY <1>0, <2>2, <2>5, <2>6, <2>7 DEF FreshInv, Fresh, time
  <2>9. SweepInv' /\ RowsHaveBytes'
    BY <1>0, <2>2, <2>6, <2>7 DEF SweepInv, RowsHaveBytes, time
  <2> QED
    BY <2>4, <2>8, <2>9 DEF ImageInv
<1>6. ASSUME NEW notes \in SUBSET Notes, DeleteNotesFolder(notes) PROVE ImageInv'
  <2>1. /\ UNCHANGED <<uploads, time, saves, sweep>>
        /\ body' = [n \in Notes |-> IF n \in notes THEN None ELSE body[n]]
        /\ owner' = [i \in Images |-> IF i \in {j \in ImageRows : owner[j] \in notes} THEN None ELSE owner[i]]
    BY <1>6 DEF DeleteNotesFolder, DeleteNoteImages
  <2>2. ImageTypeOK'
    <3>1. owner' \in [Images -> Notes \cup {None}] /\ body' \in [Notes -> (SUBSET Images) \cup {None}]
      <4>1. owner' \in [Images -> Notes \cup {None}]
        BY <1>0, <2>1 DEF ImageTypeOK
      <4>2. body' \in [Notes -> (SUBSET Images) \cup {None}]
        BY <1>0, <2>1 DEF ImageTypeOK
      <4> QED
        BY <4>1, <4>2
    <3> QED
      BY <1>0, <2>1, <3>1 DEF ImageTypeOK, uploads, time
  <2>3. ImageRows' \subseteq ImageRows
    BY <2>1 DEF ImageRows
  <2>4. \A m \in Notes : Here(m)' => Here(m) /\ body'[m] = body[m]
    BY <2>1
  <2>5. FreshInv' /\ SweepInv' /\ RowsHaveBytes'
    BY <1>0, <2>1, <2>3, <2>4 DEF FreshInv, Fresh, SweepInv, RowsHaveBytes, uploads, time
  <2> QED
    BY <2>2, <2>5 DEF ImageInv
<1>7. CASE ExpectedImageObjects \/ ScanUnreferenced
  <2>1. UNCHANGED <<store, uploads, time, saves>>
    BY <1>7 DEF ExpectedImageObjects, ScanUnreferenced
  <2>2. ImageRows' = ImageRows
    BY <2>1 DEF ImageRows, store
  <2>3. /\ sweep' \in [at : {"read", "scanned", "swept"}, expected : SUBSET Images, ids : SUBSET Images]
        /\ \A i \in ImageRows : i \in sweep'.expected \/ i \notin aged
        /\ \A i \in sweep'.ids : i \in ImageRows /\ i \in aged
    <3>1. CASE ExpectedImageObjects
      <4>1. sweep' = [at |-> "read", expected |-> ImageRows, ids |-> {}]
        BY <3>1 DEF ExpectedImageObjects
      <4> QED
        BY <4>1 DEF ImageRows
    <3>2. CASE ScanUnreferenced
      <4>1. sweep.at = "read" /\ sweep # NoPass
        BY <3>2 DEF ScanUnreferenced, NoPass
      <4>2. PICK ids \in {UnreferencedImageIDs, {}} : sweep' = [sweep EXCEPT !.at = "scanned", !.ids = ids]
        BY <3>2 DEF ScanUnreferenced
      <4>3. ids \subseteq ImageRows \cap aged /\ ids \subseteq Images
        BY DEF UnreferencedImageIDs, ImageRows
      <4>4. sweep \in [at : {"read", "scanned", "swept"}, expected : SUBSET Images, ids : SUBSET Images]
        BY <1>0, <4>1, PassRecords
      <4>5. /\ sweep' \in [at : {"read", "scanned", "swept"}, expected : SUBSET Images, ids : SUBSET Images]
            /\ sweep'.expected = sweep.expected /\ sweep'.ids = ids
        BY <4>2, <4>3, <4>4
      <4> QED
        BY <1>0, <4>1, <4>3, <4>5 DEF SweepInv
    <3> QED
      BY <1>7, <3>1, <3>2
  <2>4. ImageTypeOK'
    BY <1>0, <2>1, <2>3 DEF ImageTypeOK, store, uploads, time
  <2>5. FreshInv'
    BY <1>0, <2>1, <2>2, <2>3 DEF FreshInv, Fresh, store, uploads, time
  <2>6. SweepInv' /\ RowsHaveBytes'
    BY <1>0, <2>1, <2>2, <2>3 DEF SweepInv, RowsHaveBytes, store, uploads, time
  <2> QED
    BY <2>4, <2>5, <2>6 DEF ImageInv
<1>8. CASE SweepUnreferencedRows
  <2>1. sweep.at = "scanned" /\ sweep # NoPass
    BY <1>8 DEF SweepUnreferencedRows, NoPass
  <2>2. /\ UNCHANGED <<body, uploading, used, time, saves>>
        /\ sweep' = [sweep EXCEPT !.at = "swept", !.expected = @ \ sweep.ids]
        /\ owner' = [i \in Images |-> IF i \in sweep.ids THEN None ELSE owner[i]]
        /\ (bytes' = bytes \ sweep.ids \/ bytes' = bytes)
    BY <1>8 DEF SweepUnreferencedRows, DeleteNoteImages, PurgeImageObjects
  <2>3. sweep \in [at : {"read", "scanned", "swept"}, expected : SUBSET Images, ids : SUBSET Images]
    BY <1>0, <2>1, PassRecords
  <2>4. /\ sweep' \in [at : {"read", "scanned", "swept"}, expected : SUBSET Images, ids : SUBSET Images]
        /\ sweep'.expected = sweep.expected \ sweep.ids /\ sweep'.ids = sweep.ids
    BY <2>2, <2>3
  <2>5. ImageRows' = ImageRows \ sweep.ids
    BY <2>2 DEF ImageRows
  <2>6. ImageTypeOK'
    <3>1. owner' \in [Images -> Notes \cup {None}]
      BY <1>0, <2>2 DEF ImageTypeOK
    <3> QED
      BY <1>0, <2>2, <2>4, <3>1 DEF ImageTypeOK, time
  <2>7. FreshInv'
    BY <1>0, <2>1, <2>2, <2>4, <2>5 DEF FreshInv, Fresh, time
  <2>8. SweepInv' /\ RowsHaveBytes'
    BY <1>0, <2>1, <2>2, <2>4, <2>5 DEF SweepInv, RowsHaveBytes, time
  <2> QED
    BY <2>6, <2>7, <2>8 DEF ImageInv
<1>9. CASE ReconcileImages
  <2>1. UNCHANGED <<store, uploading, used, time, saves>> /\ sweep' = NoPass /\ sweep # NoPass
        /\ (bytes' = bytes \ ((bytes \cap aged) \ sweep.expected) \/ bytes' = bytes)
    BY <1>9 DEF ReconcileImages, NoPass
  <2>2. ImageRows' = ImageRows
    BY <2>1 DEF ImageRows, store
  <2>3. ImageTypeOK'
    BY <1>0, <2>1 DEF ImageTypeOK, store, time
  <2>4. FreshInv' /\ SweepInv' /\ RowsHaveBytes'
    BY <1>0, <2>1, <2>2 DEF FreshInv, Fresh, SweepInv, RowsHaveBytes, store, time
  <2> QED
    BY <2>3, <2>4 DEF ImageInv
<1>10. ASSUME NEW long \in BOOLEAN, Elapse(long) PROVE ImageInv'
  <2>1. /\ \A i \in Images : ~Fresh(i)
        /\ settled' = used /\ (aged' = aged \/ (aged' = used /\ sweep = NoPass)) /\ UNCHANGED <<store, uploads, saves, sweep>>
        /\ unrefSince' = [i \in Images |-> IF unrefSince[i] = "off" THEN "off" ELSE "over"]
    BY <1>10 DEF Elapse, Fresh
  <2>2. ImageTypeOK'
    <3>1. unrefSince' \in [Images -> {"off", "running", "over"}]
      BY <2>1
    <3> QED
      BY <1>0, <2>1, <3>1 DEF ImageTypeOK, store, uploads
  <2>3. ImageRows' = ImageRows /\ \A i \in Images : ~Fresh(i)'
    BY <2>1 DEF ImageRows, Fresh, store, uploads
  <2>4. FreshInv' /\ SweepInv' /\ RowsHaveBytes'
    BY <1>0, <2>1, <2>3 DEF FreshInv, SweepInv, RowsHaveBytes, store, uploads
  <2> QED
    BY <2>2, <2>4 DEF ImageInv
<1>11. CASE Restart
  <2>1. UNCHANGED <<store, used, bytes, settled, aged>> /\ saves' = {} /\ sweep' = NoPass
        /\ uploading' = [i \in Images |-> None] /\ unrefSince' = [i \in Images |-> "off"]
    BY <1>11 DEF Restart
  <2>2. ImageRows' = ImageRows /\ \A i \in Images : ~Fresh(i)'
    BY <2>1 DEF ImageRows, Fresh, store
  <2>3. ImageTypeOK'
    BY <1>0, <2>1 DEF ImageTypeOK, store
  <2>4. FreshInv' /\ SweepInv' /\ RowsHaveBytes'
    BY <1>0, <2>1, <2>2 DEF FreshInv, SweepInv, RowsHaveBytes, store
  <2> QED
    BY <2>3, <2>4 DEF ImageInv
<1> QED
  BY <1>1, <1>2, <1>3, <1>4, <1>5, <1>6, <1>7, <1>8, <1>9, <1>10, <1>11 DEF ImageNext

LEMMA ImagesInductive ==
  ASSUME None \notin Notes
  PROVE  ImageSpec => []ImageInv
<1>1. ImageInit => ImageInv
  BY ImageInitHolds
<1>2. ImageInv /\ [ImageNext]_imageVars => ImageInv'
  <2>1. CASE ImageNext
    BY <2>1, ImageStep
  <2>2. CASE UNCHANGED imageVars
    BY <2>2 DEF imageVars, store, uploads, time, ImageInv, ImageTypeOK, FreshInv, Fresh, SweepInv, RowsHaveBytes, ImageRows, Here
  <2> QED
    BY <2>1, <2>2
<1> QED
  BY <1>1, <1>2, PTL DEF ImageSpec

----------------------------------------------------------------------------
(* The theorems. *)

\* Every variable keeps its type: what is stored, embedded or collected has an id given out.
THEOREM ImagesTypeCorrect ==
  ASSUME None \notin Notes
  PROVE  ImageSpec => []ImageTypeOK
<1>1. ImageInv => ImageTypeOK
  BY DEF ImageInv
<1> QED
  BY <1>1, ImagesInductive, PTL

\* A row never outlives its bytes, whatever is saved, collected, deleted or swept, and
\* wherever an upload, a pass or a process stops.
THEOREM ImageBytesAreKept ==
  ASSUME None \notin Notes
  PROVE  ImageSpec => []RowsHaveBytes
<1>1. ImageInv => RowsHaveBytes
  BY DEF ImageInv
<1> QED
  BY <1>1, ImagesInductive, PTL

\* An image that some note embeds loses its row only with its owner's whole folder, or
\* between the scan and the delete of a daily pass: no collection after a save, however
\* overtaken, and no deletion of a note takes it.
THEOREM EmbeddedAreSpared ==
  ASSUME None \notin Notes
  PROVE  ImageSpec => GcSparesEmbedded
<1>1. ASSUME ImageInv, [ImageNext]_imageVars
      PROVE  [\A i \in ImageRows : Embedded(i)' /\ owner'[i] = None =>
                (\E notes \in SUBSET Notes : DeleteNotesFolder(notes)) \/ SweepUnreferencedRows]_imageVars
  <2> SUFFICES ASSUME ImageNext, NEW i \in ImageRows, Embedded(i)', owner'[i] = None
               PROVE  (\E notes \in SUBSET Notes : DeleteNotesFolder(notes)) \/ SweepUnreferencedRows
    BY <1>1
  <2>0. ImageTypeOK /\ i \in Images /\ owner[i] # None /\ owner[i] \in Notes
    BY <1>1 DEF ImageInv, ImageTypeOK, ImageRows
  <2>a. PICK m \in Notes : body'[m] # None /\ i \in body'[m]
    BY DEF Embedded, NotesReferencingAnyImage, Bodies, Here
  <2>1. ASSUME owner' = owner PROVE FALSE
    BY <2>0, <2>1
  <2>2. ASSUME NEW j \in Images, InsertNoteImage(j) PROVE FALSE
    BY <2>0, <2>2 DEF InsertNoteImage, ImageTypeOK
  <2>3. ASSUME NEW save \in saves, GcNoteImages(save) PROVE FALSE
    <3>1. body' = body /\ i \in Candidates(save)
      BY <2>0, <2>3 DEF GcNoteImages, DeleteNoteImages
    <3>2. Here(m) /\ i \in body[m]
      BY <2>a, <3>1 DEF Here
    <3>3. i \notin OtherNotesImageRefs(save.note) /\ i \notin CurrentBody(save)
      BY <3>1 DEF Candidates
    <3>4. CASE m = save.note
      BY <3>2, <3>3, <3>4 DEF CurrentBody
    <3>5. CASE m # save.note
      BY <3>2, <3>3, <3>5 DEF OtherNotesImageRefs, Bodies
    <3> QED
      BY <3>4, <3>5
  <2>4. ASSUME NEW n \in Notes, DeleteNote(n) PROVE FALSE
    <3> DEFINE owned == NoteImagesFor(n)
               kept == OtherNotesImageRefs(n)
               purge == (owned \cup body[n]) \ kept
    <3>1. PICK heir \in [Images -> Notes] :
            owner' = [j \in Images |-> CASE j \in purge -> None
                                        [] j \in owned \cap kept -> heir[j]
                                        [] OTHER -> owner[j]]
      BY <2>4 DEF DeleteNote
    <3>2. body' = [body EXCEPT ![n] = None]
      BY <2>4 DEF DeleteNote
    <3>3. m # n /\ body'[m] = body[m]
      BY <2>0, <2>a, <3>2 DEF ImageTypeOK
    <3>4. i \in kept
      BY <2>a, <3>3 DEF OtherNotesImageRefs, Bodies, Here
    <3>5. owner'[i] = (IF i \in owned THEN heir[i] ELSE owner[i])
      BY <2>0, <3>1, <3>4
    <3> QED
      BY <2>0, <3>5
  <2> QED
    BY <2>1, <2>2, <2>3, <2>4 DEF ImageNext, UploadImage, SaveBody, ExpectedImageObjects, ScanUnreferenced, ReconcileImages,
       Elapse, Restart, store
<1> QED
  BY <1>1, ImagesInductive, PTL DEF ImageSpec, GcSparesEmbedded
=============================================================================

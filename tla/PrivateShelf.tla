---------------------------- MODULE PrivateShelf ----------------------------
(* What a member is promised about a private tree: what is on their own shelf *)
(* leaves it only when they put it on the shared one themselves, a whole      *)
(* subtree at a time, or when an admin throws it away; and nothing ever comes *)
(* back from the shared shelf.                                                *)
CONSTANTS Items, Users, Admins, Shared, Nowhere

VARIABLES shelf, \* where each item is: nowhere, on the shared shelf, on a member's
          by     \* who took the last step

Init == shelf = [i \in Items |-> Nowhere] /\ by \in Users

\* New things go on the shared shelf or on one's own.
Keep(u) ==
    \E i \in Items, s \in {Shared, u} :
        shelf[i] = Nowhere /\ shelf' = [shelf EXCEPT ![i] = s]

Publish(u) ==
    \E S \in SUBSET {i \in Items : shelf[i] = u} :
        shelf' = [i \in Items |-> IF i \in S THEN Shared ELSE shelf[i]]

\* An admin may throw away anything, but never two shelves' things at once.
Discard(u) ==
    /\ u \in Admins
    /\ \E s \in {Shared} \cup Users : \E S \in SUBSET {i \in Items : shelf[i] = s} :
         shelf' = [i \in Items |-> IF i \in S THEN Nowhere ELSE shelf[i]]

\* Whatever else a member does leaves every shelf as it is.
Next == \E u \in Users : by' = u /\ (shelf' = shelf \/ Keep(u) \/ Publish(u) \/ Discard(u))

Spec == Init /\ [][Next]_<<shelf, by>>
=============================================================================

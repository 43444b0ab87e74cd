------------------------------ MODULE EventFeed ------------------------------
(***************************************************************************)
(* What the audit outbox promises its listeners (audit/notifier.go's       *)
(* Listener and CursorStore): committed events, oldest first, each again   *)
(* and again until it is acknowledged, and never after.                    *)
(***************************************************************************)
EXTENDS Integers

CONSTANT Id          \* the identifiers of events: UUIDv7, ordered by issue

VARIABLES
  table,   \* the committed events
  cursor,  \* the last acknowledged one
  handed   \* per event: how often it was handed over

feed == <<table, cursor, handed>>

FeedInit == table = {} /\ cursor = 0 /\ handed = [e \in Id |-> 0]

Unread == {e \in table : e > cursor}
IsLeast(e, S) == e \in S /\ \A f \in S : e <= f

\* A commit only ever adds events newer than everything before them.
Append(S) ==
  /\ S \subseteq Id \ table /\ \A e \in S, f \in table : f < e
  /\ table' = table \cup S
  /\ UNCHANGED <<cursor, handed>>

Hand ==
  /\ \E e \in Unread : IsLeast(e, Unread) /\ handed' = [handed EXCEPT ![e] = @ + 1]
  /\ UNCHANGED <<table, cursor>>

Acknowledge ==
  /\ \E e \in Unread : IsLeast(e, Unread) /\ handed[e] > 0 /\ cursor' = e
  /\ UNCHANGED <<table, handed>>

FeedNext == Hand \/ Acknowledge \/ \E S \in SUBSET Id : Append(S)
FeedSpec == FeedInit /\ [][FeedNext]_feed
=============================================================================

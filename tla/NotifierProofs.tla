-------------------------- MODULE NotifierProofs ---------------------------
(**************************************************************************)
(* Proofs about AuditOutbox for any writers, batch size and bounds: its   *)
(* type, that the cursor skips nothing, that second deliveries are no     *)
(* more than the faults, and that the tailer implements the feed of       *)
(* EventFeed; about TriggerListener, its consumer, for any rules,         *)
(* windows, matching, capacity of the dedupe set and bounds: that it      *)
(* leaves the outbox a behaviour of AuditOutbox, its type, that nobody    *)
(* runs on stale rules, and that every match is accounted for; and about  *)
(* ChatThread, which shares nothing with them: that what a member reads   *)
(* is whole, for any members, pages and requests under way.               *)
(*                                                                        *)
(* The argument about the outbox: one transaction at a time, so           *)
(* identifiers are committed in the order of their issue (OrderInv);      *)
(* hence what a scan holds is still the head of what lies past the        *)
(* cursor whenever the tailer looks at it again (ScanInv), and the        *)
(* cursor moves over nothing else.                                        *)
(*                                                                        *)
(* About the rules: a load is stamped with the generation, so it fills    *)
(* the cache only if no edit finished since (LoadInv); and what a send    *)
(* obtains is no older than what was settled when it asked (WordInv).     *)
(*                                                                        *)
(* About the matches: only the next event past the cursor can be handed   *)
(* over again, and it is the last one in the dedupe set (SeenInv), so     *)
(* it is not matched again (MatchInv); a match is then in one window or   *)
(* one send until it is spent (HoldInv, CountInv), and the flush begins   *)
(* when the tailer has stopped (FlushInv).                                *)
(*                                                                        *)
(* About the chat: the ids of a thread are in the order of its commits    *)
(* (ThreadOK), a page holds all of the thread between its ends (Whole),   *)
(* and of two messages a tab shows side by side the newer one is the      *)
(* member's own, the older one is marked as a seam, or what lies between  *)
(* them is shown (Beside): that stays so whichever of frame, answer and   *)
(* page lands next (TabOK).  A request under way has its frame above the  *)
(* floors of those it is for (CallOK).  A room deleted for good is Over   *)
(* and nobody is in it again.                                             *)
(**************************************************************************)
EXTENDS TriggerListener, ChatThread, SequenceTheorems, FiniteSetTheorems, TLAPS

\* One writer is in a transaction, and what it has recorded is newer than
\* everything committed.
OrderInv ==
  /\ \A v, w \in writing : v = w
  /\ \A w \in Writer : \A e \in tx[w], f \in table : f < e

\* The batch in hand is the head of the unread events, and its first event has
\* been handed over by the time it is to be saved.
ScanInv ==
  /\ pc = "querying" => from = cursor
  /\ \A e \in batch : e > cursor
  /\ \A e \in batch, f \in table \ batch : f <= cursor \/ e < f
  /\ pc = "saving" => \A e \in batch : IsLeast(e, batch) => handed[e] > 0

IInv == OutboxTypeOK /\ OrderInv /\ ScanInv /\ CursorSkipsNothing

\* Identifiers and table entries are positive naturals.
LEMMA Numbers ==
  ASSUME OutboxTypeOK
  PROVE  /\ MaxId \in Nat /\ lastId \in Nat /\ cursor \in Nat /\ from \in Nat
         /\ table \subseteq Id /\ batch \subseteq Id /\ Id \subseteq Nat \ {0}
         /\ \A w \in Writer : tx[w] \subseteq Id
         /\ \A e \in Id : handed[e] \in Nat
BY OutboxAssumption DEF OutboxTypeOK, Id

\* The invariant holds initially.
LEMMA InitOK == OutboxInit => IInv
<1> SUFFICES ASSUME OutboxInit PROVE IInv
  OBVIOUS
<1> USE OutboxAssumption DEF OutboxInit
<1>1. OutboxTypeOK
  <2>1. handed \in [Id -> Nat] /\ 0 \in 0..MaxId /\ 0 \in 0..MaxBreaks /\ 0 \in 0..lastId
    OBVIOUS
  <2> QED BY <2>1 DEF OutboxTypeOK
<1>2. OrderInv /\ ScanInv /\ CursorSkipsNothing
  BY DEF OrderInv, ScanInv, CursorSkipsNothing
<1> QED BY <1>1, <1>2 DEF IInv

\* Steps of the writers preserve it.
LEMMA BeginOK == ASSUME IInv, NEW w \in Writer, Begin(w) PROVE IInv'
<1> USE DEF IInv, txVars, scanVars
<1>1. OutboxTypeOK'
  BY DEF Begin, OutboxTypeOK, Id
<1>2. OrderInv'
  BY DEF Begin, OrderInv, ConnFree
<1>3. ScanInv' /\ CursorSkipsNothing'
  BY DEF Begin, ScanInv, CursorSkipsNothing, IsLeast
<1> QED BY <1>1, <1>2, <1>3

LEMMA RecordOK == ASSUME IInv, NEW w \in Writer, Record(w) PROVE IInv'
<1> USE DEF IInv, txVars, scanVars
<1>0. /\ lastId' = lastId + 1 /\ lastId' \in 0..MaxId
      /\ tx' = [tx EXCEPT ![w] = @ \cup {lastId'}] /\ UNCHANGED <<writing, table>>
  BY OutboxAssumption DEF Record, OutboxTypeOK
<1>a. /\ lastId \in Nat /\ 1..lastId \subseteq 1..lastId' /\ 0..lastId \subseteq 0..lastId'
      /\ lastId' \in 1..lastId' /\ lastId' \in Id /\ lastId' \notin table
  BY <1>0, OutboxAssumption DEF OutboxTypeOK, Id
<1>1. OutboxTypeOK'
  <2>1. tx' \in [Writer -> SUBSET Id] /\ \A v \in Writer : tx'[v] \subseteq (1..lastId') \ table'
    BY <1>0, <1>a DEF OutboxTypeOK
  <2>2. \A v \in Writer \ writing' : tx'[v] = {}
    BY <1>0 DEF OutboxTypeOK, Record
  <2> QED BY <1>0, <1>a, <2>1, <2>2 DEF Record, OutboxTypeOK
<1>2. OrderInv'
  BY OutboxAssumption, SMTT(30) DEF Record, OrderInv, OutboxTypeOK, Id
<1>3. ScanInv' /\ CursorSkipsNothing'
  BY DEF Record, ScanInv, CursorSkipsNothing, IsLeast
<1> QED BY <1>1, <1>2, <1>3

LEMMA CommitOK == ASSUME IInv, NEW w \in Writer, Commit(w) PROVE IInv'
<1> USE DEF IInv, txVars, scanVars
<1>0. /\ \A v \in Writer : v # w => tx[v] = {}
      /\ \A e \in tx[w], f \in table : f < e
      /\ tx[w] \subseteq 1..lastId /\ tx[w] \cap table = {}
  BY DEF Commit, OrderInv, OutboxTypeOK
<1>b. /\ \A v \in Writer : tx'[v] = {}
      /\ tx' \in [Writer -> SUBSET Id] /\ table' = table \cup tx[w]
      /\ writing' \subseteq writing
      /\ UNCHANGED <<lastId, nudged, ctx, pc, from, batch, full, cursor, handed, breaks>>
  BY <1>0 DEF Commit, OutboxTypeOK
<1>1. OutboxTypeOK'
  BY <1>0, <1>b DEF OutboxTypeOK
<1>2. OrderInv'
  BY <1>b DEF OrderInv
<1>a. \A e \in tx[w] : e > cursor /\ e > 0
  BY <1>0, Numbers DEF OutboxTypeOK
<1>3. ScanInv'
  BY <1>0, <1>a, Numbers, SMTT(30) DEF Commit, ScanInv, IsLeast, OutboxTypeOK
<1>4. CursorSkipsNothing'
  BY <1>a, Numbers DEF Commit, CursorSkipsNothing
<1> QED BY <1>1, <1>2, <1>3, <1>4

LEMMA RollbackOK == ASSUME IInv, NEW w \in Writer, Rollback(w) PROVE IInv'
<1> USE DEF IInv, txVars, scanVars
<1>1. OutboxTypeOK'
  BY DEF Rollback, OutboxTypeOK, Id
<1>2. OrderInv'
  BY DEF Rollback, OrderInv, OutboxTypeOK
<1>3. ScanInv' /\ CursorSkipsNothing'
  BY DEF Rollback, ScanInv, CursorSkipsNothing, IsLeast
<1> QED BY <1>1, <1>2, <1>3

----------------------------------------------------------------------------
\* Steps that leave the writers and the table alone preserve the order.
LEMMA OrderKept ==
  ASSUME OrderInv, UNCHANGED <<writing, tx, table>> PROVE OrderInv'
BY DEF OrderInv

\* Between scans, nothing is in hand.
LEMMA LoopOK ==
  ASSUME IInv, Wake \/ Stop \/ LoadCursor \/ ScanFails \/ Cancel \/ Restart PROVE IInv'
<1> USE DEF IInv, txVars, scanVars
<1>0. /\ UNCHANGED <<writing, tx, lastId, table, batch, full, cursor, handed>>
      /\ nudged \in BOOLEAN => nudged' \in BOOLEAN
  BY DEF Wake, Stop, LoadCursor, ScanFails, Cancel, Restart
<1>1. CASE Cancel
  <2>1. OutboxTypeOK'
    BY <1>1, <1>0, OutboxAssumption DEF Cancel, OutboxTypeOK
  <2> QED BY <2>1, <1>1, OrderKept DEF Cancel, ScanInv, CursorSkipsNothing, IsLeast
<1>2. CASE Wake \/ Stop \/ LoadCursor \/ ScanFails \/ Restart
  <2>1. /\ pc \in {"idle", "loading", "querying", "down"} /\ breaks' = breaks
        /\ pc' \in {"idle", "loading", "querying", "stopped"}
        /\ ctx' \in {"live", "cancelled"} /\ from' \in {from, cursor}
        /\ pc' = "querying" => from' = cursor
    BY <1>2 DEF Wake, Stop, LoadCursor, ScanFails, Restart, OutboxTypeOK
  <2>2. cursor \in 0..lastId
    BY Numbers DEF OutboxTypeOK
  <2>3. OutboxTypeOK'
    BY <1>0, <2>1, <2>2 DEF OutboxTypeOK
  <2>4. ScanInv'
    BY <1>0, <2>1 DEF ScanInv
  <2> QED BY <1>0, <2>3, <2>4, OrderKept DEF CursorSkipsNothing
<1> QED BY <1>1, <1>2

\* A scan takes the head of the unread events.
LEMMA QueryOK == ASSUME IInv, Query PROVE IInv'
<1> USE DEF IInv, txVars, scanVars, Query
<1>0. PICK F \in SUBSET {e \in table : e > cursor} :
        /\ FirstRows(F, {e \in table : e > cursor})
        /\ batch' = F /\ full' = (Cardinality(F) = Batch)
        /\ pc' = IF F = {} THEN "idle" ELSE "handing"
  BY DEF Scanned, ScanInv
<1>1. OutboxTypeOK'
  BY <1>0 DEF OutboxTypeOK, Id
<1>2. OrderInv'
  BY OrderKept
<1>3. ScanInv'
  <2>1. \A e \in F, f \in table \ F : f <= cursor \/ e < f
    BY <1>0, Numbers DEF FirstRows
  <2> QED BY <1>0, <2>1 DEF ScanInv
<1>4. CursorSkipsNothing'
  BY DEF CursorSkipsNothing
<1> QED BY <1>1, <1>2, <1>3, <1>4

LEMMA HandOverOK == ASSUME IInv, HandOver PROVE IInv'
<1> USE DEF IInv, txVars, scanVars, HandOver
<1>0. PICK e \in batch : IsLeast(e, batch) /\ handed' = [handed EXCEPT ![e] = @ + 1]
  OBVIOUS
<1>a. /\ e \in Id /\ handed'[e] > 0
      /\ \A f \in Id : handed[f] > 0 => handed'[f] > 0
      /\ \A f \in Id : handed'[f] \in Nat
  BY <1>0, Numbers DEF OutboxTypeOK
<1>b. \A f \in batch : IsLeast(f, batch) => f = e
  BY <1>0, Numbers DEF IsLeast
<1>1. OutboxTypeOK'
  BY <1>0, <1>a DEF OutboxTypeOK
<1>2. OrderInv'
  BY OrderKept
<1>3. ScanInv'
  BY <1>a, <1>b DEF ScanInv, IsLeast
<1>4. CursorSkipsNothing'
  BY <1>a, Numbers DEF CursorSkipsNothing
<1> QED BY <1>1, <1>2, <1>3, <1>4

\* The cursor moves to the least unread event, which has been handed over.
LEMMA SaveOK == ASSUME IInv, Save PROVE IInv'
<1> USE DEF IInv, txVars, scanVars, Save
<1>0. PICK e \in batch : IsLeast(e, batch) /\ cursor' = e /\ batch' = batch \ {e}
  OBVIOUS
<1>a. e \in table /\ e \in Id /\ handed[e] > 0 /\ e > cursor
  BY <1>0, Numbers DEF ScanInv, OutboxTypeOK
<1>b. \A f \in table : f <= e => f <= cursor \/ f = e
  BY <1>0, Numbers DEF ScanInv, IsLeast
<1>1. OutboxTypeOK'
  BY <1>0, <1>a DEF OutboxTypeOK, Id
<1>2. OrderInv'
  BY OrderKept
<1>3. ScanInv'
  BY <1>0, <1>a, Numbers, SMTT(30) DEF ScanInv, IsLeast
<1>4. CursorSkipsNothing'
  BY <1>0, <1>a, <1>b, Numbers DEF CursorSkipsNothing
<1> QED BY <1>1, <1>2, <1>3, <1>4

\* A failed save, an exit and a crash drop what is in hand.
LEMMA DropOK == ASSUME IInv, SaveFails \/ Exit \/ Crash PROVE IInv'
<1> USE DEF IInv, txVars, scanVars, SaveFails, Exit, Crash, Halt
<1>a. breaks' \in 0..MaxBreaks
  BY OutboxAssumption DEF OutboxTypeOK
<1>b. /\ writing' \subseteq Writer /\ tx' \in [Writer -> SUBSET Id]
      /\ \A w \in Writer : tx'[w] \subseteq (1..lastId) \ table
      /\ \A w \in Writer \ writing' : tx'[w] = {}
      /\ UNCHANGED <<lastId, table, ctx, from, cursor, handed>>
      /\ nudged' \in BOOLEAN /\ full' \in BOOLEAN
      /\ batch' = {} /\ pc' \in {"idle", "down"}
  BY DEF OutboxTypeOK
<1>1. OutboxTypeOK'
  BY <1>a, <1>b DEF OutboxTypeOK
<1>2. OrderInv'
  BY OrderKept DEF OrderInv
<1>3. ScanInv'
  BY DEF ScanInv
<1>4. CursorSkipsNothing'
  BY DEF CursorSkipsNothing
<1> QED BY <1>1, <1>2, <1>3, <1>4

\* The invariant is inductive.
LEMMA StepOK == ASSUME IInv, [OutboxNext]_outboxVars PROVE IInv'
<1>1. CASE UNCHANGED outboxVars
  BY <1>1 DEF outboxVars, txVars, scanVars, IInv, OutboxTypeOK, OrderInv, ScanInv,
              CursorSkipsNothing, IsLeast
<1>2. CASE OutboxNext
  BY <1>2, BeginOK, RecordOK, CommitOK, RollbackOK, LoopOK, QueryOK, HandOverOK, SaveOK,
     DropOK DEF OutboxNext, Writing, Tailing, Running
<1> QED BY <1>1, <1>2

LEMMA Invariant == OutboxSpec => []IInv
BY InitOK, StepOK, PTL DEF OutboxSpec

\* Every reachable state of the outbox is of its type.
THEOREM OutboxTypeCorrect == OutboxSpec => []OutboxTypeOK
<1>1. IInv => OutboxTypeOK
  BY DEF IInv
<1> QED BY <1>1, Invariant, PTL

\* The cursor never passes a committed event that was not handed over.
THEOREM NothingSkipped == OutboxSpec => []CursorSkipsNothing
<1>1. IInv => CursorSkipsNothing
  BY DEF IInv
<1> QED BY <1>1, Invariant, PTL

----------------------------------------------------------------------------
(* Second deliveries are paid for by faults.                               *)
(*                                                                         *)
(* Only the oldest unread event can have been handed over, and it waits to *)
(* be handed over again exactly when a save of it was lost to a fault: one *)
(* fault is then still unspent (Owed).  After a cancellation the save of   *)
(* the event in hand is bound to fail, which the cancellation pays for     *)
(* (Dying).                                                                *)

Unread == {e \in table : e > cursor}
Waiting == {e \in Id : e > cursor /\ handed[e] > 0}
Owed == Waiting # {} /\ pc # "saving"
Dying == ctx = "cancelled" /\ pc \in {"handing", "saving"}
Credit == IF Owed /\ Dying THEN 2 ELSE IF Owed \/ Dying THEN 1 ELSE 0

BudgetInv ==
  /\ \A e \in Waiting : IsLeast(e, Unread)
  /\ Cardinality(Redeliveries) + Credit <= breaks

\* The second deliveries counted in a table h of deliveries.
Again(h) == UNION {{e} \X (2..h[e]) : e \in Id}

LEMMA AgainIsFinite ==
  ASSUME NEW h \in [Id -> Nat] PROVE IsFiniteSet(Again(h)) /\ Cardinality(Again(h)) \in Nat
<1>1. ASSUME NEW e \in Id PROVE IsFiniteSet({e} \X (2..h[e]))
  <2>1. h[e] \in Int /\ 2 \in Int
    OBVIOUS
  <2>2. IsFiniteSet(2..h[e]) /\ IsFiniteSet({e})
    BY <2>1, FS_Interval, FS_Singleton
  <2> QED BY <2>2, FS_Product
<1>2. IsFiniteSet(Id)
  BY FS_Interval, OutboxAssumption DEF Id
<1>3. IsFiniteSet({{e} \X (2..h[e]) : e \in Id})
  <2> DEFINE f == [e \in Id |-> {e} \X (2..h[e])]
             T == {{e} \X (2..h[e]) : e \in Id}
  <2>1. f \in Surjection(Id, T)
    BY DEF Surjection
  <2> QED BY <1>2, <2>1, FS_Surjection
<1>4. IsFiniteSet(Again(h))
  BY <1>1, <1>3, FS_UNION DEF Again
<1> QED BY <1>4, FS_CardinalityType

\* One more delivery of an event is a second delivery unless it was the first.
LEMMA AgainOnce ==
  ASSUME NEW h \in [Id -> Nat], NEW e \in Id
  PROVE  LET g == [h EXCEPT ![e] = @ + 1]
         IN  Cardinality(Again(g)) = Cardinality(Again(h)) + (IF h[e] = 0 THEN 0 ELSE 1)
<1> DEFINE g == [h EXCEPT ![e] = @ + 1]
<1>1. g \in [Id -> Nat] /\ g[e] = h[e] + 1 /\ \A f \in Id : f # e => g[f] = h[f]
  OBVIOUS
<1>2. CASE h[e] = 0
  <2>1. \A f \in Id : 2..g[f] = 2..h[f]
    BY <1>1, <1>2
  <2>2. Again(g) = Again(h)
    BY <2>1 DEF Again
  <2> QED BY <1>2, <2>2, AgainIsFinite
<1>3. CASE h[e] # 0
  <2>1. 2..g[e] = (2..h[e]) \cup {g[e]} /\ g[e] \notin 2..h[e] /\ g[e] \in 2..g[e]
    BY <1>1, <1>3
  <2>2. ASSUME NEW x PROVE x \in Again(g) <=> x \in Again(h) \cup {<<e, g[e]>>}
    <3>1. x \in Again(g) <=> \E f \in Id : x \in {f} \X (2..g[f])
      BY DEF Again
    <3>2. x \in Again(h) <=> \E f \in Id : x \in {f} \X (2..h[f])
      BY DEF Again
    <3>3. ASSUME NEW f \in Id, f # e PROVE {f} \X (2..g[f]) = {f} \X (2..h[f])
      BY <3>3, <1>1
    <3>4. x \in {e} \X (2..g[e]) <=> x \in {e} \X (2..h[e]) \/ x = <<e, g[e]>>
      BY <2>1
    <3> QED BY <3>1, <3>2, <3>3, <3>4
  <2>3. Again(g) = Again(h) \cup {<<e, g[e]>>}
    BY <2>2
  <2>4. <<e, g[e]>> \notin Again(h)
    BY <2>1 DEF Again
  <2>5. Cardinality(Again(g)) = Cardinality(Again(h)) + 1
    BY <2>3, <2>4, AgainIsFinite, FS_AddElement
  <2> QED BY <1>3, <2>5
<1> QED BY <1>2, <1>3

LEMMA CountIsNatural ==
  ASSUME OutboxTypeOK
  PROVE  /\ Redeliveries = Again(handed) /\ handed \in [Id -> Nat]
         /\ Cardinality(Redeliveries) \in Nat /\ breaks \in Nat
<1>1. Redeliveries = Again(handed) /\ handed \in [Id -> Nat] /\ breaks \in Nat
  BY OutboxAssumption DEF OutboxTypeOK, Redeliveries, Again
<1> QED BY <1>1, AgainIsFinite

\* There is nothing to pay for initially.
LEMMA BudgetInit == ASSUME OutboxInit PROVE BudgetInv
<1>1. IInv
  BY InitOK
<1>2. Waiting = {} /\ ctx = "live" /\ breaks = 0
  BY DEF OutboxInit, Waiting
<1>3. Redeliveries = {}
  <2>1. \A e \in Id : handed[e] = 0
    BY DEF OutboxInit
  <2>2. \A e \in Id : 2..handed[e] = {}
    BY <2>1
  <2> QED BY <2>2 DEF Redeliveries
<1>4. Cardinality(Redeliveries) = 0
  BY <1>3, FS_EmptySet
<1> QED BY <1>2, <1>4 DEF BudgetInv, Credit, Owed, Dying

\* The head of the batch is the oldest unread event, and nothing else waits.
LEMMA HeadWaitsAlone ==
  ASSUME IInv, BudgetInv, NEW e \in batch, IsLeast(e, batch)
  PROVE  e \in Id /\ IsLeast(e, Unread) /\ \A f \in Waiting : f = e
<1>1. e \in Id /\ IsLeast(e, Unread)
  BY Numbers DEF IInv, OutboxTypeOK, ScanInv, IsLeast, Unread
<1>2. \A f \in Waiting : f = e
  <2>1. ASSUME NEW f \in Waiting PROVE f = e
    <3>1. IsLeast(f, Unread) /\ f \in Id /\ Id \subseteq Nat
      BY Numbers DEF BudgetInv, Waiting, IInv
    <3> QED BY <1>1, <3>1 DEF IsLeast
  <2> QED BY <2>1
<1> QED BY <1>1, <1>2

\* A step that hands nothing over and saves nothing leaves what waits, and its
\* count, alone; it may only commit newer events.
LEMMA WaitingKept ==
  ASSUME IInv, BudgetInv, UNCHANGED <<cursor, handed>>,
         \/ UNCHANGED table
         \/ \E w \in Writer : table' = table \cup tx[w]
  PROVE  /\ Waiting' = Waiting /\ Redeliveries' = Redeliveries
         /\ \A e \in Waiting' : IsLeast(e, Unread')
<1>1. Waiting' = Waiting /\ Redeliveries' = Redeliveries
  BY DEF Waiting, Redeliveries
<1>2. ASSUME NEW e \in Waiting PROVE IsLeast(e, Unread')
  <2>1. e \in table /\ e > cursor /\ \A f \in table : f > cursor => e <= f
    BY DEF BudgetInv, IsLeast, Unread
  <2>2. ASSUME NEW w \in Writer, NEW f \in tx[w] PROVE e <= f
    BY <2>1, <2>2, Numbers DEF IInv, OrderInv
  <2>3. e \in table' /\ \A f \in table' : f > cursor => e <= f
    BY <2>1, <2>2
  <2> QED BY <2>1, <2>3 DEF IsLeast, Unread
<1> QED BY <1>1, <1>2

\* The credit is at most two, and at most one while the context lives, outside
\* a delivery, or while an event is saved.
LEMMA CreditBounds ==
  /\ Credit \in {0, 1, 2}
  /\ ~ Dying => Credit = IF Owed THEN 1 ELSE 0
  /\ ~ Owed => Credit = IF Dying THEN 1 ELSE 0
  /\ Owed /\ Dying => Credit = 2
BY DEF Credit

\* Arithmetic: credit that grows no faster than the faults stays covered.
LEMMA Pays ==
  ASSUME NEW n \in Int, NEW b \in Int, NEW b2 \in Int, NEW c \in Int, NEW c2 \in Int,
         c <= b - n, c2 - c <= b2 - b
  PROVE  n + c2 <= b2
OBVIOUS

\* The budget is inductive.
LEMMA BudgetStep ==
  ASSUME IInv, BudgetInv, [OutboxNext]_outboxVars PROVE BudgetInv'
<1> DEFINE n == Cardinality(Redeliveries)
<1>n. /\ n \in Nat /\ breaks \in Nat /\ n + Credit <= breaks
      /\ ctx \in {"live", "cancelled"}
  BY CountIsNatural DEF IInv, BudgetInv, OutboxTypeOK
<1>c. /\ Credit \in {0, 1, 2} /\ Credit' \in {0, 1, 2}
      /\ ~ Dying => Credit = IF Owed THEN 1 ELSE 0
      /\ ~ Owed => Credit = IF Dying THEN 1 ELSE 0
      /\ Owed /\ Dying => Credit = 2
      /\ ~ Dying' => Credit' = IF Owed' THEN 1 ELSE 0
      /\ ~ Owed' => Credit' = IF Dying' THEN 1 ELSE 0
  BY CreditBounds DEF Credit
<1>1. CASE HandOver
  <2>1. PICK e \in batch : IsLeast(e, batch) /\ handed' = [handed EXCEPT ![e] = @ + 1]
    BY <1>1 DEF HandOver
  <2>2. /\ e \in Id /\ IsLeast(e, Unread) /\ \A f \in Waiting : f = e
        /\ handed \in [Id -> Nat]
    BY <2>1, HeadWaitsAlone, CountIsNatural DEF IInv
  <2>3. UNCHANGED <<table, cursor, ctx, breaks>> /\ pc = "handing" /\ pc' = "saving"
    BY <1>1 DEF HandOver
  <2>4. \A f \in Waiting' : IsLeast(f, Unread')
    <3>1. ASSUME NEW f \in Waiting' PROVE f = e
      BY <2>1, <2>2, <2>3 DEF Waiting
    <3> QED BY <3>1, <2>2, <2>3 DEF Unread
  <2>5. n' = n + (IF handed[e] = 0 THEN 0 ELSE 1)
    <3>1. Redeliveries = Again(handed) /\ Redeliveries' = Again(handed')
      BY DEF Redeliveries, Again
    <3> QED BY <3>1, <2>1, <2>2, AgainOnce
  <2>6. handed[e] # 0 => Owed
    BY <2>1, <2>2, <2>3, Numbers DEF Owed, Waiting, Unread, IsLeast, IInv
  <2>7. ~ Owed' /\ (Dying' <=> Dying)
    BY <2>3 DEF Owed, Dying
  <2>8. n' + Credit' <= breaks'
    BY <1>n, <1>c, <2>3, <2>5, <2>6, <2>7
  <2> QED BY <2>4, <2>8 DEF BudgetInv
<1>2. CASE Save
  <2>1. PICK e \in batch : IsLeast(e, batch) /\ cursor' = e
    BY <1>2 DEF Save
  <2>2. /\ e \in Id /\ \A f \in Waiting : f = e
        /\ UNCHANGED <<handed, breaks, ctx>> /\ pc = "saving" /\ ctx = "live"
        /\ e > cursor /\ cursor \in Nat
    BY <2>1, <1>2, HeadWaitsAlone, Numbers DEF Save, txVars, IInv, ScanInv
  <2>3. Waiting' = {}
    BY <2>1, <2>2 DEF Waiting, Id
  <2>4. n' = n /\ ~ Owed' /\ ~ Dying'
    BY <2>2, <2>3 DEF Redeliveries, Owed, Dying
  <2>5. n' + Credit' <= breaks'
    BY <1>n, <1>c, <2>2, <2>4
  <2> QED BY <2>3, <2>5 DEF BudgetInv
<1>3. ASSUME UNCHANGED <<cursor, handed>>,
             UNCHANGED table \/ \E w \in Writer : table' = table \cup tx[w],
             breaks' \in Nat, Credit' - Credit <= breaks' - breaks
      PROVE  BudgetInv'
  <2>1. /\ Redeliveries' = Redeliveries
        /\ \A e \in Waiting' : IsLeast(e, Unread')
    BY <1>3, WaitingKept
  <2>3. breaks' \in Nat /\ Credit' - Credit <= breaks' - breaks
    BY <1>3
  <2>4. Credit \in Int /\ Credit' \in Int
    BY <1>c
  <2>5. Cardinality(Redeliveries') + Credit' <= breaks'
    <3>1. n \in Int /\ breaks \in Int /\ breaks' \in Int /\ Credit <= breaks - n
      BY <1>n, <2>3, <2>4
    <3>3. n + Credit' <= breaks'
      BY <3>1, <2>3, <2>4, Pays
    <3> QED BY <3>3, <2>1
  <2> QED BY <2>1, <2>5 DEF BudgetInv
<1>4. CASE UNCHANGED outboxVars
  <2>1. UNCHANGED <<table, cursor, handed, breaks, pc, ctx>>
    BY <1>4 DEF outboxVars
  <2>2. Credit' = Credit
    BY <2>1 DEF Credit, Owed, Dying, Waiting
  <2> QED BY <1>3, <1>n, <1>c, <2>1, <2>2
<1>5. ASSUME NEW w \in Writer, Begin(w) \/ Record(w) \/ Commit(w) \/ Rollback(w)
      PROVE  BudgetInv'
  <2>1. /\ UNCHANGED <<cursor, handed, breaks, pc, ctx>>
        /\ UNCHANGED table \/ table' = table \cup tx[w]
    BY <1>5 DEF Begin, Record, Commit, Rollback
  <2>2. Credit' = Credit
    BY <2>1 DEF Credit, Owed, Dying, Waiting
  <2> QED BY <1>3, <1>n, <1>c, <2>1, <2>2
<1>6. CASE Wake \/ Stop \/ LoadCursor \/ Query \/ ScanFails \/ Restart \/ Exit
  <2>1. /\ UNCHANGED <<table, cursor, handed, breaks>>
        /\ pc # "saving" /\ pc' # "saving" /\ ~ Dying'
    BY <1>6 DEF Wake, Stop, LoadCursor, Query, Scanned, ScanFails, Restart, Exit, Halt, Dying
  <2>2. Owed' <=> Owed
    BY <2>1 DEF Owed, Waiting
  <2>3. Credit' <= Credit
    BY <2>1, <2>2 DEF Credit
  <2>4. breaks' = breaks /\ breaks \in Nat
    BY <1>n, <2>1
  <2>5. Credit \in Int /\ Credit' \in Int
    BY <1>c
  <2>6. Credit' - Credit <= 0 /\ breaks' - breaks = 0
    <3>1. \A i, j \in Int : i <= j => i - j <= 0
      OBVIOUS
    <3>2. Credit' - Credit <= 0
      BY <3>1, <2>3, <2>5
    <3>3. \A i \in Nat : i - i = 0
      OBVIOUS
    <3> QED BY <3>2, <3>3, <2>4
  <2>7. Credit' - Credit <= breaks' - breaks
    BY <2>6
  <2> QED BY <1>3, <2>1, <2>4, <2>7
<1>7. CASE SaveFails
  <2>1. /\ UNCHANGED <<table, cursor, handed, ctx>> /\ pc = "saving" /\ pc' = "idle"
        /\ \/ ctx = "live" /\ breaks' = breaks + 1
           \/ ctx = "cancelled" /\ breaks' = breaks
    BY <1>7 DEF SaveFails
  <2>2. ~ Owed /\ ~ Dying' /\ (Dying <=> ctx = "cancelled")
    BY <2>1 DEF Owed, Dying
  <2> QED BY <1>3, <1>n, <1>c, <2>1, <2>2
<1>8. CASE Cancel
  <2>1. /\ UNCHANGED <<table, cursor, handed, pc>> /\ breaks' = breaks + 1 /\ ctx = "live"
    BY <1>8 DEF Cancel, txVars
  <2>2. ~ Dying /\ (Owed' <=> Owed)
    BY <2>1 DEF Owed, Dying, Waiting
  <2>3. Credit' - Credit <= 1
    BY <1>c, <2>2 DEF Credit
  <2> QED BY <1>3, <1>n, <1>c, <2>1, <2>3
<1>9. CASE Crash
  <2>1. UNCHANGED <<table, cursor, handed>> /\ breaks' = breaks + 1 /\ pc' = "down"
    BY <1>9 DEF Crash, Halt
  <2>2. ~ Dying'
    BY <2>1 DEF Dying
  <2> QED BY <1>3, <1>n, <1>c, <2>1, <2>2
<1> QED BY <1>1, <1>2, <1>4, <1>5, <1>6, <1>7, <1>8, <1>9
        DEF OutboxNext, Writing, Tailing, Running

\* All second deliveries together are no more than the crashes, shutdowns and
\* failed cursor saves there were.
THEOREM RedeliveriesAreFew == OutboxSpec => []FewRedeliveries
<1>1. ASSUME IInv, BudgetInv PROVE FewRedeliveries
  BY <1>1, CountIsNatural, CreditBounds DEF IInv, BudgetInv, FewRedeliveries
<1>2. OutboxInit => BudgetInv
  BY BudgetInit
<1>3. IInv /\ BudgetInv /\ [OutboxNext]_outboxVars => BudgetInv'
  BY BudgetStep
<1> QED BY <1>1, <1>2, <1>3, Invariant, PTL DEF OutboxSpec

----------------------------------------------------------------------------
(* The tailer implements the feed. *)

LEMMA InitIsFeed == OutboxInit => Feed!FeedInit
BY DEF OutboxInit, Feed!FeedInit

\* The batch's first event is the oldest unread one.
LEMMA HeadIsOldest ==
  ASSUME IInv, NEW e \in batch, IsLeast(e, batch)
  PROVE  e \in Feed!Unread /\ Feed!IsLeast(e, Feed!Unread)
BY Numbers DEF IInv, OutboxTypeOK, ScanInv, IsLeast, Feed!Unread, Feed!IsLeast

LEMMA StepIsFeed ==
  ASSUME IInv, [OutboxNext]_outboxVars PROVE [Feed!FeedNext]_(Feed!feed)
<1> USE DEF Feed!feed
<1>1. ASSUME NEW w \in Writer, Commit(w) PROVE Feed!FeedNext
  <2>1. tx[w] \in SUBSET Id /\ Feed!Append(tx[w])
    BY <1>1, Numbers DEF IInv, OrderInv, OutboxTypeOK, Commit, Feed!Append
  <2> QED BY <2>1 DEF Feed!FeedNext
<1>2. ASSUME HandOver PROVE Feed!FeedNext
  BY <1>2, HeadIsOldest DEF HandOver, Feed!FeedNext, Feed!Hand
<1>3. ASSUME Save PROVE Feed!FeedNext
  BY <1>3, HeadIsOldest DEF Save, IInv, ScanInv, Feed!FeedNext, Feed!Acknowledge
<1>4. CASE UNCHANGED outboxVars
  BY <1>4 DEF outboxVars
<1>5. CASE OutboxNext
  <2>1. ASSUME NEW w \in Writer, Begin(w) \/ Record(w) \/ Rollback(w)
        PROVE  UNCHANGED <<table, cursor, handed>>
    BY <2>1 DEF Begin, Record, Rollback
  <2>2. CASE Wake \/ Stop \/ LoadCursor \/ Query \/ ScanFails \/ SaveFails
    BY <2>2 DEF Wake, Stop, LoadCursor, Query, ScanFails, SaveFails
  <2>3. CASE Cancel \/ Crash \/ Restart \/ Exit
    BY <2>3 DEF Cancel, Crash, Restart, Exit, Halt
  <2> QED BY <1>5, <1>1, <1>2, <1>3, <2>1, <2>2, <2>3
          DEF OutboxNext, Writing, Tailing, Running
<1> QED BY <1>4, <1>5

\* The listener sees a feed: every step of the tailer, the writers and the process
\* is a step of EventFeed or leaves the feed alone.
THEOREM ImplementsFeed == OutboxSpec => Promised
BY InitIsFeed, StepIsFeed, Invariant, PTL DEF OutboxSpec, Promised, Feed!FeedSpec
-----------------------------------------------------------------------------
(* The listener. *)


\* What a reader of the rules may hold, and a send under way.
RuleSet  == UNION {[D -> Nat] : D \in SUBSET Rule}
LoadType == [step : {"none", "stamped", "read"}, gen : Nat, rules : RuleSet,
             floor : {<<>>} \cup [Rule -> Nat]]
SendType == [step : {"start", "sending"}, ver : Nat, floor : Nat, count : Nat,
             covers : SUBSET Id, bound : BOOLEAN]
BufferType == [ver : Nat, event : Nat, count : Nat, covers : SUBSET Id]

RulesTypeOK ==
  /\ rules \in [Rule -> Seq(BOOLEAN)] /\ settled \in [Rule -> Nat] /\ editing \subseteq Rule
  /\ cache \in [loaded : BOOLEAN, rules : RuleSet, gen : Nat]
  /\ load \in [Reader -> LoadType]

CallTypeOK ==
  /\ call \in [step : {"none", "asked", "marked", "matching"}, rules : RuleSet]
  /\ seen \in Seq(Id)
  /\ matched \in [Send -> 0..1]

SendsTypeOK ==
  /\ buffers \in [Rule -> BufferType]
  /\ DOMAIN sends \subseteq Send /\ sends \in [DOMAIN sends -> SendType]
  /\ inflight \in Nat /\ flush \in {"none", "draining", "expired", "done"}
  /\ spent \in [Send -> 0..1]

ListenerTypeOK == RulesTypeOK /\ CallTypeOK /\ SendsTypeOK

\* R shows every rule of rs in a version from floor[r] on.
ShowsSince(rs, R, floor) ==
  \A r \in Rule : \E v \in floor[r]..Len(rs[r]) :
    IF rs[r][v] THEN r \in DOMAIN R /\ R[r] = v ELSE r \notin DOMAIN R

\* A load shows nothing older than when it was asked for; and nothing older than the
\* last finished edit, if no edit finished since.
LoadInv ==
  /\ \A r \in Rule : settled[r] \in 1..Version(r)
  /\ \A p \in Reader : load[p].step # "none" =>
       /\ load[p].gen <= cache.gen
       /\ load[p].floor \in [Rule -> Nat]
       /\ \A r \in Rule : load[p].floor[r] \in 1..settled[r]
  /\ \A p \in Reader : load[p].step = "read" =>
       /\ ShowsSince(rules, load[p].rules, load[p].floor)
       /\ load[p].gen = cache.gen => ShowsSince(rules, load[p].rules, settled)
  /\ cache.loaded => ShowsSince(rules, cache.rules, settled)

\* What is sent is a version that was settled when the send asked, and an enabled one.
WordInv ==
  \A k \in DOMAIN sends :
    /\ sends[k].step = "start" => sends[k].floor = 0
    /\ sends[k].floor > 0 => /\ sends[k].floor <= sends[k].ver
                             /\ sends[k].ver <= Version(k[1]) /\ rules[k[1]][sends[k].ver]

IsUnread(e) == e \in table /\ e > cursor /\ \A f \in table : f > cursor => e <= f

\* The dedupe set remembers at most one event that the cursor has not passed: the
\* next one, at its end.
SeenInv ==
  /\ Len(seen) <= SeenCap
  /\ \A i \in 1..Len(seen) : seen[i] > cursor => i = Len(seen) /\ IsUnread(seen[i])
  /\ call.step # "none" => pc = "handing"
  /\ call.step \in {"marked", "matching"} => Len(seen) > 0 /\ seen[Len(seen)] = InHand

\* So an event that matched and may be handed over again is remembered.
MatchInv ==
  /\ \A r \in Rule, e \in Id : matched[<<r, e>>] = 1 => e <= cursor \/ e \in Range(seen)
  /\ call.step = "marked" => \A r \in Rule : matched[<<r, InHand>>] = 0
  /\ call.step = "matching" => \A r \in DOMAIN call.rules : matched[<<r, InHand>>] = 0

\* A match is in the window or in one send, until it is spent.
HoldInv ==
  /\ \A k \in Send : spent[k] <= matched[k]
  /\ \A r \in Rule : \A e \in buffers[r].covers : matched[<<r, e>>] = 1 /\ spent[<<r, e>>] = 0
  /\ \A k \in DOMAIN sends : \A e \in sends[k].covers :
       matched[<<k[1], e>>] = 1 /\ spent[<<k[1], e>>] = 0 /\ e \notin buffers[k[1]].covers
  /\ \A j, k \in DOMAIN sends : \A e \in sends[j].covers \cap sends[k].covers :
       j[1] = k[1] => j = k
  /\ \A r \in Rule, e \in Id : matched[<<r, e>>] = 1 /\ spent[<<r, e>>] = 0 =>
       e \in buffers[r].covers \/ \E k \in DOMAIN sends : k[1] = r /\ e \in sends[k].covers

CountInv ==
  /\ \A r \in Rule : /\ buffers[r].count = Cardinality(buffers[r].covers)
                     /\ buffers[r].count > 0 => buffers[r].event \in buffers[r].covers
  /\ \A k \in DOMAIN sends :
       k[2] \in sends[k].covers /\ sends[k].count = Cardinality(sends[k].covers)
  /\ inflight = Cardinality(DOMAIN sends)

FlushInv ==
  /\ flush # "none" => pc = "stopped" /\ \A r \in Rule : buffers[r].count = 0
  /\ flush = "done" => DOMAIN sends = {}

RulesInv == RulesTypeOK /\ LoadInv
CallInv  == CallTypeOK /\ SeenInv /\ MatchInv
SendsInv == SendsTypeOK /\ WordInv /\ HoldInv /\ CountInv /\ FlushInv
ListenerInv == IInv /\ RulesInv /\ CallInv /\ SendsInv

----------------------------------------------------------------------------
(* The outbox under the listener. *)

\* Every step is a step of the outbox or leaves it alone.
LEMMA OutboxStep == ASSUME [Next]_vars PROVE [OutboxNext]_outboxVars
<1>1. CASE UNCHANGED vars
  BY <1>1 DEF vars
<1>2. CASE Outbox
  BY <1>2 DEF Outbox, OutboxNext, Running
<1>3. CASE Halting
  BY <1>3 DEF Halting, OutboxNext, Running
<1>4. CASE Reading
  BY <1>4 DEF Reading, Stamp, ReadRules
<1>5. CASE Calling
  BY <1>5 DEF Calling, Ask, See, Evaluate, Unevaluated, Matched, HandleMatch, Return, OutboxNext
<1>6. CASE Sending
  BY <1>6 DEF Sending, ResolveRule, Push, TimerFires
<1>7. CASE Editing \/ Flushing
  BY <1>7 DEF Editing, EditRule, InvalidateRules, Flushing, FlushBegin, FlushEnd
<1> QED BY <1>1, <1>2, <1>3, <1>4, <1>5, <1>6, <1>7 DEF Next

LEMMA InitIsOutbox == Init => OutboxInit
BY DEF Init

\* The listener leaves the outbox as it was: whatever it does, the writers and the
\* tailer behave as AuditOutbox says.
THEOREM ListenerKeepsOutbox == Spec => OutboxSpec
BY OutboxStep, InitIsOutbox, PTL DEF Spec, OutboxSpec

----------------------------------------------------------------------------
(* Sets of numbers, sequences and functions. *)

LEMMA LeastExists ==
  ASSUME NEW S \in SUBSET Nat, S # {} PROVE \E e \in S : IsLeast(e, S)
<1>1. PICK x \in S : \A y \in S : ~ (<<y, x>> \in OpToRel(<, Nat))
  BY NatLessThanWellFounded, WFMin
<1>2. \A y \in S : ~ (y < x)
  BY <1>1 DEF OpToRel
<1> QED BY <1>2 DEF IsLeast

\* Remember appends, and drops only the oldest mark.
LEMMA RememberIs ==
  ASSUME NEW e \in Id, CallTypeOK, Len(seen) <= SeenCap
  PROVE  /\ Remember(e) \in Seq(Id) /\ Len(Remember(e)) \in 1..SeenCap
         /\ Remember(e)[Len(Remember(e))] = e
         /\ \A i \in 1..Len(Remember(e)) - 1 : \E j \in 1..Len(seen) : Remember(e)[i] = seen[j]
<1>0. seen \in Seq(Id) /\ SeenCap \in Nat \ {0} /\ Len(seen) \in Nat
  BY ListenerAssumption DEF CallTypeOK
<1>1. CASE Len(seen) < SeenCap
  BY <1>0, <1>1 DEF Remember
<1>2. CASE Len(seen) = SeenCap
  BY <1>0, <1>2, SMTT(30) DEF Remember
<1> QED BY <1>0, <1>1, <1>2

\* What is in a sequence is at one of its places.
LEMMA InSeen == ASSUME CallTypeOK
  PROVE \A e : e \in Range(seen) <=> \E i \in 1..Len(seen) : seen[i] = e
BY DEF CallTypeOK, Range

LEMMA RemoveLast ==
  ASSUME NEW s \in Seq(Id), Len(s) > 0
  PROVE  /\ RemoveAt(s, Len(s)) \in Seq(Id) /\ Len(RemoveAt(s, Len(s))) = Len(s) - 1
         /\ \A i \in 1..Len(s) - 1 : RemoveAt(s, Len(s))[i] = s[i]
<1> DEFINE t == SubSeq(s, 1, Len(s) - 1)
<1>1. SubSeq(s, Len(s) + 1, Len(s)) = <<>> /\ t \in Seq(Id)
  OBVIOUS
<1>2. RemoveAt(s, Len(s)) = t
  BY <1>1 DEF RemoveAt
<1>3. Len(s) \in Nat \ {0} /\ \A i \in 1..(Len(s) - 1) : s[i] \in Id
  OBVIOUS
<1>4. /\ Len(t) = IF 1 <= Len(s) - 1 THEN (Len(s) - 1) - 1 + 1 ELSE 0
      /\ \A i \in 1..((Len(s) - 1) - 1 + 1) : t[i] = s[1 + i - 1]
  BY <1>3, SubSeqProperties, Len(s) - 1 \in Int, 1 \in Int
<1> HIDE DEF t
<1>5. Len(t) = Len(s) - 1
  <2>1. \A n \in Nat \ {0} : (IF 1 <= n - 1 THEN (n - 1) - 1 + 1 ELSE 0) = n - 1
    OBVIOUS
  <2> QED BY <1>3, <1>4, <2>1
<1>6. ASSUME NEW i \in 1..(Len(s) - 1) PROVE t[i] = s[i]
  <2>1. 1 + i - 1 = i /\ i \in 1..((Len(s) - 1) - 1 + 1)
    BY <1>3
  <2> QED BY <1>4, <2>1
<1> QED BY <1>1, <1>2, <1>5, <1>6

\* A partial function from rules to versions.
LEMMA RuleSetIs ==
  /\ \A R \in RuleSet : DOMAIN R \subseteq Rule /\ \A r \in DOMAIN R : R[r] \in Nat
  /\ \A D \in SUBSET Rule : [D -> Nat] \subseteq RuleSet
  /\ NoRules \in RuleSet
<1>1. NoRules \in [{} -> Nat]
  BY DEF NoRules
<1> QED BY <1>1 DEF RuleSet

LEMMA AppendKeeps ==
  ASSUME NEW s \in Seq(BOOLEAN), NEW on \in BOOLEAN
  PROVE  /\ Append(s, on) \in Seq(BOOLEAN) /\ Len(s) \in Nat /\ Len(Append(s, on)) = Len(s) + 1
         /\ \A v \in 1..Len(s) : Append(s, on)[v] = s[v]
OBVIOUS

\* What was shown is shown when versions are appended.
LEMMA ShownLater ==
  ASSUME NEW rs \in [Rule -> Seq(BOOLEAN)], NEW new \in [Rule -> Seq(BOOLEAN)],
         \A r \in Rule : Len(rs[r]) <= Len(new[r]) /\ \A v \in 1..Len(rs[r]) : new[r][v] = rs[r][v],
         NEW R, NEW floor, \A r \in Rule : floor[r] \in Nat \ {0}, ShowsSince(rs, R, floor)
  PROVE  ShowsSince(new, R, floor)
<1> SUFFICES ASSUME NEW r \in Rule
             PROVE  \E v \in floor[r]..Len(new[r]) :
                      IF new[r][v] THEN r \in DOMAIN R /\ R[r] = v ELSE r \notin DOMAIN R
  BY DEF ShowsSince
<1>1. PICK v \in floor[r]..Len(rs[r]) :
        IF rs[r][v] THEN r \in DOMAIN R /\ R[r] = v ELSE r \notin DOMAIN R
  BY DEF ShowsSince
<1>2. /\ Len(rs[r]) \in Nat /\ Len(new[r]) \in Nat /\ Len(rs[r]) <= Len(new[r])
      /\ \A u \in 1..Len(rs[r]) : new[r][u] = rs[r][u]
  OBVIOUS
<1>3. v \in 1..Len(rs[r]) /\ v \in floor[r]..Len(new[r])
  BY <1>2
<1> QED BY <1>1, <1>2, <1>3

----------------------------------------------------------------------------
(* Who reads the rules. *)

LEMMA RulesFrame ==
  ASSUME RulesInv, UNCHANGED <<ruleVars, cache, load>> PROVE RulesInv'
BY DEF RulesInv, RulesTypeOK, LoadInv, Version, ruleVars

LEMMA StampKeeps == ASSUME RulesInv, NEW p \in Reader, Stamp(p) PROVE RulesInv'
<1> DEFINE l == [NoLoad EXCEPT !.step = "stamped", !.gen = cache.gen, !.floor = settled]
<1>0. /\ UNCHANGED <<rules, settled, editing, cache>> /\ load' = [load EXCEPT ![p] = l]
      /\ NoRules \in RuleSet
  BY RuleSetIs DEF Stamp, ruleVars
<1>1. l \in LoadType /\ l.step = "stamped" /\ l.gen = cache.gen /\ l.floor = settled
  BY <1>0 DEF RulesInv, RulesTypeOK, LoadType, NoLoad
<1> HIDE DEF l
<1>2. RulesTypeOK'
  BY <1>0, <1>1 DEF RulesInv, RulesTypeOK
<1>3. LoadInv'
  BY <1>0, <1>1 DEF RulesInv, RulesTypeOK, LoadInv, Version
<1> QED BY <1>2, <1>3 DEF RulesInv

\* A read shows the rules as they are.
LEMMA EnabledIsNew ==
  ASSUME RulesInv
  PROVE  /\ Enabled \in RuleSet
         /\ \A floor \in [Rule -> Nat] :
              (\A r \in Rule : floor[r] <= Version(r)) => ShowsSince(rules, Enabled, floor)
<1>1. \A r \in Rule : /\ Version(r) \in Nat \ {0} /\ Last(rules[r]) = rules[r][Version(r)]
                      /\ settled[r] <= Version(r)
  BY DEF RulesInv, RulesTypeOK, LoadInv, Version, Last
<1>2. Enabled \in RuleSet
  BY <1>1, RuleSetIs DEF Enabled
<1>3. ASSUME NEW r \in Rule
      PROVE  IF rules[r][Version(r)] THEN r \in DOMAIN Enabled /\ Enabled[r] = Version(r)
             ELSE r \notin DOMAIN Enabled
  BY <1>1 DEF Enabled
<1>4. ASSUME NEW floor \in [Rule -> Nat], \A r \in Rule : floor[r] <= Version(r)
      PROVE  ShowsSince(rules, Enabled, floor)
  BY <1>1, <1>3, <1>4 DEF ShowsSince, Version
<1> QED BY <1>2, <1>4

LEMMA ReadRulesKeeps == ASSUME RulesInv, NEW p \in Reader, ReadRules(p) PROVE RulesInv'
<1> DEFINE l == [load[p] EXCEPT !.step = "read", !.rules = Enabled]
<1>0. /\ UNCHANGED <<rules, settled, editing, cache>> /\ load' = [load EXCEPT ![p] = l]
      /\ load[p] \in LoadType /\ load[p].step = "stamped"
  BY DEF ReadRules, ruleVars, RulesInv, RulesTypeOK
<1>1. /\ l \in LoadType /\ l.step = "read" /\ l.gen = load[p].gen /\ l.floor = load[p].floor
      /\ l.rules = Enabled
  BY <1>0, EnabledIsNew DEF LoadType
<1> HIDE DEF l
<1>2. RulesTypeOK'
  BY <1>0, <1>1 DEF RulesInv, RulesTypeOK
<1>3. ShowsSince(rules, Enabled, load[p].floor) /\ ShowsSince(rules, Enabled, settled)
  <2>1. \A r \in Rule : settled[r] <= Version(r) /\ load[p].floor[r] <= Version(r)
    BY <1>0 DEF RulesInv, RulesTypeOK, LoadInv, Version
  <2> QED BY <2>1, <1>0, EnabledIsNew DEF RulesInv, RulesTypeOK, LoadInv
<1>5. LoadInv'
  <2>1. \A q \in Reader : load'[q] = IF q = p THEN l ELSE load[q]
    BY <1>0 DEF RulesInv, RulesTypeOK
  <2>2. \A r \in Rule : settled'[r] \in 1..Version(r)'
    BY <1>0 DEF RulesInv, LoadInv, Version
  <2>3. cache'.loaded => ShowsSince(rules', cache'.rules, settled')
    BY <1>0 DEF RulesInv, LoadInv
  <2>4. \A q \in Reader : load'[q].step # "none" =>
          /\ load'[q].gen <= cache'.gen
          /\ load'[q].floor \in [Rule -> Nat]
          /\ \A r \in Rule : load'[q].floor[r] \in 1..settled'[r]
    BY <1>0, <1>1, <2>1 DEF RulesInv, LoadInv
  <2>5. \A q \in Reader : load'[q].step = "read" =>
          /\ ShowsSince(rules', load'[q].rules, load'[q].floor)
          /\ load'[q].gen = cache'.gen => ShowsSince(rules', load'[q].rules, settled')
    BY <1>0, <1>1, <1>3, <2>1 DEF RulesInv, LoadInv
  <2> QED BY <2>2, <2>3, <2>4, <2>5 DEF LoadInv
<1> QED BY <1>2, <1>5 DEF RulesInv

\* Whoever drops its load, and fills the cache with it only if no edit finished in
\* the meantime, leaves the readers right.
LEMMA LoadDropped ==
  ASSUME RulesInv, UNCHANGED ruleVars, NEW p \in Reader,
         load' = [load EXCEPT ![p] = NoLoad],
         \/ cache' = cache
         \/ load[p].step = "read" /\ cache' = CacheRules(load[p])
  PROVE  RulesInv'
<1>0. /\ load' \in [Reader -> LoadType] /\ \A q \in Reader : load'[q] = IF q = p THEN NoLoad ELSE load[q]
      /\ NoLoad.step = "none" /\ UNCHANGED <<rules, settled, editing>>
  <2>1. NoLoad \in LoadType
    BY RuleSetIs DEF NoLoad, LoadType
  <2> QED BY <2>1 DEF RulesInv, RulesTypeOK, NoLoad, ruleVars
<1>1. /\ cache' \in [loaded : BOOLEAN, rules : RuleSet, gen : Nat] /\ cache'.gen = cache.gen
      /\ cache'.loaded => ShowsSince(rules, cache'.rules, settled)
  <2>0. /\ cache \in [loaded : BOOLEAN, rules : RuleSet, gen : Nat] /\ load[p].rules \in RuleSet
        /\ cache.loaded => ShowsSince(rules, cache.rules, settled)
        /\ load[p].step = "read" /\ load[p].gen = cache.gen => ShowsSince(rules, load[p].rules, settled)
    BY DEF RulesInv, RulesTypeOK, LoadInv, LoadType
  <2>1. CASE cache' = cache
    BY <2>0, <2>1
  <2>2. CASE /\ load[p].step = "read" /\ load[p].gen = cache.gen
             /\ cache' = [loaded |-> TRUE, rules |-> load[p].rules, gen |-> cache.gen]
    <3>1. cache'.rules = load[p].rules /\ cache'.gen = cache.gen
      BY <2>2
    <3> QED BY <2>0, <2>2, <3>1
  <2> QED BY <2>1, <2>2 DEF CacheRules
<1>2. RulesTypeOK'
  BY <1>0, <1>1 DEF RulesInv, RulesTypeOK
<1>4. LoadInv'
  <2>1. \A r \in Rule : settled'[r] \in 1..Version(r)'
    BY <1>0 DEF RulesInv, LoadInv, Version
  <2>2. cache'.loaded => ShowsSince(rules', cache'.rules, settled')
    BY <1>0, <1>1
  <2>3. \A q \in Reader : load'[q].step # "none" =>
          /\ load'[q].gen <= cache'.gen
          /\ load'[q].floor \in [Rule -> Nat]
          /\ \A r \in Rule : load'[q].floor[r] \in 1..settled'[r]
    BY <1>0, <1>1 DEF RulesInv, LoadInv
  <2>4. \A q \in Reader : load'[q].step = "read" =>
          /\ ShowsSince(rules', load'[q].rules, load'[q].floor)
          /\ load'[q].gen = cache'.gen => ShowsSince(rules', load'[q].rules, settled')
    BY <1>0, <1>1 DEF RulesInv, LoadInv
  <2> QED BY <2>1, <2>2, <2>3, <2>4 DEF LoadInv
<1> QED BY <1>2, <1>4 DEF RulesInv

LEMMA MissesKeeps ==
  ASSUME RulesInv, UNCHANGED ruleVars, NEW p \in Reader, Misses(p) PROVE RulesInv'
BY LoadDropped DEF Misses

LEMMA ObtainsKeeps ==
  ASSUME RulesInv, UNCHANGED ruleVars, NEW p \in Reader, NEW R, Obtains(p, R) PROVE RulesInv'
BY LoadDropped, RulesFrame DEF Obtains

\* What a reader obtains is a set of rules no older than what was settled when it asked.
LEMMA ObtainedIsNew ==
  ASSUME RulesInv, NEW p \in Reader, NEW R, Obtains(p, R)
  PROVE  /\ R \in RuleSet /\ ShowsSince(rules, R, Floor(p))
         /\ Floor(p) \in [Rule -> Nat] /\ \A r \in Rule : Floor(p)[r] > 0
<1>1. CASE load[p].step = "read"
  BY <1>1 DEF RulesInv, RulesTypeOK, LoadInv, LoadType, Obtains, Floor
<1>2. CASE load[p].step # "read"
  BY <1>2 DEF RulesInv, RulesTypeOK, LoadInv, LoadType, Obtains, Floor
<1> QED BY <1>1, <1>2

\* An edit appends a version, and is settled when it is invalidated.
LEMMA EditRuleKeeps ==
  ASSUME RulesInv, NEW q \in Rule, EditRule(q)
  PROVE  /\ RulesInv'
         /\ \A r \in Rule : \A v \in 1..Version(r) : rules'[r][v] = rules[r][v]
         /\ \A r \in Rule : Version(r) <= Version(r)'
<1>0. PICK on \in BOOLEAN : rules' = [rules EXCEPT ![q] = Append(@, on)]
  BY DEF EditRule
<1>a. UNCHANGED <<settled, cache, load>> /\ editing' \subseteq Rule
  BY DEF EditRule, RulesInv, RulesTypeOK
<1>1. /\ rules' \in [Rule -> Seq(BOOLEAN)]
      /\ \A r \in Rule : Version(r) \in Nat /\ Version(r)' \in Nat /\ Version(r) <= Version(r)'
      /\ \A r \in Rule : \A v \in 1..Version(r) : rules'[r][v] = rules[r][v]
  <2>1. \A r \in Rule : rules[r] \in Seq(BOOLEAN) /\ rules'[r] = IF r = q THEN Append(rules[r], on) ELSE rules[r]
    BY <1>0 DEF RulesInv, RulesTypeOK
  <2>2. ASSUME NEW r \in Rule
        PROVE  /\ rules'[r] \in Seq(BOOLEAN) /\ Len(rules[r]) \in Nat /\ Len(rules'[r]) \in Nat
               /\ Len(rules[r]) <= Len(rules'[r])
               /\ \A v \in 1..Len(rules[r]) : rules'[r][v] = rules[r][v]
    <3>1. CASE r = q
      <4>1. rules'[r] = Append(rules[r], on)
        BY <2>1, <3>1
      <4>2. /\ Append(rules[r], on) \in Seq(BOOLEAN) /\ Len(rules[r]) \in Nat
            /\ Len(Append(rules[r], on)) = Len(rules[r]) + 1
            /\ \A v \in 1..Len(rules[r]) : Append(rules[r], on)[v] = rules[r][v]
        BY <2>1, AppendKeeps
      <4> QED BY <4>1, <4>2
    <3>2. CASE r # q
      BY <2>1, <3>2
    <3> QED BY <3>1, <3>2
  <2>3. DOMAIN rules' = Rule /\ rules' = [r \in Rule |-> rules'[r]]
    BY <1>0 DEF RulesInv, RulesTypeOK
  <2> QED BY <2>1, <2>2, <2>3 DEF Version
<1>3. \A R, floor : (\A r \in Rule : floor[r] \in Nat \ {0}) /\ ShowsSince(rules, R, floor) => ShowsSince(rules', R, floor)
  BY <1>1, ShownLater, rules \in [Rule -> Seq(BOOLEAN)] DEF Version, RulesInv, RulesTypeOK
<1>4. RulesTypeOK'
  BY <1>a, <1>1 DEF RulesInv, RulesTypeOK
<1>5. LoadInv'
  <2>1. \A r \in Rule : settled[r] \in Nat \ {0}
    BY DEF RulesInv, LoadInv, RulesTypeOK
  <2>2. \A p \in Reader : load[p].step # "none" => \A r \in Rule : load[p].floor[r] \in Nat \ {0}
    BY <2>1 DEF RulesInv, LoadInv
  <2>3. \A r \in Rule : settled'[r] \in 1..Version(r)'
    BY <1>a, <1>1 DEF RulesInv, LoadInv
  <2>4. cache'.loaded => ShowsSince(rules', cache'.rules, settled')
    BY <1>a, <1>3, <2>1 DEF RulesInv, LoadInv
  <2>5. \A p \in Reader : load'[p].step = "read" =>
          /\ ShowsSince(rules', load'[p].rules, load'[p].floor)
          /\ load'[p].gen = cache'.gen => ShowsSince(rules', load'[p].rules, settled')
    BY <1>a, <1>3, <2>1, <2>2 DEF RulesInv, LoadInv
  <2> QED BY <1>a, <2>3, <2>4, <2>5 DEF RulesInv, LoadInv
<1> QED BY <1>1, <1>4, <1>5 DEF RulesInv

LEMMA InvalidateRulesKeeps ==
  ASSUME RulesInv, NEW q \in Rule, InvalidateRules(q) PROVE RulesInv'
<1>0. /\ UNCHANGED <<rules, load>> /\ editing' \subseteq Rule
      /\ settled' = [settled EXCEPT ![q] = Version(q)]
      /\ cache' = [loaded |-> FALSE, rules |-> NoRules, gen |-> cache.gen + 1]
      /\ NoRules \in RuleSet
  BY RuleSetIs DEF InvalidateRules, RulesInv, RulesTypeOK, Unloaded
<1>1. \A r \in Rule : /\ settled[r] \in Nat /\ settled'[r] \in Nat
                      /\ settled'[r] \in 1..Version(r)' /\ settled[r] <= settled'[r]
  BY <1>0 DEF RulesInv, RulesTypeOK, LoadInv, Version
<1>2. RulesTypeOK'
  BY <1>0, <1>1 DEF RulesInv, RulesTypeOK
<1>3. /\ cache.gen \in Nat /\ \A p \in Reader : load[p].gen \in Nat
  BY <1>0 DEF RulesInv, RulesTypeOK, LoadType
<1>4. LoadInv'
  <2>1. \A p \in Reader : load[p].step # "none" =>
          /\ load[p].gen <= cache.gen /\ load[p].floor \in [Rule -> Nat]
          /\ \A r \in Rule : load[p].floor[r] \in 1..settled[r]
    BY DEF RulesInv, LoadInv
  <2>2. \A p \in Reader : load'[p].step # "none" =>
          /\ load'[p].gen < cache'.gen /\ load'[p].floor \in [Rule -> Nat]
          /\ \A r \in Rule : load'[p].floor[r] \in 1..settled'[r]
    BY <1>0, <1>1, <1>3, <2>1
  <2>3. \A p \in Reader : load'[p].step = "read" =>
          ShowsSince(rules', load'[p].rules, load'[p].floor)
    BY <1>0, <1>3 DEF RulesInv, LoadInv
  <2>4. \A p \in Reader : load'[p].step = "read" => load'[p].gen # cache'.gen
    BY <1>0, <1>3, <2>2
  <2> QED BY <1>0, <1>1, <1>3, <2>2, <2>3, <2>4 DEF LoadInv
<1> QED BY <1>2, <1>4 DEF RulesInv

\* A new process loads its rules anew.
LEMMA ResetRules ==
  ASSUME RulesTypeOK, \A r \in Rule : Version(r) > 0,
         cache' = Unloaded(0), load' = [p \in Reader |-> NoLoad],
         editing' = {}, settled' = [r \in Rule |-> Version(r)], UNCHANGED rules
  PROVE  RulesInv'
<1>1. NoRules \in RuleSet /\ NoLoad \in LoadType /\ NoLoad.step = "none"
  BY RuleSetIs DEF NoLoad, LoadType
<1>2. cache' \in [loaded : BOOLEAN, rules : RuleSet, gen : Nat] /\ ~cache'.loaded
  BY <1>1 DEF Unloaded
<1>3. RulesTypeOK'
  BY <1>1, <1>2 DEF RulesTypeOK, Version
<1>4. LoadInv'
  BY <1>1, <1>2 DEF LoadInv, RulesTypeOK, Version
<1> QED BY <1>3, <1>4 DEF RulesInv

----------------------------------------------------------------------------
(* A call of the tailer. *)

LEMMA CallFrame ==
  ASSUME CallInv, UNCHANGED <<call, seen, matched, table, cursor, pc, batch>> PROVE CallInv'
BY DEF CallInv, CallTypeOK, SeenInv, MatchInv, InHand, IsUnread

\* The event in hand is the next one the cursor has to pass.
LEMMA InHandIs ==
  ASSUME IInv, pc = "handing"
  PROVE  InHand \in batch /\ IsLeast(InHand, batch) /\ InHand \in Id /\ IsUnread(InHand)
<1>1. batch \in SUBSET Nat /\ batch # {}
  BY Numbers DEF IInv, OutboxTypeOK
<1>2. InHand \in batch /\ IsLeast(InHand, batch)
  BY <1>1, LeastExists DEF InHand, IsLeast
<1> QED BY <1>2, Numbers DEF IInv, OutboxTypeOK, ScanInv, IsLeast, IsUnread

\* There is one next event.
LEMMA OneUnread ==
  ASSUME OutboxTypeOK, NEW e, NEW f, IsUnread(e), IsUnread(f) PROVE e = f
BY Numbers DEF IsUnread

\* What is remembered beyond the cursor is the event in hand; so unless that is
\* remembered, no event that matched lies beyond the cursor.
LEMMA OnlyInHand ==
  ASSUME IInv, CallInv, pc = "handing", NEW r \in Rule, NEW e \in Id,
         matched[<<r, e>>] = 1, ~ (e <= cursor)
  PROVE  e = InHand /\ InHand \in Range(seen)
<1>1. e \in Range(seen) /\ e > cursor
  BY Numbers DEF CallInv, MatchInv, IInv
<1>2. PICK i \in 1..Len(seen) : seen[i] = e
  BY <1>1, InSeen DEF CallInv
<1>3. IsUnread(e)
  BY <1>1, <1>2 DEF CallInv, SeenInv
<1> QED BY <1>1, <1>3, InHandIs, OneUnread DEF IInv

\* Steps of the outbox: a call under way keeps its event, and the cursor passes
\* nothing but the next one.
LEMMA OutboxKeepsCall ==
  ASSUME IInv, CallInv, Outbox PROVE CallInv'
<1>0. UNCHANGED <<call, seen, matched>>
  BY DEF Outbox, listenerVars, matchVars
<1>1. CallTypeOK'
  BY <1>0 DEF CallInv, CallTypeOK
<1>2. ASSUME NEW w \in Writer, Commit(w) PROVE SeenInv' /\ MatchInv'
  <2>1. /\ UNCHANGED <<cursor, pc, batch>> /\ table' = table \cup tx[w]
        /\ \A e \in tx[w], f \in table : f < e
    BY <1>2 DEF Commit, IInv, OrderInv, scanVars
  <2>2. \A e : IsUnread(e) => IsUnread(e)'
    BY <2>1, Numbers DEF IsUnread, IInv
  <2>3. InHand' = InHand
    BY <2>1 DEF InHand
  <2>4. SeenInv'
    BY <1>0, <2>1, <2>2, <2>3 DEF CallInv, SeenInv
  <2> QED BY <1>0, <2>1, <2>3, <2>4 DEF CallInv, MatchInv
<1>3. ASSUME Save PROVE SeenInv' /\ MatchInv'
  <2>1. PICK e \in batch : IsLeast(e, batch) /\ cursor' = e
    BY <1>3 DEF Save
  <2>2. IsUnread(e) /\ cursor <= e /\ e \in Nat /\ cursor \in Nat /\ call.step = "none" /\ table' = table
    BY <1>3, <2>1, Numbers
       DEF Save, IInv, OutboxTypeOK, ScanInv, IsLeast, IsUnread, CallInv, SeenInv
  <2>3. \A i \in 1..Len(seen) : seen[i] \in Nat /\ ~ (seen[i] > cursor')
    <3>0. \A i \in 1..Len(seen) : seen[i] \in Nat
      BY Numbers DEF CallInv, CallTypeOK, IInv
    <3> SUFFICES ASSUME NEW i \in 1..Len(seen), seen[i] > cursor' PROVE FALSE
      BY <3>0
    <3>1. seen[i] \in Nat
      BY <3>0
    <3>2. seen[i] > cursor
      BY <2>1, <2>2, <3>1
    <3>3. IsUnread(seen[i])
      BY <3>2 DEF CallInv, SeenInv
    <3> QED BY <2>1, <2>2, <3>1, <3>3, OneUnread DEF IInv
  <2>4. SeenInv'
    BY <1>0, <2>2, <2>3 DEF CallInv, SeenInv
  <2>5. \A f \in Id : f <= cursor => f <= cursor'
    BY <2>1, <2>2, Numbers DEF IInv
  <2> QED BY <1>0, <2>2, <2>4, <2>5 DEF CallInv, MatchInv
<1>4. ASSUME UNCHANGED <<table, cursor>>,
             call.step # "none" => UNCHANGED <<pc, batch>>
      PROVE  SeenInv' /\ MatchInv'
  <2>1. call.step # "none" => InHand' = InHand
    BY <1>4 DEF InHand
  <2>2. \A e : IsUnread(e) => IsUnread(e)'
    BY <1>4 DEF IsUnread
  <2>3. SeenInv'
    BY <1>0, <1>4, <2>1, <2>2 DEF CallInv, SeenInv
  <2> QED BY <1>0, <1>4, <2>1, <2>3 DEF CallInv, MatchInv
<1>6. ASSUME NEW w \in Writer, Begin(w) \/ Record(w) \/ Rollback(w) PROVE SeenInv' /\ MatchInv'
  BY <1>4, <1>6 DEF Begin, Record, Rollback, scanVars
<1>7. ASSUME Wake \/ Stop \/ LoadCursor \/ Query \/ ScanFails \/ SaveFails \/ Restart
      PROVE  SeenInv' /\ MatchInv'
  <2>1. UNCHANGED <<table, cursor>> /\ pc # "handing"
    BY <1>7 DEF Wake, Stop, LoadCursor, Query, ScanFails, SaveFails, Restart, scanVars
  <2>2. call.step = "none"
    BY <2>1 DEF CallInv, SeenInv
  <2> QED BY <1>4, <2>1, <2>2
<1>8. ASSUME Cancel PROVE SeenInv' /\ MatchInv'
  BY <1>4, <1>8 DEF Cancel, scanVars
<1>9. SeenInv' /\ MatchInv'
  BY <1>2, <1>3, <1>6, <1>7, <1>8 DEF Outbox, Writing, Tailing
<1> QED BY <1>1, <1>9 DEF CallInv

\* NeedsChanges marks nothing.
LEMMA AskKeeps == ASSUME IInv, CallInv, Ask PROVE CallInv'
<1>0. /\ call' = [call EXCEPT !.step = "asked"] /\ pc = "handing"
      /\ UNCHANGED <<seen, matched, table, cursor, pc, batch>>
  BY DEF Ask, outboxVars, scanVars
<1>1. CallTypeOK' /\ call'.step = "asked"
  BY <1>0 DEF CallInv, CallTypeOK
<1>2. \A e : IsUnread(e) => IsUnread(e)'
  BY <1>0 DEF IsUnread
<1>3. SeenInv'
  BY <1>0, <1>1, <1>2 DEF CallInv, SeenInv
<1> QED BY <1>0, <1>1, <1>3 DEF CallInv, MatchInv

\* The return of the call ends it with the event handed over.
LEMMA ReturnKeeps ==
  ASSUME IInv, CallInv, Return, UNCHANGED <<seen, matched>> PROVE CallInv'
<1>0. call' = NoCall /\ UNCHANGED <<table, cursor>>
  BY DEF Return, HandOver
<1>1. CallTypeOK' /\ call'.step = "none"
  BY <1>0, RuleSetIs DEF CallInv, CallTypeOK, NoCall
<1>2. \A e : IsUnread(e) => IsUnread(e)'
  BY <1>0 DEF IsUnread
<1>3. SeenInv'
  BY <1>0, <1>1, <1>2 DEF CallInv, SeenInv
<1> QED BY <1>0, <1>1, <1>3 DEF CallInv, MatchInv

LEMMA SeeKeeps == ASSUME IInv, CallInv, See PROVE CallInv'
<1>1. CASE InHand \in Range(seen)
  BY <1>1, ReturnKeeps DEF See
<1>2. CASE InHand \notin Range(seen)
  <2> DEFINE new == Remember(InHand)
  <2>0. /\ seen' = new /\ call' = [call EXCEPT !.step = "marked"]
        /\ UNCHANGED <<matched, table, cursor, pc, batch>>
        /\ call.step = "asked" /\ pc = "handing"
    BY <1>2 DEF See, outboxVars, scanVars, CallInv, SeenInv
  <2>1. InHand \in Id /\ IsUnread(InHand) /\ InHand' = InHand
    BY <2>0, InHandIs DEF InHand
  <2>2. /\ new \in Seq(Id) /\ Len(new) \in 1..SeenCap /\ new[Len(new)] = InHand
        /\ \A i \in 1..Len(new) - 1 : \E j \in 1..Len(seen) : new[i] = seen[j]
    BY <2>1, RememberIs DEF CallInv, SeenInv
  <2>3. \A j \in 1..Len(seen) : ~ (seen[j] > cursor)
    <3> SUFFICES ASSUME NEW j \in 1..Len(seen), seen[j] > cursor PROVE FALSE
      OBVIOUS
    <3>1. IsUnread(seen[j])
      BY DEF CallInv, SeenInv
    <3>2. seen[j] = InHand
      BY <2>1, <3>1, OneUnread DEF IInv
    <3> QED BY <1>2, <3>2, InSeen DEF CallInv
  <2> HIDE DEF new
  <2>4. CallTypeOK' /\ call'.step = "marked"
    BY <2>0, <2>2 DEF CallInv, CallTypeOK
  <2>5. SeenInv'
    <3>1. \A i \in 1..Len(new) : new[i] > cursor => i = Len(new) /\ IsUnread(new[i])
      <4> SUFFICES ASSUME NEW i \in 1..Len(new), new[i] > cursor
                   PROVE  i = Len(new) /\ IsUnread(new[i])
        OBVIOUS
      <4>1. i = Len(new)
        BY <2>2, <2>3
      <4> QED BY <4>1, <2>1, <2>2
    <3>2. \A e : IsUnread(e) => IsUnread(e)'
      BY <2>0 DEF IsUnread
    <3> QED BY <2>0, <2>1, <2>2, <2>4, <3>1, <3>2, ListenerAssumption DEF SeenInv
  <2>6. \A r \in Rule, e \in Id : matched[<<r, e>>] = 1 => e <= cursor
    BY <1>2, <2>0, OnlyInHand
  <2>7. \A r \in Rule : matched[<<r, InHand>>] = 0
    <3> SUFFICES ASSUME NEW r \in Rule PROVE matched[<<r, InHand>>] # 1
      BY <2>1 DEF CallInv, CallTypeOK, Send
    <3> QED BY <2>1, <2>6, Numbers DEF IsUnread, IInv
  <2>8. MatchInv'
    BY <2>0, <2>1, <2>4, <2>6, <2>7 DEF MatchInv
  <2> QED BY <2>4, <2>5, <2>8 DEF CallInv
<1> QED BY <1>1, <1>2

LEMMA EvaluateKeeps == ASSUME IInv, RulesInv, CallInv, Evaluate PROVE CallInv'
<1>0. PICK R : /\ Obtains(Tailer, R)
               /\ call' = [step |-> "matching",
                           rules |-> [r \in {q \in DOMAIN R : InHand \in Matching[q]} |-> R[r]]]
  BY DEF Evaluate
<1>1. R \in RuleSet /\ call.step = "marked"
  BY <1>0, ObtainedIsNew DEF Reader, Evaluate
<1>2. /\ call'.step = "matching" /\ call'.rules \in RuleSet
      /\ DOMAIN call'.rules \subseteq Rule
  BY <1>0, <1>1, RuleSetIs
<1>3. UNCHANGED <<seen, matched, table, cursor, pc, batch>>
  BY DEF Evaluate, outboxVars, scanVars
<1>4. CallTypeOK'
  BY <1>0, <1>2, <1>3 DEF CallInv, CallTypeOK
<1>5. InHand' = InHand /\ \A e : IsUnread(e) => IsUnread(e)'
  BY <1>3 DEF InHand, IsUnread
<1>6. SeenInv'
  BY <1>1, <1>2, <1>3, <1>5 DEF CallInv, SeenInv
<1>7. MatchInv'
  BY <1>1, <1>2, <1>3, <1>5 DEF CallInv, MatchInv
<1> QED BY <1>4, <1>6, <1>7 DEF CallInv

\* The mark that goes is the last one.
LEMMA UnevaluatedKeeps == ASSUME IInv, CallInv, Unevaluated PROVE CallInv'
<1>0. /\ call.step = "marked" /\ pc = "handing" /\ call' = NoCall
      /\ UNCHANGED <<matched, table, cursor>> /\ Forget(InHand)
  BY DEF Unevaluated, Return, HandOver, CallInv, SeenInv
<1>1. Len(seen) > 0 /\ seen[Len(seen)] = InHand /\ seen \in Seq(Id) /\ Len(seen) \in Nat
  BY <1>0 DEF CallInv, SeenInv, CallTypeOK
<1>2. IsUnread(InHand) /\ InHand > cursor
  BY <1>0, InHandIs DEF IsUnread
<1>3. seen' = RemoveAt(seen, Len(seen))
  <2>1. InHand \in Range(seen)
    BY <1>1, InSeen DEF CallInv
  <2>2. PICK i \in 1..Len(seen) : seen[i] = InHand /\ seen' = RemoveAt(seen, i)
    BY <1>0, <2>1 DEF Forget
  <2>3. i = Len(seen)
    BY <1>2, <2>2 DEF CallInv, SeenInv
  <2> QED BY <2>2, <2>3
<1>4. /\ seen' \in Seq(Id) /\ Len(seen') = Len(seen) - 1
      /\ \A i \in 1..Len(seen) - 1 : seen'[i] = seen[i]
  BY <1>1, <1>3, RemoveLast
<1>5. CallTypeOK' /\ call'.step = "none"
  BY <1>0, <1>4, RuleSetIs DEF CallInv, CallTypeOK, NoCall
<1>6. SeenInv'
  <2>1. \A i \in 1..Len(seen') : ~ (seen'[i] > cursor)
    BY <1>1, <1>4 DEF CallInv, SeenInv
  <2> QED BY <1>0, <1>1, <1>4, <1>5, <2>1, ListenerAssumption DEF CallInv, SeenInv
<1>7. \A r \in Rule, e \in Id : matched[<<r, e>>] = 1 => e <= cursor
  <2> SUFFICES ASSUME NEW r \in Rule, NEW e \in Id, matched[<<r, e>>] = 1, ~ (e <= cursor) PROVE FALSE
    OBVIOUS
  <2>1. e = InHand
    BY <1>0, OnlyInHand
  <2> QED BY <1>0, <2>1 DEF CallInv, MatchInv
<1>8. MatchInv'
  BY <1>0, <1>5, <1>7 DEF MatchInv
<1> QED BY <1>5, <1>6, <1>8 DEF CallInv

\* A match is counted once, for an event that is remembered.
LEMMA HandleMatchKeepsCall ==
  ASSUME IInv, CallInv, NEW r \in Rule, HandleMatch(r)
  PROVE  /\ CallInv' /\ InHand \in Id /\ matched[<<r, InHand>>] = 0
         /\ matched' = [matched EXCEPT ![<<r, InHand>>] = 1]
<1>0. /\ call.step = "matching" /\ pc = "handing" /\ r \in DOMAIN call.rules
      /\ call' = [call EXCEPT !.rules = [q \in DOMAIN @ \ {r} |-> @[q]]]
      /\ UNCHANGED <<seen, table, cursor, pc, batch>>
  BY DEF HandleMatch, outboxVars, scanVars, CallInv, SeenInv
<1>1. InHand \in Id /\ InHand' = InHand /\ \A e : IsUnread(e) => IsUnread(e)'
  BY <1>0, InHandIs DEF InHand, IsUnread
<1>2. matched[<<r, InHand>>] = 0 /\ matched' = [matched EXCEPT ![<<r, InHand>>] = 1]
  <2>1. matched[<<r, InHand>>] = 0
    BY <1>0 DEF CallInv, MatchInv
  <2> QED BY <2>1 DEF HandleMatch
<1>3. /\ call'.step = "matching" /\ call'.rules \in RuleSet
      /\ DOMAIN call'.rules = DOMAIN call.rules \ {r} /\ DOMAIN call.rules \subseteq Rule
  <2>1. call.rules \in RuleSet
    BY DEF CallInv, CallTypeOK
  <2>2. /\ call'.step = call.step
        /\ call'.rules = [q \in DOMAIN call.rules \ {r} |-> call.rules[q]]
    BY <1>0 DEF CallInv, CallTypeOK
  <2> QED BY <1>0, <2>1, <2>2, RuleSetIs
<1>4. call' \in [step : {"none", "asked", "marked", "matching"}, rules : RuleSet]
  BY <1>0, <1>3 DEF CallInv, CallTypeOK
<1>5. CallTypeOK'
  BY <1>0, <1>1, <1>2, <1>4 DEF CallInv, CallTypeOK, Send
<1>6. SeenInv'
  BY <1>0, <1>1, <1>3 DEF CallInv, SeenInv
<1>7. MatchInv'
  <2>1. InHand \in Range(seen)
    BY <1>0, InSeen DEF CallInv, SeenInv, CallTypeOK
  <2>2. \A q \in Rule, e \in Id : <<q, e>> # <<r, InHand>> => matched'[<<q, e>>] = matched[<<q, e>>]
    BY <1>2 DEF CallInv, CallTypeOK, Send
  <2>3. \A q \in Rule, e \in Id : matched'[<<q, e>>] = 1 => e <= cursor \/ e \in Range(seen)
    BY <2>1, <2>2 DEF CallInv, MatchInv
  <2>4. \A q \in DOMAIN call'.rules : matched'[<<q, InHand>>] = 0
    BY <1>0, <1>1, <1>3, <2>2 DEF CallInv, MatchInv
  <2> QED BY <1>0, <1>1, <1>3, <2>3, <2>4 DEF MatchInv
<1> QED BY <1>1, <1>2, <1>5, <1>6, <1>7 DEF CallInv

----------------------------------------------------------------------------
(* The sends. *)

LEMMA SendsFrame ==
  ASSUME SendsInv, UNCHANGED <<buffers, sendVars, matched, rules>>, flush # "none" => pc' = pc
  PROVE  SendsInv'
BY DEF SendsInv, SendsTypeOK, WordInv, HoldInv, CountInv, FlushInv, Version, sendVars

LEMMA CoversFinite == \A S \in SUBSET Id : IsFiniteSet(S) /\ Cardinality(S) \in Nat
<1>1. IsFiniteSet(Id)
  BY OutboxAssumption, FS_Interval DEF Id
<1> QED BY <1>1, FS_Subset, FS_CardinalityType

LEMMA SendsFinite == IsFiniteSet(Send) /\ \A S \in SUBSET Send : IsFiniteSet(S) /\ Cardinality(S) \in Nat
<1>1. IsFiniteSet(Id) /\ IsFiniteSet(Rule)
  BY OutboxAssumption, ListenerAssumption, FS_Interval DEF Id
<1>2. IsFiniteSet(Send)
  BY <1>1, FS_Product DEF Send
<1> QED BY <1>2, FS_Subset, FS_CardinalityType

\* Sends that are added to those under way.
LEMMA WithIs ==
  ASSUME SendsTypeOK, NEW D \in SUBSET Send, NEW new \in [D -> SendType],
         D \cap DOMAIN sends = {}, sends' = With(new)
  PROVE  /\ DOMAIN sends' = D \cup DOMAIN sends
         /\ \A k \in D : sends'[k] = new[k]
         /\ \A k \in DOMAIN sends : sends'[k] = sends[k]
         /\ DOMAIN sends' \subseteq Send /\ sends' \in [DOMAIN sends' -> SendType]
         /\ Cardinality(DOMAIN sends') = Cardinality(D) + Cardinality(DOMAIN sends)
<1>1. /\ DOMAIN new = D /\ DOMAIN sends' = D \cup DOMAIN sends
      /\ \A k \in D : sends'[k] = new[k]
      /\ \A k \in DOMAIN sends : sends'[k] = sends[k]
      /\ sends' = [k \in DOMAIN sends' |-> sends'[k]]
  BY DEF With
<1>2. DOMAIN sends' \subseteq Send /\ sends' \in [DOMAIN sends' -> SendType]
  BY <1>1 DEF SendsTypeOK
<1>3. Cardinality(D \cup DOMAIN sends) = Cardinality(D) + Cardinality(DOMAIN sends) - Cardinality({})
  BY SendsFinite, FS_Union DEF SendsTypeOK
<1>4. Cardinality(D \cup DOMAIN sends) = Cardinality(D) + Cardinality(DOMAIN sends)
  BY <1>3, FS_EmptySet, SendsFinite DEF SendsTypeOK
<1> QED BY <1>1, <1>2, <1>4

LEMMA NewSendIs ==
  ASSUME NEW ver \in Nat, NEW count \in Nat, NEW covers \in SUBSET Id, NEW bound \in BOOLEAN
  PROVE  /\ NewSend(ver, count, covers, bound) \in SendType
         /\ NewSend(ver, count, covers, bound).step = "start"
         /\ NewSend(ver, count, covers, bound).floor = 0
         /\ NewSend(ver, count, covers, bound).count = count
         /\ NewSend(ver, count, covers, bound).covers = covers
BY DEF NewSend, SendType

\* An open window holds its newest event, so no send under way does.
LEMMA OpenWindow ==
  ASSUME SendsInv, NEW r \in Rule, buffers[r].count > 0
  PROVE  /\ buffers[r].event \in buffers[r].covers /\ buffers[r].covers \in SUBSET Id
         /\ <<r, buffers[r].event>> \in Send /\ <<r, buffers[r].event>> \notin DOMAIN sends
         /\ buffers[r].ver \in Nat /\ buffers[r].count \in Nat
         /\ buffers[r].count = Cardinality(buffers[r].covers)
<1>1. /\ buffers[r] \in BufferType /\ buffers[r].event \in buffers[r].covers
      /\ buffers[r].count = Cardinality(buffers[r].covers)
  BY DEF SendsInv, SendsTypeOK, CountInv
<1>2. /\ buffers[r].covers \in SUBSET Id /\ buffers[r].ver \in Nat /\ buffers[r].count \in Nat
      /\ <<r, buffers[r].event>> \in Send
  BY <1>1 DEF BufferType, Send
<1>3. <<r, buffers[r].event>> \notin DOMAIN sends
  <2> SUFFICES ASSUME <<r, buffers[r].event>> \in DOMAIN sends PROVE FALSE
    OBVIOUS
  <2>1. buffers[r].event \in sends[<<r, buffers[r].event>>].covers
    BY DEF SendsInv, CountInv
  <2>2. buffers[r].event \notin buffers[r].covers
    BY <2>1 DEF SendsInv, HoldInv
  <2> QED BY <1>1, <2>2
<1> QED BY <1>1, <1>2, <1>3

\* A window with nothing in it holds nothing.
LEMMA EmptyWindow ==
  ASSUME SendsTypeOK, CountInv, NEW r \in Rule, ~ (buffers[r].count > 0)
  PROVE  buffers[r].count = 0 /\ buffers[r].covers = {}
BY CoversFinite, FS_EmptySet DEF SendsTypeOK, BufferType, CountInv

LEMMA NoBufferIs ==
  NoBuffer \in BufferType /\ NoBuffer.count = 0 /\ NoBuffer.covers = {} /\ Cardinality({}) = 0
BY FS_EmptySet DEF NoBuffer, BufferType

\* The windows of the rules in Q close: each becomes one send, which holds what the
\* window held.
LEMMA ClosingKeeps ==
  ASSUME SendsInv, NEW Q \in SUBSET {r \in Rule : buffers[r].count > 0}, NEW bound \in BOOLEAN,
         sends' = With([k \in {<<r, buffers[r].event>> : r \in Q} |->
                          NewSend(buffers[k[1]].ver, buffers[k[1]].count, buffers[k[1]].covers, bound)]),
         buffers' \in [Rule -> BufferType], \A r \in Q : buffers'[r] = NoBuffer,
         \A r \in Rule \ Q : /\ UNCHANGED <<buffers[r].covers, buffers[r].count>>
                             /\ buffers'[r].count > 0 => buffers'[r].event = buffers[r].event,
         inflight' = inflight + Cardinality({<<r, buffers[r].event>> : r \in Q}),
         UNCHANGED <<matched, spent, rules>>,
         flush' # "done", flush' \in {"none", "draining", "expired", "done"},
         flush' # "none" => pc' = "stopped" /\ \A r \in Rule : buffers'[r].count = 0
  PROVE  SendsInv'
<1> DEFINE open == {<<r, buffers[r].event>> : r \in Q}
           new == [k \in open |-> NewSend(buffers[k[1]].ver, buffers[k[1]].count, buffers[k[1]].covers, bound)]
<1>1. \A k \in open : /\ k[1] \in Q /\ k[1] \in Rule /\ k = <<k[1], buffers[k[1]].event>>
                      /\ buffers[k[1]].count > 0
  OBVIOUS
<1>2. \A k \in open : /\ k \in Send /\ k \notin DOMAIN sends /\ k[2] \in buffers[k[1]].covers
                      /\ buffers[k[1]].ver \in Nat /\ buffers[k[1]].count \in Nat
                      /\ buffers[k[1]].covers \in SUBSET Id
                      /\ buffers[k[1]].count = Cardinality(buffers[k[1]].covers)
  BY <1>1, OpenWindow
<1>3. \A k \in open : /\ new[k] \in SendType /\ new[k].step = "start" /\ new[k].floor = 0
                      /\ new[k].count = buffers[k[1]].count /\ new[k].covers = buffers[k[1]].covers
  BY <1>2, NewSendIs
<1>4. new \in [open -> SendType] /\ open \in SUBSET Send /\ open \cap DOMAIN sends = {}
  BY <1>2, <1>3
<1>5. \A r \in Q : <<r, buffers[r].event>> \in open
  OBVIOUS
<1>6. sends' = With(new) /\ inflight' = inflight + Cardinality(open)
  OBVIOUS
<1> HIDE DEF open, new
<1>7. /\ DOMAIN sends' = open \cup DOMAIN sends
      /\ \A k \in open : sends'[k] = new[k]
      /\ \A k \in DOMAIN sends : sends'[k] = sends[k]
      /\ DOMAIN sends' \subseteq Send /\ sends' \in [DOMAIN sends' -> SendType]
      /\ Cardinality(DOMAIN sends') = Cardinality(open) + Cardinality(DOMAIN sends)
  BY <1>4, <1>6, WithIs DEF SendsInv
<1>8. /\ \A r \in Q : buffers'[r] = NoBuffer
      /\ \A r \in Rule \ Q : /\ buffers'[r].covers = buffers[r].covers
                             /\ buffers'[r].count = buffers[r].count
                             /\ buffers'[r].count > 0 => buffers'[r].event = buffers[r].event
  OBVIOUS
<1>9. \A k \in open : sends'[k].covers = buffers[k[1]].covers /\ k[1] \in Q /\ k[1] \in Rule
  BY <1>1, <1>3, <1>7
<1>10. SendsTypeOK'
  <2>2. inflight' \in Nat
    BY <1>4, <1>6, SendsFinite DEF SendsInv, SendsTypeOK
  <2> QED BY <1>7, <2>2 DEF SendsInv, SendsTypeOK
<1>11. WordInv'
  <2> SUFFICES ASSUME NEW k \in DOMAIN sends'
               PROVE  /\ sends'[k].step = "start" => sends'[k].floor = 0
                      /\ sends'[k].floor > 0 =>
                           /\ sends'[k].floor <= sends'[k].ver
                           /\ sends'[k].ver <= Version(k[1]) /\ rules[k[1]][sends'[k].ver]
    BY DEF WordInv, Version
  <2>1. CASE k \in open
    <3>1. sends'[k].floor = 0 /\ ~ (0 > 0)
      BY <1>3, <1>7, <2>1
    <3> QED BY <3>1, Zenon
  <2>2. CASE k \in DOMAIN sends
    BY <1>7, <2>2 DEF SendsInv, WordInv
  <2> QED BY <1>7, <2>1, <2>2
<1>12. HoldInv'
  <2>1. \A r \in Rule : \A e \in buffers'[r].covers : r \notin Q /\ e \in buffers[r].covers
    BY <1>8, NoBufferIs
  <2>2. \A k \in DOMAIN sends' : \A e \in sends'[k].covers :
          matched[<<k[1], e>>] = 1 /\ spent[<<k[1], e>>] = 0 /\ e \notin buffers'[k[1]].covers
    <3> SUFFICES ASSUME NEW k \in DOMAIN sends', NEW e \in sends'[k].covers
                 PROVE  matched[<<k[1], e>>] = 1 /\ spent[<<k[1], e>>] = 0 /\ e \notin buffers'[k[1]].covers
      OBVIOUS
    <3>1. CASE k \in open
      BY <1>9, <2>1, <3>1 DEF SendsInv, HoldInv
    <3>2. CASE k \in DOMAIN sends
      <4>1. k[1] \in Rule
        BY <3>2 DEF SendsInv, SendsTypeOK, Send
      <4> QED BY <1>7, <2>1, <3>2, <4>1 DEF SendsInv, HoldInv
    <3> QED BY <1>7, <3>1, <3>2
  <2>3. \A j, k \in DOMAIN sends' : \A e \in sends'[j].covers \cap sends'[k].covers :
          j[1] = k[1] => j = k
    <3> SUFFICES ASSUME NEW j \in DOMAIN sends', NEW k \in DOMAIN sends',
                        NEW e \in sends'[j].covers \cap sends'[k].covers, j[1] = k[1]
                 PROVE  j = k
      OBVIOUS
    <3>1. CASE j \in open /\ k \in open
      BY <1>1, <3>1 DEF open
    <3>2. CASE j \in DOMAIN sends /\ k \in DOMAIN sends
      BY <1>7, <3>2 DEF SendsInv, HoldInv
    <3>3. CASE j \in open /\ k \in DOMAIN sends
      <4>1. e \in buffers[j[1]].covers /\ e \in sends[k].covers
        BY <1>7, <1>9, <3>3
      <4> QED BY <3>3, <4>1 DEF SendsInv, HoldInv
    <3>4. CASE j \in DOMAIN sends /\ k \in open
      <4>1. e \in buffers[k[1]].covers /\ e \in sends[j].covers
        BY <1>7, <1>9, <3>4
      <4> QED BY <3>4, <4>1 DEF SendsInv, HoldInv
    <3> QED BY <1>7, <3>1, <3>2, <3>3, <3>4
  <2>4. ASSUME NEW r \in Rule, NEW e \in Id, matched[<<r, e>>] = 1 /\ spent[<<r, e>>] = 0
        PROVE  e \in buffers'[r].covers \/ \E k \in DOMAIN sends' : k[1] = r /\ e \in sends'[k].covers
    <3>1. CASE e \in buffers[r].covers /\ r \in Q
      <4>1. <<r, buffers[r].event>> \in open /\ <<r, buffers[r].event>>[1] = r
        BY <1>5, <3>1
      <4> QED BY <1>7, <1>9, <3>1, <4>1
    <3>2. CASE e \in buffers[r].covers /\ r \notin Q
      BY <1>8, <3>2
    <3>3. CASE \E k \in DOMAIN sends : k[1] = r /\ e \in sends[k].covers
      BY <1>7, <3>3
    <3> QED BY <2>4, <3>1, <3>2, <3>3 DEF SendsInv, HoldInv
  <2>5. \A r \in Rule : \A e \in buffers'[r].covers : matched[<<r, e>>] = 1 /\ spent[<<r, e>>] = 0
    <3>1. \A r \in Rule : \A e \in buffers[r].covers : matched[<<r, e>>] = 1 /\ spent[<<r, e>>] = 0
      BY DEF SendsInv, HoldInv
    <3> QED BY ONLY <2>1, <3>1
  <2>6. \A k \in Send : spent[k] <= matched[k]
    BY DEF SendsInv, HoldInv
  <2>7. matched' = matched /\ spent' = spent
    OBVIOUS
  <2>8. /\ \A k \in Send : spent'[k] <= matched'[k]
        /\ \A r \in Rule : \A e \in buffers'[r].covers : matched'[<<r, e>>] = 1 /\ spent'[<<r, e>>] = 0
    BY <2>5, <2>6, <2>7
  <2>9. \A k \in DOMAIN sends' : \A e \in sends'[k].covers :
          matched'[<<k[1], e>>] = 1 /\ spent'[<<k[1], e>>] = 0 /\ e \notin buffers'[k[1]].covers
    BY ONLY <2>2, <2>7
  <2>10. \A r \in Rule, e \in Id : matched'[<<r, e>>] = 1 /\ spent'[<<r, e>>] = 0 =>
          e \in buffers'[r].covers \/ \E k \in DOMAIN sends' : k[1] = r /\ e \in sends'[k].covers
    BY ONLY <2>4, <2>7
  <2> QED BY <2>3, <2>8, <2>9, <2>10 DEF HoldInv
<1>13. CountInv'
  <2>1. \A r \in Rule : /\ buffers'[r].count = Cardinality(buffers'[r].covers)
                        /\ buffers'[r].count > 0 => buffers'[r].event \in buffers'[r].covers
    <3> SUFFICES ASSUME NEW r \in Rule
                 PROVE  /\ buffers'[r].count = Cardinality(buffers'[r].covers)
                        /\ buffers'[r].count > 0 => buffers'[r].event \in buffers'[r].covers
      OBVIOUS
    <3>1. CASE r \in Q
      <4>1. buffers'[r].count = 0 /\ buffers'[r].covers = {}
        BY <1>8, <3>1, NoBufferIs
      <4>2. ~ (0 > 0) /\ Cardinality({}) = 0
        BY NoBufferIs
      <4> QED BY <4>1, <4>2, Zenon
    <3>2. CASE r \notin Q
      BY <1>8, <3>2 DEF SendsInv, CountInv
    <3> QED BY <3>1, <3>2
  <2>2. \A k \in DOMAIN sends' :
          k[2] \in sends'[k].covers /\ sends'[k].count = Cardinality(sends'[k].covers)
    BY <1>2, <1>3, <1>7 DEF SendsInv, CountInv
  <2>3. inflight' = Cardinality(DOMAIN sends')
    BY <1>4, <1>6, <1>7, SendsFinite DEF SendsInv, SendsTypeOK, CountInv
  <2> QED BY <2>1, <2>2, <2>3 DEF CountInv
<1>14. FlushInv'
  BY DEF FlushInv
<1> QED BY <1>10, <1>11, <1>12, <1>13, <1>14 DEF SendsInv

LEMMA OneWindow ==
  ASSUME NEW r
  PROVE  /\ {<<q, buffers[q].event>> : q \in {r}} = {<<r, buffers[r].event>>}
         /\ Cardinality({<<q, buffers[q].event>> : q \in {r}}) = 1
         /\ [j \in {<<r, buffers[r].event>>} |->
               NewSend(buffers[r].ver, buffers[r].count, buffers[r].covers, FALSE)]
              = [k \in {<<q, buffers[q].event>> : q \in {r}} |->
                   NewSend(buffers[k[1]].ver, buffers[k[1]].count, buffers[k[1]].covers, FALSE)]
<1>1. {<<q, buffers[q].event>> : q \in {r}} = {<<r, buffers[r].event>>}
  OBVIOUS
<1>2. \A j \in {<<r, buffers[r].event>>} : j[1] = r
  OBVIOUS
<1> QED BY <1>1, <1>2, FS_Singleton

\* A rule's timer closes its window, and the flush closes every open one.
LEMMA TimerFiresKeeps == ASSUME SendsInv, NEW r \in Rule, TimerFires(r) PROVE SendsInv'
<1> DEFINE b == buffers[r]
           open == {<<q, buffers[q].event>> : q \in {r}}
<1>0. /\ b.count > 0 /\ buffers' = [buffers EXCEPT ![r] = NoBuffer]
      /\ sends' = With([j \in {<<r, b.event>>} |-> NewSend(b.ver, b.count, b.covers, FALSE)])
      /\ inflight' = inflight + 1 /\ UNCHANGED <<flush, spent, matched, rules>>
  BY DEF TimerFires, Dispatch, ruleVars
<1>1. /\ Cardinality(open) = 1
      /\ [j \in {<<r, b.event>>} |-> NewSend(b.ver, b.count, b.covers, FALSE)]
           = [k \in open |-> NewSend(buffers[k[1]].ver, buffers[k[1]].count, buffers[k[1]].covers, FALSE)]
  BY OneWindow
<1>3. {r} \in SUBSET {q \in Rule : buffers[q].count > 0}
  BY <1>0
<1>4. /\ buffers' \in [Rule -> BufferType] /\ \A q \in {r} : buffers'[q] = NoBuffer
      /\ \A q \in Rule \ {r} : buffers'[q] = buffers[q]
  BY <1>0, NoBufferIs DEF SendsInv, SendsTypeOK
<1>5. flush' = "none"
  <2>1. b.count # 0
    BY <1>0
  <2> QED BY <1>0, <2>1 DEF SendsInv, FlushInv
<1>6. /\ sends' = With([k \in open |->
                     NewSend(buffers[k[1]].ver, buffers[k[1]].count, buffers[k[1]].covers, FALSE)])
      /\ inflight' = inflight + Cardinality(open)
  BY <1>0, <1>1
<1> HIDE DEF b
<1> QED BY <1>0, <1>3, <1>4, <1>5, <1>6, ClosingKeeps

LEMMA FlushBeginKeeps == ASSUME SendsInv, FlushBegin PROVE SendsInv'
<1> DEFINE Q == {q \in Rule : buffers[q].count > 0}
           open == {<<r, buffers[r].event>> : r \in Q}
<1>0. /\ pc = "stopped" /\ pc' = "stopped" /\ flush' = "draining"
      /\ buffers' = [r \in Rule |-> NoBuffer] /\ UNCHANGED <<matched, spent, rules>>
      /\ inflight' = inflight + Cardinality(open)
  BY DEF FlushBegin, outboxVars, ruleVars
<1>1. sends' = With([k \in open |->
                  NewSend(buffers[k[1]].ver, buffers[k[1]].count, buffers[k[1]].covers, TRUE)])
  BY DEF FlushBegin
<1>2. /\ buffers' \in [Rule -> BufferType] /\ \A r \in Q : buffers'[r] = NoBuffer
      /\ \A r \in Rule : buffers'[r].count = 0 /\ buffers'[r].covers = {}
  BY <1>0, NoBufferIs
<1>3. \A r \in Rule \ Q : /\ buffers'[r].covers = buffers[r].covers
                          /\ buffers'[r].count = buffers[r].count
                          /\ ~ (buffers'[r].count > 0)
  <2> SUFFICES ASSUME NEW r \in Rule \ Q
               PROVE  /\ buffers'[r].covers = buffers[r].covers
                      /\ buffers'[r].count = buffers[r].count
                      /\ ~ (buffers'[r].count > 0)
    OBVIOUS
  <2>1. buffers[r].count = 0 /\ buffers[r].covers = {}
    BY EmptyWindow DEF SendsInv
  <2>2. buffers'[r].count = 0 /\ buffers'[r].covers = {}
    BY <1>2
  <2>3. ~ (0 > 0)
    OBVIOUS
  <2> QED BY <2>1, <2>2, <2>3, Zenon
<1> QED BY <1>0, <1>1, <1>2, <1>3, ClosingKeeps

----------------------------------------------------------------------------
\* An event that did not match is nowhere.
LEMMA NotHeld ==
  ASSUME SendsInv, CallTypeOK, NEW r \in Rule, NEW e \in Id, matched[<<r, e>>] = 0
  PROVE  /\ spent[<<r, e>>] = 0 /\ e \notin buffers[r].covers
         /\ \A k \in DOMAIN sends : k[1] = r => e \notin sends[k].covers
         /\ <<r, e>> \in Send /\ <<r, e>> \notin DOMAIN sends
<1>1. <<r, e>> \in Send /\ spent[<<r, e>>] \in 0..1 /\ spent[<<r, e>>] <= 0
  BY DEF SendsInv, SendsTypeOK, HoldInv, Send
<1>2. \A k \in DOMAIN sends : k[1] = r => e \notin sends[k].covers
  BY DEF SendsInv, HoldInv
<1>3. e \notin buffers[r].covers
  BY DEF SendsInv, HoldInv
<1>4. <<r, e>> \notin DOMAIN sends
  BY <1>2 DEF SendsInv, CountInv
<1> QED BY <1>1, <1>2, <1>3, <1>4

\* A match of a rule without a window is sent at once.
LEMMA DispatchKeeps ==
  ASSUME SendsInv, CallTypeOK, NEW r \in Rule, NEW e \in Id, NEW ver \in Nat,
         matched[<<r, e>>] = 0, matched' = [matched EXCEPT ![<<r, e>>] = 1],
         Dispatch(<<r, e>>, ver, 1, {e}), UNCHANGED <<buffers, rules>>, flush = "none"
  PROVE  SendsInv'
<1> DEFINE new == [j \in {<<r, e>>} |-> NewSend(ver, 1, {e}, FALSE)]
<1>0. sends' = With(new) /\ inflight' = inflight + 1 /\ UNCHANGED <<flush, spent>>
  BY DEF Dispatch
<1>1. /\ spent[<<r, e>>] = 0 /\ e \notin buffers[r].covers
      /\ \A k \in DOMAIN sends : k[1] = r => e \notin sends[k].covers
      /\ <<r, e>> \in Send /\ <<r, e>> \notin DOMAIN sends
  BY NotHeld
<1>2. /\ new \in [{<<r, e>>} -> SendType]
      /\ new[<<r, e>>].step = "start" /\ new[<<r, e>>].floor = 0
      /\ new[<<r, e>>].count = 1 /\ new[<<r, e>>].covers = {e}
  <2>1. 1 \in Nat /\ {e} \in SUBSET Id /\ FALSE \in BOOLEAN
    OBVIOUS
  <2>2. /\ NewSend(ver, 1, {e}, FALSE) \in SendType
        /\ NewSend(ver, 1, {e}, FALSE).step = "start" /\ NewSend(ver, 1, {e}, FALSE).floor = 0
        /\ NewSend(ver, 1, {e}, FALSE).count = 1 /\ NewSend(ver, 1, {e}, FALSE).covers = {e}
    BY <2>1 DEF NewSend, SendType
  <2> QED BY <2>2
<1> HIDE DEF new
<1>3. /\ DOMAIN sends' = {<<r, e>>} \cup DOMAIN sends
      /\ sends'[<<r, e>>] = new[<<r, e>>]
      /\ \A k \in DOMAIN sends : sends'[k] = sends[k]
      /\ DOMAIN sends' \subseteq Send /\ sends' \in [DOMAIN sends' -> SendType]
      /\ Cardinality(DOMAIN sends') = Cardinality({<<r, e>>}) + Cardinality(DOMAIN sends)
  <2>1. {<<r, e>>} \in SUBSET Send /\ {<<r, e>>} \cap DOMAIN sends = {} /\ SendsTypeOK
    BY <1>1 DEF SendsInv
  <2>2. \A k \in {<<r, e>>} : k = <<r, e>>
    OBVIOUS
  <2> QED BY <1>0, <1>2, <2>1, <2>2, WithIs
<1>4. \A q \in Rule, f \in Id : matched'[<<q, f>>] = IF q = r /\ f = e THEN 1 ELSE matched[<<q, f>>]
  BY DEF CallTypeOK, Send
<1>5. SendsTypeOK'
  BY <1>0, <1>3 DEF SendsInv, SendsTypeOK
<1>6. WordInv'
  <2>1. ~ (0 > 0)
    OBVIOUS
  <2> QED BY <1>2, <1>3, <2>1 DEF SendsInv, WordInv, Version
<1>7. HoldInv'
  <2>0. \A q \in Rule : \A f \in buffers[q].covers : f \in Id
    BY DEF SendsInv, SendsTypeOK, BufferType
  <2>a. \A k \in DOMAIN sends : k[1] \in Rule /\ \A f \in sends[k].covers : f \in Id
    BY DEF SendsInv, SendsTypeOK, SendType, Send
  <2>1. \A k \in Send : spent[k] <= matched'[k]
    <3> SUFFICES ASSUME NEW q \in Rule, NEW f \in Id PROVE spent[<<q, f>>] <= matched'[<<q, f>>]
      BY DEF Send
    <3>1. spent[<<q, f>>] <= matched[<<q, f>>]
      BY DEF SendsInv, HoldInv, Send
    <3> QED BY <1>1, <1>4, <3>1
  <2>2. \A q \in Rule : \A f \in buffers[q].covers : matched'[<<q, f>>] = 1 /\ spent[<<q, f>>] = 0
    <3>1. \A q \in Rule : \A f \in buffers[q].covers : matched[<<q, f>>] = 1 /\ spent[<<q, f>>] = 0
      BY DEF SendsInv, HoldInv
    <3> QED BY ONLY <1>4, <2>0, <3>1
  <2>3. \A k \in DOMAIN sends' : \A f \in sends'[k].covers :
          matched'[<<k[1], f>>] = 1 /\ spent[<<k[1], f>>] = 0 /\ f \notin buffers[k[1]].covers
    <3> SUFFICES ASSUME NEW k \in DOMAIN sends', NEW f \in sends'[k].covers
                 PROVE  matched'[<<k[1], f>>] = 1 /\ spent[<<k[1], f>>] = 0 /\ f \notin buffers[k[1]].covers
      OBVIOUS
    <3>1. CASE k = <<r, e>>
      BY <1>1, <1>2, <1>3, <1>4, <3>1
    <3>2. CASE k \in DOMAIN sends
      BY <1>3, <1>4, <2>a, <3>2 DEF SendsInv, HoldInv
    <3> QED BY <1>3, <3>1, <3>2
  <2>4. \A j, k \in DOMAIN sends' : \A f \in sends'[j].covers \cap sends'[k].covers :
          j[1] = k[1] => j = k
    <3> SUFFICES ASSUME NEW j \in DOMAIN sends', NEW k \in DOMAIN sends',
                        NEW f \in sends'[j].covers \cap sends'[k].covers, j[1] = k[1]
                 PROVE  j = k
      OBVIOUS
    <3>1. CASE j \in DOMAIN sends /\ k \in DOMAIN sends
      BY <1>3, <3>1 DEF SendsInv, HoldInv
    <3>2. CASE j = <<r, e>> /\ k \in DOMAIN sends
      BY <1>1, <1>2, <1>3, <3>2
    <3>3. CASE j \in DOMAIN sends /\ k = <<r, e>>
      BY <1>1, <1>2, <1>3, <3>3
    <3> QED BY <1>3, <3>1, <3>2, <3>3
  <2>5. ASSUME NEW q \in Rule, NEW f \in Id, matched'[<<q, f>>] = 1 /\ spent[<<q, f>>] = 0
        PROVE  f \in buffers[q].covers \/ \E k \in DOMAIN sends' : k[1] = q /\ f \in sends'[k].covers
    <3>1. CASE q = r /\ f = e
      <4>1. <<r, e>> \in DOMAIN sends' /\ <<r, e>>[1] = r /\ e \in sends'[<<r, e>>].covers
        BY <1>2, <1>3
      <4> QED BY <3>1, <4>1
    <3>2. CASE ~ (q = r /\ f = e)
      <4>1. f \in buffers[q].covers \/ \E k \in DOMAIN sends : k[1] = q /\ f \in sends[k].covers
        BY <1>4, <2>5, <3>2 DEF SendsInv, HoldInv
      <4> QED BY <1>3, <4>1
    <3> QED BY <3>1, <3>2
  <2> QED BY ONLY <2>1, <2>2, <2>3, <2>4, <2>5, <1>0, UNCHANGED buffers DEF HoldInv
<1>8. CountInv'
  <2>1. Cardinality({<<r, e>>}) = 1 /\ Cardinality({e}) = 1
    BY FS_Singleton
  <2>2. \A k \in DOMAIN sends' :
          k[2] \in sends'[k].covers /\ sends'[k].count = Cardinality(sends'[k].covers)
    <3>1. /\ <<r, e>>[2] \in sends'[<<r, e>>].covers
          /\ sends'[<<r, e>>].count = Cardinality(sends'[<<r, e>>].covers)
      BY <1>2, <1>3, <2>1
    <3>2. \A k \in DOMAIN sends :
            k[2] \in sends[k].covers /\ sends[k].count = Cardinality(sends[k].covers)
      BY DEF SendsInv, CountInv
    <3> QED BY ONLY <1>3, <3>1, <3>2
  <2>3. Cardinality(DOMAIN sends) \in Nat
    BY SendsFinite DEF SendsInv, SendsTypeOK
  <2> QED BY <1>0, <1>3, <2>1, <2>2, <2>3 DEF SendsInv, CountInv
<1>9. FlushInv'
  BY <1>0 DEF FlushInv
<1> QED BY <1>5, <1>6, <1>7, <1>8, <1>9 DEF SendsInv

\* A match of a rule with a window opens it or joins it.
LEMMA FoldKeeps ==
  ASSUME SendsInv, CallTypeOK, NEW r \in Rule, NEW e \in Id, NEW b \in BufferType,
         matched[<<r, e>>] = 0, matched' = [matched EXCEPT ![<<r, e>>] = 1],
         b.covers = buffers[r].covers, b.count = buffers[r].count,
         buffers' = [buffers EXCEPT ![r] = Fold(b, e)],
         UNCHANGED <<sendVars, rules>>, flush = "none"
  PROVE  SendsInv'
<1>0. UNCHANGED <<sends, inflight, flush, spent>>
  BY DEF sendVars
<1>1. /\ spent[<<r, e>>] = 0 /\ e \notin buffers[r].covers
      /\ \A k \in DOMAIN sends : k[1] = r => e \notin sends[k].covers
  BY NotHeld
<1>2. /\ Fold(b, e) \in BufferType /\ Fold(b, e).covers = buffers[r].covers \cup {e}
      /\ Fold(b, e).count = buffers[r].count + 1 /\ Fold(b, e).event = e
  <2>1. e \in Nat /\ b.count \in Nat /\ b.covers \in SUBSET Id /\ b.ver \in Nat
    BY OutboxAssumption DEF BufferType, Id
  <2>2. Fold(b, e).covers = b.covers \cup {e} /\ Fold(b, e).event = e /\ Fold(b, e).ver = b.ver
    BY DEF Fold, BufferType
  <2>3. Fold(b, e).count = b.count + 1
    BY DEF Fold, BufferType
  <2>4. Fold(b, e) \in BufferType
    <3>1. b.count + 1 \in Nat /\ b.covers \cup {e} \in SUBSET Id
      BY <2>1
    <3>2. DOMAIN Fold(b, e) = {"ver", "event", "count", "covers"} /\ Fold(b, e) = [f \in DOMAIN Fold(b, e) |-> Fold(b, e)[f]]
      BY DEF Fold, BufferType
    <3>3. Fold(b, e) = [ver |-> b.ver, event |-> e, count |-> b.count + 1, covers |-> b.covers \cup {e}]
      BY <2>2, <2>3, <3>2
    <3> QED BY <2>1, <3>1, <3>3 DEF BufferType
  <2> QED BY <2>2, <2>3, <2>4
<1>3. /\ buffers' \in [Rule -> BufferType] /\ buffers'[r] = Fold(b, e)
      /\ \A q \in Rule : q # r => buffers'[q] = buffers[q]
  BY <1>2 DEF SendsInv, SendsTypeOK
<1>4. \A q \in Rule, f \in Id : matched'[<<q, f>>] = IF q = r /\ f = e THEN 1 ELSE matched[<<q, f>>]
  BY DEF CallTypeOK, Send
<1>5. SendsTypeOK'
  BY <1>0, <1>3 DEF SendsInv, SendsTypeOK
<1>6. WordInv'
  BY <1>0 DEF SendsInv, WordInv, Version
<1>7. HoldInv'
  <2>0. \A q \in Rule : \A f \in buffers[q].covers : f \in Id
    BY DEF SendsInv, SendsTypeOK, BufferType
  <2>a. \A k \in DOMAIN sends : k[1] \in Rule /\ \A f \in sends[k].covers : f \in Id
    BY DEF SendsInv, SendsTypeOK, SendType, Send
  <2>1. \A k \in Send : spent[k] <= matched'[k]
    <3> SUFFICES ASSUME NEW q \in Rule, NEW f \in Id PROVE spent[<<q, f>>] <= matched'[<<q, f>>]
      BY DEF Send
    <3>1. spent[<<q, f>>] <= matched[<<q, f>>]
      BY DEF SendsInv, HoldInv, Send
    <3> QED BY <1>1, <1>4, <3>1
  <2>2. \A q \in Rule : \A f \in buffers'[q].covers : matched'[<<q, f>>] = 1 /\ spent[<<q, f>>] = 0
    <3> SUFFICES ASSUME NEW q \in Rule, NEW f \in buffers'[q].covers
                 PROVE  matched'[<<q, f>>] = 1 /\ spent[<<q, f>>] = 0
      OBVIOUS
    <3>1. CASE q = r /\ f = e
      BY <1>1, <1>4, <3>1
    <3>2. CASE ~ (q = r /\ f = e)
      <4>1. f \in buffers[q].covers /\ f \in Id
        BY <1>2, <1>3, <2>0, <3>2
      <4> QED BY <1>4, <3>2, <4>1 DEF SendsInv, HoldInv
    <3> QED BY <3>1, <3>2
  <2>3. \A k \in DOMAIN sends : \A f \in sends[k].covers :
          matched'[<<k[1], f>>] = 1 /\ spent[<<k[1], f>>] = 0 /\ f \notin buffers'[k[1]].covers
    <3> SUFFICES ASSUME NEW k \in DOMAIN sends, NEW f \in sends[k].covers
                 PROVE  matched'[<<k[1], f>>] = 1 /\ spent[<<k[1], f>>] = 0 /\ f \notin buffers'[k[1]].covers
      OBVIOUS
    <3>1. /\ matched[<<k[1], f>>] = 1 /\ spent[<<k[1], f>>] = 0 /\ f \notin buffers[k[1]].covers
          /\ k[1] \in Rule /\ f \in Id
      BY <2>a DEF SendsInv, HoldInv
    <3>2. ~ (k[1] = r /\ f = e)
      BY <1>1
    <3> QED BY <1>2, <1>3, <1>4, <3>1, <3>2
  <2>4. \A j, k \in DOMAIN sends : \A f \in sends[j].covers \cap sends[k].covers :
          j[1] = k[1] => j = k
    BY DEF SendsInv, HoldInv
  <2>5. ASSUME NEW q \in Rule, NEW f \in Id, matched'[<<q, f>>] = 1 /\ spent[<<q, f>>] = 0
        PROVE  f \in buffers'[q].covers \/ \E k \in DOMAIN sends : k[1] = q /\ f \in sends[k].covers
    <3>1. CASE q = r /\ f = e
      BY <1>2, <1>3, <3>1
    <3>2. CASE ~ (q = r /\ f = e)
      <4>1. f \in buffers[q].covers \/ \E k \in DOMAIN sends : k[1] = q /\ f \in sends[k].covers
        BY <1>4, <2>5, <3>2 DEF SendsInv, HoldInv
      <4> QED BY <1>2, <1>3, <4>1
    <3> QED BY <3>1, <3>2
  <2> QED BY ONLY <2>1, <2>2, <2>3, <2>4, <2>5, <1>0 DEF HoldInv
<1>8. CountInv'
  <2>1. Cardinality(buffers[r].covers \cup {e}) = Cardinality(buffers[r].covers) + 1
    BY <1>1, CoversFinite, FS_AddElement DEF SendsInv, SendsTypeOK, BufferType
  <2>2. \A q \in Rule : /\ buffers'[q].count = Cardinality(buffers'[q].covers)
                        /\ buffers'[q].count > 0 => buffers'[q].event \in buffers'[q].covers
    BY <1>2, <1>3, <2>1 DEF SendsInv, CountInv
  <2> QED BY <1>0, <2>2 DEF SendsInv, CountInv
<1>9. FlushInv'
  BY <1>0 DEF FlushInv
<1> QED BY <1>5, <1>6, <1>7, <1>8, <1>9 DEF SendsInv

LEMMA HandleMatchKeeps ==
  ASSUME IInv, CallInv, SendsInv, NEW r \in Rule, HandleMatch(r) PROVE SendsInv'
<1>1. /\ InHand \in Id /\ matched[<<r, InHand>>] = 0
      /\ matched' = [matched EXCEPT ![<<r, InHand>>] = 1]
  BY HandleMatchKeepsCall
<1>2. flush = "none" /\ call.rules[r] \in Nat /\ UNCHANGED rules
  <2>1. call.rules \in RuleSet /\ r \in DOMAIN call.rules /\ pc = "handing"
    BY DEF HandleMatch, CallInv, CallTypeOK, SeenInv
  <2> QED BY <2>1, RuleSetIs DEF HandleMatch, SendsInv, FlushInv, ruleVars
<1>3. CASE r \notin Windowed
  BY <1>1, <1>2, <1>3, DispatchKeeps DEF HandleMatch, CallInv
<1>4. CASE r \in Windowed
  <2> DEFINE open == [NoBuffer EXCEPT !.ver = call.rules[r]]
  <2>1. CASE buffers[r].count > 0
    <3>1. buffers[r] \in BufferType
      BY DEF SendsInv, SendsTypeOK
    <3>2. buffers' = [buffers EXCEPT ![r] = Fold(buffers[r], InHand)] /\ UNCHANGED sendVars
      BY <1>4, <2>1 DEF HandleMatch
    <3> QED BY <1>1, <1>2, <3>1, <3>2, FoldKeeps DEF CallInv
  <2>2. CASE ~ (buffers[r].count > 0)
    <3>1. open \in BufferType /\ open.covers = {} /\ open.count = 0
      BY <1>2 DEF NoBuffer, BufferType
    <3>2. buffers[r].covers = {} /\ buffers[r].count = 0
      BY <2>2, EmptyWindow DEF SendsInv
    <3>3. buffers' = [buffers EXCEPT ![r] = Fold(open, InHand)] /\ UNCHANGED sendVars
      BY <1>4, <2>2 DEF HandleMatch
    <3> HIDE DEF open
    <3> QED BY <1>1, <1>2, <3>1, <3>2, <3>3, FoldKeeps DEF CallInv
  <2> QED BY <2>1, <2>2
<1> QED BY <1>3, <1>4

----------------------------------------------------------------------------
\* A send that ends spends the matches it covers.
LEMMA EndSendKeeps ==
  ASSUME SendsInv, NEW k \in DOMAIN sends, EndSend(k), UNCHANGED <<buffers, matched, rules, pc>>
  PROVE  SendsInv'
<1>0. /\ k \in Send /\ k[1] \in Rule /\ DOMAIN sends \subseteq Send /\ flush' = flush
      /\ sends' = [j \in DOMAIN sends \ {k} |-> sends[j]] /\ inflight' = inflight - 1
  BY DEF EndSend, SendsInv, SendsTypeOK, Send
<1>1. /\ DOMAIN sends' = DOMAIN sends \ {k} /\ sends' \in [DOMAIN sends' -> SendType]
      /\ \A j \in DOMAIN sends' : j \in DOMAIN sends /\ sends'[j] = sends[j]
      /\ DOMAIN sends' \subseteq Send
  BY <1>0 DEF SendsInv, SendsTypeOK
<1>2. \A e \in sends[k].covers : matched[<<k[1], e>>] = 1 /\ spent[<<k[1], e>>] = 0 /\ e \in Id
  BY DEF SendsInv, SendsTypeOK, SendType, HoldInv
<1>3. \A j \in Send : /\ j[1] = k[1] /\ j[2] \in sends[k].covers => spent'[j] = 1 /\ matched[j] = 1
                      /\ ~ (j[1] = k[1] /\ j[2] \in sends[k].covers) => spent'[j] = spent[j]
  <2> SUFFICES ASSUME NEW j \in Send
               PROVE  /\ j[1] = k[1] /\ j[2] \in sends[k].covers => spent'[j] = 1 /\ matched[j] = 1
                      /\ ~ (j[1] = k[1] /\ j[2] \in sends[k].covers) => spent'[j] = spent[j]
    OBVIOUS
  <2>1. j = <<j[1], j[2]>>
    BY DEF Send
  <2>2. spent'[j] = IF j[1] = k[1] /\ j[2] \in sends[k].covers THEN spent[j] + 1 ELSE spent[j]
    BY DEF EndSend
  <2> QED BY <1>2, <2>1, <2>2
<1>4. spent' \in [Send -> 0..1] /\ \A j \in Send : spent'[j] <= matched[j]
  <2>1. DOMAIN spent' = Send /\ spent' = [j \in Send |-> spent'[j]]
    BY DEF EndSend
  <2>2. \A j \in Send : spent[j] \in 0..1 /\ spent[j] <= matched[j]
    BY DEF SendsInv, SendsTypeOK, HoldInv
  <2>3. \A j \in Send : spent'[j] \in 0..1 /\ spent'[j] <= matched[j]
    BY <1>3, <2>2
  <2> QED BY <2>1, <2>3
<1>5. Cardinality(DOMAIN sends') = Cardinality(DOMAIN sends) - 1
  BY <1>0, <1>1, SendsFinite, FS_RemoveElement
<1>6. inflight' = Cardinality(DOMAIN sends') /\ inflight' \in Nat
  BY <1>0, <1>1, <1>5, SendsFinite DEF SendsInv, CountInv
<1>7. SendsTypeOK'
  BY <1>0, <1>1, <1>4, <1>6 DEF SendsInv, SendsTypeOK
<1>8. WordInv'
  BY <1>1 DEF SendsInv, WordInv, Version
<1>9. HoldInv'
  <2>1. \A r \in Rule : \A e \in buffers[r].covers : matched[<<r, e>>] = 1 /\ spent'[<<r, e>>] = 0
    <3> SUFFICES ASSUME NEW r \in Rule, NEW e \in buffers[r].covers
                 PROVE  matched[<<r, e>>] = 1 /\ spent'[<<r, e>>] = 0
      OBVIOUS
    <3>1. matched[<<r, e>>] = 1 /\ spent[<<r, e>>] = 0 /\ <<r, e>> \in Send
      BY DEF SendsInv, HoldInv, SendsTypeOK, BufferType, Send
    <3>2. ~ (r = k[1] /\ e \in sends[k].covers)
      BY DEF SendsInv, HoldInv
    <3> QED BY <1>3, <3>1, <3>2
  <2>2. \A j \in DOMAIN sends' : \A e \in sends'[j].covers :
          matched[<<j[1], e>>] = 1 /\ spent'[<<j[1], e>>] = 0 /\ e \notin buffers[j[1]].covers
    <3> SUFFICES ASSUME NEW j \in DOMAIN sends', NEW e \in sends'[j].covers
                 PROVE  matched[<<j[1], e>>] = 1 /\ spent'[<<j[1], e>>] = 0 /\ e \notin buffers[j[1]].covers
      OBVIOUS
    <3>1. j \in DOMAIN sends /\ e \in sends[j].covers /\ j # k
      BY <1>1
    <3>2. /\ matched[<<j[1], e>>] = 1 /\ spent[<<j[1], e>>] = 0 /\ e \notin buffers[j[1]].covers
          /\ <<j[1], e>> \in Send
      BY <3>1 DEF SendsInv, HoldInv, SendsTypeOK, SendType, Send
    <3>3. ~ (j[1] = k[1] /\ e \in sends[k].covers)
      BY <3>1 DEF SendsInv, HoldInv
    <3> QED BY <1>3, <3>2, <3>3
  <2>3. \A i, j \in DOMAIN sends' : \A e \in sends'[i].covers \cap sends'[j].covers :
          i[1] = j[1] => i = j
    BY <1>1 DEF SendsInv, HoldInv
  <2>4. ASSUME NEW r \in Rule, NEW e \in Id, matched[<<r, e>>] = 1 /\ spent'[<<r, e>>] = 0
        PROVE  e \in buffers[r].covers \/ \E j \in DOMAIN sends' : j[1] = r /\ e \in sends'[j].covers
    <3>1. <<r, e>> \in Send /\ ~ (r = k[1] /\ e \in sends[k].covers) /\ spent[<<r, e>>] = 0
      BY <1>3, <2>4 DEF Send
    <3>2. e \in buffers[r].covers \/ \E j \in DOMAIN sends : j[1] = r /\ e \in sends[j].covers
      BY <2>4, <3>1 DEF SendsInv, HoldInv
    <3>3. \A j \in DOMAIN sends : j[1] = r /\ e \in sends[j].covers => j \in DOMAIN sends' /\ sends'[j] = sends[j]
      BY <1>1, <3>1
    <3> QED BY <3>2, <3>3
  <2> QED BY ONLY <1>4, <2>1, <2>2, <2>3, <2>4, UNCHANGED <<matched, buffers>> DEF HoldInv
<1>10. CountInv'
  BY <1>1, <1>6 DEF SendsInv, CountInv
<1>11. FlushInv'
  BY <1>0, <1>1 DEF SendsInv, FlushInv
<1> QED BY <1>7, <1>8, <1>9, <1>10, <1>11 DEF SendsInv

\* A send that knows its rule goes on with what it covers.
LEMMA SendAdvances ==
  ASSUME SendsInv, NEW k \in DOMAIN sends, NEW s \in SendType, sends' = [sends EXCEPT ![k] = s],
         s.covers = sends[k].covers, s.count = sends[k].count, s.step = "sending",
         s.floor > 0 => s.floor <= s.ver /\ s.ver <= Version(k[1]) /\ rules[k[1]][s.ver],
         UNCHANGED <<inflight, flush, spent, buffers, matched, rules, pc>>
  PROVE  SendsInv'
<1>1. /\ DOMAIN sends' = DOMAIN sends /\ sends' \in [DOMAIN sends -> SendType]
      /\ sends'[k] = s /\ \A j \in DOMAIN sends : j # k => sends'[j] = sends[j]
  BY DEF SendsInv, SendsTypeOK
<1>2. \A j \in DOMAIN sends : sends'[j].covers = sends[j].covers /\ sends'[j].count = sends[j].count
  BY <1>1
<1>3. SendsTypeOK'
  BY <1>1 DEF SendsInv, SendsTypeOK
<1>4. WordInv'
  BY <1>1 DEF SendsInv, WordInv, Version
<1>5. HoldInv'
  BY <1>1, <1>2 DEF SendsInv, HoldInv
<1>6. CountInv'
  BY <1>1, <1>2 DEF SendsInv, CountInv
<1>7. FlushInv'
  BY <1>1 DEF SendsInv, FlushInv
<1> QED BY <1>3, <1>4, <1>5, <1>6, <1>7 DEF SendsInv

\* A send resolves its rule: in a version that was settled when it asked.
LEMMA ResolveRuleKeeps ==
  ASSUME RulesInv, SendsInv, NEW k \in Send, ResolveRule(k) PROVE RulesInv' /\ SendsInv'
<1>0. /\ k \in DOMAIN sends /\ sends[k].step = "start" /\ k[1] \in Rule /\ k \in Reader
      /\ sends[k] \in SendType /\ sends[k].floor = 0
      /\ UNCHANGED <<rules, settled, editing, pc, buffers, matched>>
  BY DEF ResolveRule, SendsInv, SendsTypeOK, WordInv, Send, Reader, ruleVars, outboxVars, matchVars
<1>1. UNCHANGED ruleVars
  BY <1>0 DEF ruleVars
<1>2. ASSUME NEW R, Obtains(k, R), k[1] \in DOMAIN R,
             sends' = [sends EXCEPT ![k].step = "sending", ![k].ver = R[k[1]],
                                    ![k].floor = Floor(k)[k[1]]],
             UNCHANGED <<inflight, flush, spent>>
      PROVE  RulesInv' /\ SendsInv'
  <2> DEFINE s == [sends[k] EXCEPT !.step = "sending", !.ver = R[k[1]], !.floor = Floor(k)[k[1]]]
  <2>1. /\ R \in RuleSet /\ ShowsSince(rules, R, Floor(k)) /\ Floor(k) \in [Rule -> Nat]
        /\ R[k[1]] \in Nat
    BY <1>0, <1>2, ObtainedIsNew, RuleSetIs
  <2>2. PICK v \in Floor(k)[k[1]]..Version(k[1]) : rules[k[1]][v] /\ R[k[1]] = v
    BY <1>0, <1>2, <2>1 DEF ShowsSince, Version
  <2>3. /\ s \in SendType /\ s.covers = sends[k].covers /\ s.count = sends[k].count
        /\ s.step = "sending" /\ s.ver = R[k[1]] /\ s.floor = Floor(k)[k[1]]
    BY <1>0, <2>1 DEF SendType
  <2>4. sends' = [sends EXCEPT ![k] = s]
    BY <1>0, <1>2 DEF SendsInv, SendsTypeOK
  <2> HIDE DEF s
  <2>5. s.floor <= s.ver /\ s.ver <= Version(k[1]) /\ rules[k[1]][s.ver]
    BY <2>2, <2>3
  <2>6. SendsInv'
    BY <1>0, <1>2, <2>3, <2>4, <2>5, SendAdvances
  <2> QED BY <1>0, <1>1, <1>2, <2>6, ObtainsKeeps
<1>3. ASSUME NEW R, Obtains(k, R), EndSend(k) PROVE RulesInv' /\ SendsInv'
  BY <1>0, <1>1, <1>3, ObtainsKeeps, EndSendKeeps
<1>4. ASSUME Misses(k), sends' = [sends EXCEPT ![k].step = "sending"], UNCHANGED <<inflight, flush, spent>>
      PROVE  RulesInv' /\ SendsInv'
  <2> DEFINE s == [sends[k] EXCEPT !.step = "sending"]
  <2>1. /\ s \in SendType /\ s.covers = sends[k].covers /\ s.count = sends[k].count
        /\ s.step = "sending" /\ s.floor = 0
    BY <1>0 DEF SendType
  <2>2. sends' = [sends EXCEPT ![k] = s]
    BY <1>0, <1>4 DEF SendsInv, SendsTypeOK
  <2>3. ~ (s.floor > 0)
    BY <2>1
  <2> HIDE DEF s
  <2>4. SendsInv'
    BY <1>0, <1>4, <2>1, <2>2, <2>3, SendAdvances
  <2> QED BY <1>0, <1>1, <1>4, <2>4, MissesKeeps
<1> QED BY <1>2, <1>3, <1>4 DEF ResolveRule

\* An edit appends a version, and changes none that is being sent.
LEMMA EditRuleKeepsSends ==
  ASSUME RulesInv, SendsInv, NEW q \in Rule, EditRule(q) PROVE SendsInv'
<1>1. /\ \A r \in Rule : \A v \in 1..Version(r) : rules'[r][v] = rules[r][v]
      /\ \A r \in Rule : Version(r) <= Version(r)' /\ Version(r) \in Nat /\ Version(r)' \in Nat
  <2>1. rules \in [Rule -> Seq(BOOLEAN)] /\ rules' \in [Rule -> Seq(BOOLEAN)]
    BY EditRuleKeeps DEF RulesInv, RulesTypeOK
  <2>2. \A r \in Rule : Version(r) \in Nat /\ Version(r)' \in Nat
    BY <2>1 DEF Version
  <2> QED BY <2>2, EditRuleKeeps
<1>2. UNCHANGED <<pc, buffers, sends, inflight, flush, spent, matched>>
  BY DEF EditRule, outboxVars, matchVars, sendVars
<1>3. WordInv'
  <2> SUFFICES ASSUME NEW k \in DOMAIN sends, sends[k].floor > 0
               PROVE  /\ sends[k].floor <= sends[k].ver
                      /\ sends[k].ver <= Version(k[1])' /\ rules'[k[1]][sends[k].ver]
    BY <1>2 DEF SendsInv, WordInv
  <2>1. /\ k[1] \in Rule /\ sends[k].ver \in Nat /\ sends[k].floor \in Nat
        /\ sends[k].floor <= sends[k].ver /\ sends[k].ver <= Version(k[1]) /\ rules[k[1]][sends[k].ver]
    BY DEF SendsInv, SendsTypeOK, SendType, Send, WordInv
  <2>2. sends[k].ver \in 1..Version(k[1])
    BY <1>1, <2>1
  <2> QED BY <1>1, <2>1, <2>2
<1>4. SendsTypeOK' /\ HoldInv' /\ CountInv' /\ FlushInv'
  BY <1>2 DEF SendsInv, SendsTypeOK, HoldInv, CountInv, FlushInv
<1> QED BY <1>3, <1>4 DEF SendsInv

\* A new process has nothing in its windows and no send under way.
LEMMA ResetSends ==
  ASSUME buffers' = [r \in Rule |-> NoBuffer], sends' = NoSends, inflight' = 0, flush' = "none",
         matched' = [k \in Send |-> 0], spent' = [k \in Send |-> 0]
  PROVE  SendsInv'
<1>1. DOMAIN sends' = {}
  BY DEF NoSends
<1>2. \A r \in Rule : buffers'[r].count = 0 /\ buffers'[r].covers = {}
  BY NoBufferIs
<1>3. SendsTypeOK'
  BY <1>1, NoBufferIs DEF SendsTypeOK, NoSends
<1>4. WordInv' /\ FlushInv'
  BY <1>1 DEF WordInv, FlushInv
<1>5. HoldInv'
  <2>1. \A r \in Rule, e \in Id : matched'[<<r, e>>] # 1
    BY DEF Send
  <2> QED BY <1>1, <1>2, <2>1 DEF HoldInv
<1>6. CountInv'
  <2>1. ~ (0 > 0)
    OBVIOUS
  <2> QED BY <1>1, <1>2, <2>1, NoBufferIs DEF CountInv
<1> QED BY <1>3, <1>4, <1>5, <1>6 DEF SendsInv

LEMMA ResetCall ==
  ASSUME call' = NoCall, seen' = <<>>, matched' = [k \in Send |-> 0] PROVE CallInv'
<1>1. CallTypeOK' /\ call'.step = "none" /\ Len(seen') = 0
  BY RuleSetIs DEF CallTypeOK, NoCall
<1>2. SeenInv'
  BY <1>1, ListenerAssumption DEF SeenInv
<1>3. \A r \in Rule, e \in Id : matched'[<<r, e>>] # 1
  BY DEF Send
<1> QED BY <1>1, <1>2, <1>3 DEF CallInv, MatchInv

----------------------------------------------------------------------------
(* The listener's invariant. *)

LEMMA ListenerInitOK == Init => ListenerInv
<1> SUFFICES ASSUME Init PROVE ListenerInv
  OBVIOUS
<1>1. IInv
  BY InitIsOutbox, InitOK
<1>2. RulesInv
  <2>1. NoRules \in RuleSet /\ NoLoad \in LoadType /\ NoLoad.step = "none"
    BY RuleSetIs DEF NoLoad, LoadType, NoRules
  <2>2. /\ rules \in [Rule -> Seq(BOOLEAN)] /\ \A r \in Rule : Version(r) = 1
        /\ cache \in [loaded : BOOLEAN, rules : RuleSet, gen : Nat] /\ ~cache.loaded
    <3>0. /\ <<TRUE>> \in Seq(BOOLEAN) /\ Len(<<TRUE>>) = 1
          /\ <<FALSE>> \in Seq(BOOLEAN) /\ Len(<<FALSE>>) = 1
      OBVIOUS
    <3>1. \A s \in {<<TRUE>>, <<FALSE>>} : s \in Seq(BOOLEAN) /\ Len(s) = 1
      BY <3>0, Zenon
    <3>2. rules \in [Rule -> Seq(BOOLEAN)] /\ \A r \in Rule : Version(r) = 1
      BY <3>1 DEF Init, Version
    <3>3. cache \in [loaded : BOOLEAN, rules : RuleSet, gen : Nat] /\ ~cache.loaded
      BY <2>1 DEF Init, Unloaded
    <3> QED BY <3>2, <3>3
  <2>3. RulesTypeOK
    BY <2>1, <2>2 DEF Init, RulesTypeOK
  <2>4. LoadInv
    BY <2>1, <2>2 DEF Init, LoadInv
  <2> QED BY <2>3, <2>4 DEF RulesInv
<1>3. CallInv
  <2>1. CallTypeOK /\ call.step = "none" /\ Len(seen) = 0
    BY RuleSetIs DEF Init, CallTypeOK, NoCall
  <2>2. SeenInv
    BY <2>1, ListenerAssumption DEF SeenInv
  <2>3. \A r \in Rule, e \in Id : matched[<<r, e>>] # 1
    BY DEF Init, Send
  <2> QED BY <2>1, <2>2, <2>3 DEF CallInv, MatchInv
<1>4. SendsInv
  <2>1. DOMAIN sends = {}
    BY DEF Init, NoSends
  <2>2. \A r \in Rule : buffers[r].count = 0 /\ buffers[r].covers = {}
    BY NoBufferIs DEF Init
  <2>3. SendsTypeOK
    BY <2>1, NoBufferIs DEF Init, SendsTypeOK, NoSends
  <2>4. WordInv /\ FlushInv
    BY <2>1 DEF Init, WordInv, FlushInv
  <2>5. HoldInv
    <3>1. \A r \in Rule, e \in Id : matched[<<r, e>>] # 1
      BY DEF Init, Send
    <3>2. \A k \in Send : spent[k] <= matched[k]
      BY DEF Init
    <3> QED BY <2>1, <2>2, <3>1, <3>2 DEF HoldInv
  <2>6. CountInv
    <3>1. ~ (0 > 0) /\ inflight = 0
      BY DEF Init
    <3> QED BY <2>1, <2>2, <3>1, NoBufferIs DEF CountInv
  <2> QED BY <2>3, <2>4, <2>5, <2>6 DEF SendsInv
<1> QED BY <1>1, <1>2, <1>3, <1>4 DEF ListenerInv

\* Steps of the outbox, and of the process.
LEMMA OutboxKeeps == ASSUME ListenerInv, Outbox PROVE RulesInv' /\ CallInv' /\ SendsInv'
<1>1. UNCHANGED listenerVars
  BY DEF Outbox
<1>2. RulesInv'
  BY <1>1, RulesFrame DEF ListenerInv, listenerVars
<1>3. CallInv'
  BY OutboxKeepsCall DEF ListenerInv
<1>4. SendsInv'
  <2>1. pc = "stopped" => pc' = pc
    BY DEF Outbox, Writing, Tailing, Begin, Record, Commit, Rollback, Wake, Stop, LoadCursor,
           Query, ScanFails, Save, SaveFails, Cancel, Restart
  <2>2. flush # "none" => pc' = pc
    BY <2>1 DEF ListenerInv, SendsInv, FlushInv
  <2> QED BY <1>1, <2>2, SendsFrame DEF ListenerInv, listenerVars, matchVars, ruleVars
<1> QED BY <1>2, <1>3, <1>4

LEMMA HaltingKeeps == ASSUME ListenerInv, Halting PROVE RulesInv' /\ CallInv' /\ SendsInv'
<1>1. RulesInv'
  <2>1. \A r \in Rule : Version(r) > 0
    BY DEF ListenerInv, RulesInv, LoadInv, RulesTypeOK, Version
  <2> QED BY <2>1, ResetRules DEF Halting, Reset, ListenerInv, RulesInv
<1>2. CallInv'
  BY ResetCall DEF Halting, Reset
<1>3. SendsInv'
  BY ResetSends DEF Halting, Reset
<1> QED BY <1>1, <1>2, <1>3

LEMMA ReadingKeeps == ASSUME ListenerInv, Reading PROVE RulesInv' /\ CallInv' /\ SendsInv'
<1>1. /\ UNCHANGED <<outboxVars, ruleVars, matchVars, sendVars>>
  BY DEF Reading, Stamp, ReadRules
<1>2. RulesInv'
  BY StampKeeps, ReadRulesKeeps DEF Reading, ListenerInv
<1>3. CallInv'
  BY <1>1, CallFrame DEF ListenerInv, outboxVars, scanVars, matchVars
<1>4. SendsInv'
  BY <1>1, SendsFrame DEF ListenerInv, outboxVars, matchVars, ruleVars
<1> QED BY <1>2, <1>3, <1>4

\* Steps of a call other than a match leave the sends alone.
LEMMA CallStepKeepsSends ==
  ASSUME ListenerInv, Ask \/ See \/ Evaluate \/ Unevaluated \/ Matched PROVE SendsInv'
<1>1. UNCHANGED <<ruleVars, buffers, matched, sendVars>>
  BY DEF Ask, See, Evaluate, Unevaluated, Matched
<1>2. pc = "handing"
  BY DEF Ask, See, Evaluate, Unevaluated, Matched, ListenerInv, CallInv, SeenInv
<1>3. flush = "none"
  BY <1>2 DEF ListenerInv, SendsInv, FlushInv
<1> QED BY <1>1, <1>3, SendsFrame DEF ListenerInv, ruleVars

LEMMA CallingKeeps == ASSUME ListenerInv, Calling PROVE RulesInv' /\ CallInv' /\ SendsInv'
<1>0. Tailer \in Reader
  BY DEF Reader
<1>1. CASE Ask
  <2>1. UNCHANGED ruleVars /\ (Misses(Tailer) \/ \E R \in Obtainable : Obtains(Tailer, R))
    BY <1>1 DEF Ask
  <2> QED BY <1>0, <1>1, <2>1, MissesKeeps, ObtainsKeeps, AskKeeps, CallStepKeepsSends
             DEF ListenerInv
<1>2. CASE See
  <2>1. UNCHANGED <<ruleVars, cache, load>>
    BY <1>2 DEF See
  <2> QED BY <1>2, <2>1, RulesFrame, SeeKeeps, CallStepKeepsSends DEF ListenerInv
<1>3. CASE Evaluate
  <2>1. UNCHANGED ruleVars /\ \E R \in Obtainable : Obtains(Tailer, R)
    BY <1>3 DEF Evaluate
  <2> QED BY <1>0, <1>3, <2>1, ObtainsKeeps, EvaluateKeeps, CallStepKeepsSends DEF ListenerInv
<1>4. CASE Unevaluated
  <2>1. UNCHANGED ruleVars /\ Misses(Tailer)
    BY <1>4 DEF Unevaluated
  <2> QED BY <1>0, <1>4, <2>1, MissesKeeps, UnevaluatedKeeps, CallStepKeepsSends DEF ListenerInv
<1>5. CASE Matched
  <2>1. UNCHANGED <<ruleVars, cache, load, seen, matched>> /\ Return
    BY <1>5 DEF Matched
  <2> QED BY <1>5, <2>1, RulesFrame, ReturnKeeps, CallStepKeepsSends DEF ListenerInv
<1>6. ASSUME NEW r \in Rule, HandleMatch(r) PROVE RulesInv' /\ CallInv' /\ SendsInv'
  <2>1. UNCHANGED <<ruleVars, cache, load>>
    BY <1>6 DEF HandleMatch
  <2> QED BY <1>6, <2>1, RulesFrame, HandleMatchKeepsCall, HandleMatchKeeps DEF ListenerInv
<1> QED BY <1>1, <1>2, <1>3, <1>4, <1>5, <1>6 DEF Calling

LEMMA SendingKeeps == ASSUME ListenerInv, Sending PROVE RulesInv' /\ CallInv' /\ SendsInv'
<1>1. UNCHANGED <<call, seen, matched, table, cursor, pc, batch, ruleVars>>
  BY DEF Sending, ResolveRule, Push, TimerFires, outboxVars, scanVars, matchVars
<1>2. CallInv'
  BY <1>1, CallFrame DEF ListenerInv
<1>3. ASSUME NEW k \in Send, ResolveRule(k) PROVE RulesInv' /\ SendsInv'
  BY <1>3, ResolveRuleKeeps DEF ListenerInv
<1>4. ASSUME NEW k \in Send, Push(k) PROVE RulesInv' /\ SendsInv'
  <2>1. /\ k \in DOMAIN sends /\ EndSend(k)
        /\ UNCHANGED <<ruleVars, cache, load, buffers, matched, rules, pc>>
    BY <1>4 DEF Push, outboxVars, matchVars, ruleVars
  <2> QED BY <2>1, RulesFrame, EndSendKeeps DEF ListenerInv
<1>5. ASSUME NEW r \in Rule, TimerFires(r) PROVE RulesInv' /\ SendsInv'
  <2>1. UNCHANGED <<ruleVars, cache, load>>
    BY <1>5 DEF TimerFires
  <2> QED BY <1>5, <2>1, RulesFrame, TimerFiresKeeps DEF ListenerInv
<1> QED BY <1>2, <1>3, <1>4, <1>5 DEF Sending

LEMMA EditingKeeps == ASSUME ListenerInv, Editing PROVE RulesInv' /\ CallInv' /\ SendsInv'
<1>1. UNCHANGED <<outboxVars, matchVars, sendVars>>
  BY DEF Editing, EditRule, InvalidateRules
<1>2. CallInv'
  BY <1>1, CallFrame DEF ListenerInv, outboxVars, scanVars, matchVars
<1>3. ASSUME NEW r \in Rule, EditRule(r) PROVE RulesInv' /\ SendsInv'
  BY <1>3, EditRuleKeeps, EditRuleKeepsSends DEF ListenerInv
<1>4. ASSUME NEW r \in Rule, InvalidateRules(r) PROVE RulesInv' /\ SendsInv'
  <2>1. UNCHANGED rules
    BY <1>4 DEF InvalidateRules
  <2> QED BY <1>1, <1>4, <2>1, InvalidateRulesKeeps, SendsFrame
             DEF ListenerInv, outboxVars, matchVars
<1> QED BY <1>2, <1>3, <1>4 DEF Editing

LEMMA FlushingKeeps == ASSUME ListenerInv, Flushing PROVE RulesInv' /\ CallInv' /\ SendsInv'
<1>1. UNCHANGED <<outboxVars, ruleVars, cache, load, call, seen, matched>>
  BY DEF Flushing, FlushBegin, FlushEnd, matchVars
<1>2. RulesInv' /\ CallInv'
  BY <1>1, RulesFrame, CallFrame DEF ListenerInv, outboxVars, scanVars
<1>3. CASE FlushBegin
  BY <1>2, <1>3, FlushBeginKeeps DEF ListenerInv
<1>4. CASE FlushEnd
  <2>1. /\ UNCHANGED <<buffers, sends, inflight, spent, matched, rules, pc>> /\ flush = "draining"
        /\ \/ inflight = 0 /\ flush' = "done"
           \/ flush' = "expired"
    BY <1>4 DEF FlushEnd, matchVars, ruleVars, outboxVars
  <2>2. inflight = 0 => DOMAIN sends = {}
    BY SendsFinite, FS_EmptySet DEF ListenerInv, SendsInv, SendsTypeOK, CountInv
  <2>3. SendsTypeOK' /\ FlushInv'
    BY <2>1, <2>2 DEF ListenerInv, SendsInv, SendsTypeOK, FlushInv
  <2>4. WordInv' /\ HoldInv' /\ CountInv'
    BY <2>1 DEF ListenerInv, SendsInv, WordInv, HoldInv, CountInv, Version
  <2> QED BY <1>2, <2>3, <2>4 DEF SendsInv
<1> QED BY <1>2, <1>3, <1>4 DEF Flushing

LEMMA ListenerStepOK == ASSUME ListenerInv, [Next]_vars PROVE ListenerInv'
<1>1. IInv'
  BY OutboxStep, StepOK DEF ListenerInv
<1>2. CASE UNCHANGED vars
  BY <1>1, <1>2, RulesFrame, CallFrame, SendsFrame
     DEF ListenerInv, vars, outboxVars, scanVars, listenerVars, ruleVars, matchVars, sendVars
<1>3. CASE Next
  BY <1>1, <1>3, OutboxKeeps, HaltingKeeps, ReadingKeeps, CallingKeeps, SendingKeeps,
     EditingKeeps, FlushingKeeps DEF Next, ListenerInv
<1> QED BY <1>2, <1>3

LEMMA ListenerInvariant == Spec => []ListenerInv
BY ListenerInitOK, ListenerStepOK, PTL DEF Spec

\* Every reachable state of the listener is of its type.
THEOREM ListenerTypeCorrect == Spec => []ListenerTypeOK
<1>1. ListenerInv => ListenerTypeOK
  BY DEF ListenerInv, RulesInv, CallInv, SendsInv, ListenerTypeOK
<1> QED BY <1>1, ListenerInvariant, PTL

\* Neither who matches nor who sends uses rules from before the last finished edit:
\* of enabledRules, cacheRules, currentRule and InvalidateRules, in any interleaving.
THEOREM RulesAreFresh == Spec => []NobodyRunsOnStaleRules
<1> SUFFICES ASSUME ListenerInv PROVE NobodyRunsOnStaleRules
  BY ListenerInvariant, PTL
<1>1. CacheIsCurrent
  BY DEF ListenerInv, RulesInv, LoadInv, ShowsSince, CacheIsCurrent, AtVersion, Version
<1>2. NoLastWord
  BY DEF ListenerInv, SendsInv, SendsTypeOK, SendType, WordInv, NoLastWord
<1> QED BY <1>1, <1>2 DEF NobodyRunsOnStaleRules

LEMMA HoldsIs ==
  ASSUME ListenerInv, NEW r \in Rule, NEW e \in Id
  PROVE  matched[<<r, e>>] <= 1 /\ matched[<<r, e>>] = Holds(r, e) + spent[<<r, e>>]
<1> DEFINE by == {k \in DOMAIN sends : k[1] = r /\ e \in sends[k].covers}
<1>0. <<r, e>> \in Send /\ matched[<<r, e>>] \in 0..1 /\ spent[<<r, e>>] \in 0..1
      /\ spent[<<r, e>>] <= matched[<<r, e>>]
  BY DEF ListenerInv, CallInv, CallTypeOK, SendsInv, SendsTypeOK, HoldInv, Send
<1>1. CASE e \in buffers[r].covers
  <2>1. matched[<<r, e>>] = 1 /\ spent[<<r, e>>] = 0 /\ by = {}
    BY <1>1 DEF ListenerInv, SendsInv, HoldInv
  <2>2. Cardinality(by) = 0
    BY <2>1, FS_EmptySet
  <2>3. Holds(r, e) = 1
    BY <1>1, <2>2 DEF Holds
  <2> QED BY <2>1, <2>3
<1>2. CASE e \notin buffers[r].covers /\ by = {}
  <2>1. matched[<<r, e>>] = spent[<<r, e>>]
    BY <1>0, <1>2 DEF ListenerInv, SendsInv, HoldInv
  <2>2. Holds(r, e) = 0
    <3>1. Cardinality(by) = 0
      BY <1>2, FS_EmptySet
    <3> QED BY <1>2, <3>1 DEF Holds
  <2> QED BY <1>0, <2>1, <2>2
<1>3. CASE e \notin buffers[r].covers /\ by # {}
  <2>1. PICK k \in by : TRUE
    BY <1>3
  <2>2. /\ \A j \in by : j = k
        /\ matched[<<r, e>>] = 1 /\ spent[<<r, e>>] = 0
    BY <2>1 DEF ListenerInv, SendsInv, HoldInv
  <2>3. by = {k}
    BY <2>1, <2>2
  <2>4. Cardinality(by) = 1
    BY <2>3, FS_Singleton
  <2>5. Holds(r, e) = 1
    BY <1>3, <2>4 DEF Holds
  <2> QED BY <2>2, <2>5
<1> QED BY <1>1, <1>2, <1>3

\* No match is doubled or lost on its way from the tailer through the window, its
\* timer and the flush to the end of its send, whatever is handed over again, and a
\* push announces as many changes as it stands for.
THEOREM MatchesAreAccounted == Spec => []MatchesAccounted
<1> SUFFICES ASSUME ListenerInv PROVE MatchesAccounted
  BY ListenerInvariant, PTL
<1>1. FlushLeavesNothing
  BY DEF ListenerInv, SendsInv, FlushInv, FlushLeavesNothing
<1>2. /\ \A r \in Rule : buffers[r].count = Cardinality(buffers[r].covers)
      /\ \A k \in DOMAIN sends : sends[k].count = Cardinality(sends[k].covers)
  BY DEF ListenerInv, SendsInv, CountInv
<1> QED BY <1>1, <1>2, HoldsIs DEF MatchesAccounted

----------------------------------------------------------------------------
(* Listings and greatest members. *)

\* A set of naturals that is not empty has a least member.
LEMMA LeastMember ==
  ASSUME NEW T, T \subseteq Nat, T # {}
  PROVE  \E x \in T : \A y \in T : x <= y
<1>1. IsWellFoundedOn(OpToRel(<, Nat), Nat)
  BY NatLessThanWellFounded
<1>2. PICK x \in T : \A y \in T : ~(<<y, x>> \in OpToRel(<, Nat))
  BY <1>1, WFMin
<1>3. \A y \in T : ~(y < x)
  BY <1>2 DEF OpToRel
<1> QED
  BY <1>3

Lists(s, S) ==
  s \in [1..Cardinality(S) -> S] /\ {s[i] : i \in DOMAIN s} = S /\ \A i, j \in DOMAIN s : i < j => s[i] > s[j]

\* A finite set of naturals can be listed in falling order: its least member goes last.
LEMMA Listed ==
  ASSUME NEW S, S \subseteq Nat, IsFiniteSet(S)
  PROVE  \E s : Lists(s, S)
<1> DEFINE Bad == {T \in SUBSET S : ~\E s : Lists(s, T)}
           N == {Cardinality(T) : T \in Bad}
<1>1. \A T \in SUBSET S : IsFiniteSet(T) /\ Cardinality(T) \in Nat /\ T \subseteq Nat
  BY FS_Subset, FS_CardinalityType
<1> SUFFICES ASSUME Bad # {} PROVE FALSE
  OBVIOUS
<1>2. N \subseteq Nat /\ N # {}
  BY <1>1
<1>3. PICK n \in N : \A k \in N : n <= k
  BY <1>2, LeastMember
<1>4. PICK T \in Bad : n = Cardinality(T)
  BY <1>3
<1>5. T # {}
  <2> SUFFICES ASSUME T = {} PROVE FALSE
    OBVIOUS
  <2>1. Cardinality(T) = 0
    BY FS_EmptySet
  <2>2. Lists([i \in 1..0 |-> 0], T)
    BY <2>1 DEF Lists
  <2> QED
    BY <2>2
<1>6. PICK x \in T : \A y \in T : x <= y
  BY <1>1, <1>5, LeastMember
<1> DEFINE R == T \ {x}
<1>7. R \in SUBSET S /\ Cardinality(R) = n - 1 /\ n \in Nat \ {0}
  BY <1>1, <1>4, <1>6, FS_RemoveElement, FS_EmptySet
<1>8. R \notin Bad
  <2> SUFFICES ASSUME R \in Bad PROVE FALSE
    OBVIOUS
  <2>1. Cardinality(R) \in N
    OBVIOUS
  <2>2. n <= n - 1
    BY <1>3, <1>7, <2>1
  <2> QED
    BY <1>7, <2>2
<1>9. PICK s : Lists(s, R)
  BY <1>7, <1>8
<1> DEFINE z == [i \in 1..n |-> IF i = n THEN x ELSE s[i]]
<1>10. DOMAIN s = 1..(n - 1) /\ \A i \in 1..(n - 1) : s[i] \in R
  BY <1>7, <1>9 DEF Lists
<1>11. z \in [1..n -> T]
  BY <1>7, <1>10
<1>12. {z[i] : i \in DOMAIN z} = T
  <2>1. \A y \in R : \E i \in 1..(n - 1) : s[i] = y
    BY <1>9, <1>10 DEF Lists
  <2>2. \A y \in R : \E i \in 1..n : z[i] = y
    <3> TAKE y \in R
    <3>1. PICK i \in 1..(n - 1) : s[i] = y
      BY <2>1
    <3>2. i \in 1..n /\ i # n
      BY <1>7
    <3> QED
      BY <3>1, <3>2
  <2>3. z[n] = x /\ n \in 1..n
    BY <1>7
  <2> HIDE DEF z
  <2> QED
    BY <1>11, <2>2, <2>3
<1>13. \A i, j \in DOMAIN z : i < j => z[i] > z[j]
  <2> SUFFICES ASSUME NEW i \in 1..n, NEW j \in 1..n, i < j PROVE z[i] > z[j]
    OBVIOUS
  <2>1. i \in 1..(n - 1) /\ z[i] = s[i] /\ s[i] \in R
    BY <1>7, <1>10
  <2>2. CASE j = n
    <3>1. z[i] \in Nat /\ x \in Nat /\ x <= z[i] /\ z[i] # x /\ z[j] = x
      BY <1>1, <1>6, <2>1, <2>2
    <3> QED
      BY <3>1
  <2>3. CASE j # n
    <3>1. j \in 1..(n - 1) /\ z[j] = s[j]
      BY <1>7, <2>3
    <3>2. s[i] > s[j]
      BY <1>9, <1>10, <2>1, <3>1 DEF Lists
    <3> QED
      BY <2>1, <3>1, <3>2
  <2> QED
    BY <2>2, <2>3
<1>14. Lists(z, T)
  BY <1>4, <1>11, <1>12, <1>13 DEF Lists
<1> QED
  BY <1>14

LEMMA NewestFirstIs ==
  ASSUME NEW S, S \subseteq Nat, IsFiniteSet(S)
  PROVE  /\ NewestFirst(S) \in Seq(Nat) /\ Ids([i \in DOMAIN NewestFirst(S) |-> [id |-> NewestFirst(S)[i]]]) = S
         /\ \A i \in 1..Len(NewestFirst(S)) : NewestFirst(S)[i] \in S
         /\ \A x \in S : \E i \in 1..Len(NewestFirst(S)) : NewestFirst(S)[i] = x
         /\ \A i, j \in 1..Len(NewestFirst(S)) : i < j => NewestFirst(S)[i] > NewestFirst(S)[j]
         /\ Len(NewestFirst(S)) \in Nat /\ DOMAIN NewestFirst(S) = 1..Len(NewestFirst(S))
<1> DEFINE s == NewestFirst(S)
<1>1. Cardinality(S) \in Nat
  BY FS_CardinalityType
<1>2. Lists(s, S)
  <2>1. PICK z : Lists(z, S)
    BY Listed
  <2>2. \E q \in [1..Cardinality(S) -> S] : {q[i] : i \in DOMAIN q} = S /\ \A i, j \in DOMAIN q : i < j => q[i] > q[j]
    BY <2>1 DEF Lists
  <2>3. /\ s \in [1..Cardinality(S) -> S]
        /\ {s[i] : i \in DOMAIN s} = S /\ \A i, j \in DOMAIN s : i < j => s[i] > s[j]
    BY <2>2 DEF NewestFirst
  <2> QED
    BY <2>3 DEF Lists
<1> HIDE DEF s
<1> DEFINE n == Cardinality(S)
<1>3. s \in Seq(Nat) /\ DOMAIN s = 1..Cardinality(S)
  <2>1. s \in [1..n -> S]
    BY <1>2 DEF Lists
  <2>2. s \in [1..n -> Nat]
    BY <2>1
  <2> HIDE DEF n
  <2>3. s \in Seq(Nat) /\ DOMAIN s = 1..n
    BY <1>1, <2>2 DEF n
  <2> QED
    BY <2>3 DEF n
<1>4. Len(s) = Cardinality(S) /\ DOMAIN s = 1..Len(s)
  BY <1>1, <1>3
<1>5. /\ \A i \in 1..Len(s) : s[i] \in S
      /\ \A x \in S : \E i \in 1..Len(s) : s[i] = x
      /\ \A i, j \in 1..Len(s) : i < j => s[i] > s[j]
  BY <1>2, <1>4 DEF Lists
<1>6. Ids([i \in DOMAIN s |-> [id |-> s[i]]]) = S
  BY <1>4, <1>5 DEF Ids
<1> QED
  BY <1>1, <1>3, <1>4, <1>5, <1>6 DEF s

----------------------------------------------------------------------------
(* What a thread and a page look like. *)

ThreadOK(th) == th \in Seq(Rows) /\ \A k \in 1..Len(th) : th[k].id = 2 * k

\* A view of a message that is there, by its author.
Of(v, th) == v \in Views /\ \E p \in 1..Len(th) : v.id = 2 * p /\ v.author = th[p].author
\* A page: whatever lies between two of its messages is on it.
Whole(items, th) ==
  /\ items \in Seq(Views) /\ \A i \in 1..Len(items) : Of(items[i], th)
  /\ \A a, b \in Ids(items), k \in Nat : a < 2 * k /\ 2 * k < b => 2 * k \in Ids(items)

LEMMA IdsAre ==
  ASSUME NEW items \in Seq(Views)
  PROVE  /\ \A x : x \in Ids(items) <=> \E i \in 1..Len(items) : items[i].id = x
         /\ Ids(items) \subseteq Nat /\ \A i \in 1..Len(items) : items[i] \in Views
<1>1. DOMAIN items = 1..Len(items) /\ \A i \in 1..Len(items) : items[i] \in Views
  OBVIOUS
<1>2. \A i \in 1..Len(items) : items[i].id \in Nat
  BY <1>1 DEF Views
<1> QED
  BY <1>1, <1>2 DEF Ids

LEMMA PlaceOfIs ==
  ASSUME ThreadOK(thread), NEW k \in Places
  PROVE  PlaceOf(2 * k) = k /\ thread[k].id = 2 * k /\ thread[k] \in Rows /\ k \in Nat \ {0}
<1>1. \A l \in Places : thread[l].id = 2 * l /\ l \in Nat
  BY DEF ThreadOK, Places
<1>2. \A l \in Places : thread[l].id = 2 * k => l = k
  BY <1>1
<1>3. PlaceOf(2 * k) = k
  BY <1>1, <1>2 DEF PlaceOf
<1> QED
  BY <1>1, <1>3 DEF ThreadOK, Places

LEMMA RenderedIs ==
  ASSUME NEW row \in Rows, NEW floor \in Nat
  PROVE  Rendered(floor, row) \in Views /\ Rendered(floor, row).id = row.id /\ Rendered(floor, row).author = row.author
BY DEF Rendered, Rows, Views, Quote, MessageByID

LEMMA PageIsWhole ==
  ASSUME ThreadOK(thread), NEW floor \in Nat, NEW before \in Nat, NEW limit \in Nat \ {0}
  PROVE  Page(floor, before, limit) \in Pages /\ Whole(Page(floor, before, limit).items, thread)
<1> DEFINE K == {l \in Above(floor) : before = 0 \/ thread[l].id < before}
           S == {thread[k].id : k \in K}
           ids == NewestFirst(S)
           most == IF Len(ids) > limit THEN limit ELSE Len(ids)
           items == [i \in 1..most |-> Rendered(floor, thread[PlaceOf(ids[i])])]
<1>1. Page(floor, before, limit) = [items |-> items, more |-> IF Len(ids) > limit THEN ids[limit] ELSE 0]
  BY DEF Page
<1>2. Places = 1..Len(thread) /\ Len(thread) \in Nat /\ K \subseteq Places
  BY DEF ThreadOK, Places, Above
<1>3. \A x : x \in S <=> \E k \in Places : x = 2 * k /\ x > floor /\ (before = 0 \/ x < before)
  BY <1>2, PlaceOfIs DEF Above
<1>4. S \subseteq Nat /\ IsFiniteSet(S)
  <2>2. \A k \in Places : 2 * k \in Nat /\ 2 * k \in 0..(2 * Len(thread))
    BY <1>2
  <2> HIDE DEF S
  <2>1. S \subseteq Nat /\ S \subseteq 0..(2 * Len(thread))
    BY <1>3, <2>2
  <2>3. IsFiniteSet(0..(2 * Len(thread)))
    BY <1>2, FS_Interval
  <2> QED
    BY <2>1, <2>3, FS_Subset
<1> HIDE DEF S, K
<1>5. /\ ids \in Seq(Nat) /\ Len(ids) \in Nat
      /\ \A i \in 1..Len(ids) : ids[i] \in S
      /\ \A x \in S : \E i \in 1..Len(ids) : ids[i] = x
      /\ \A i, j \in 1..Len(ids) : i < j => ids[i] > ids[j]
  BY <1>4, NewestFirstIs
<1> HIDE DEF ids
<1>6. most \in Nat /\ most <= Len(ids)
  BY <1>5
<1>7. \A i \in 1..most : i \in 1..Len(ids) /\ items[i] = Rendered(floor, thread[PlaceOf(ids[i])])
  BY <1>5, <1>6
<1>8. ASSUME NEW i \in 1..most PROVE items[i] \in Views /\ Of(items[i], thread) /\ items[i].id = ids[i]
  <2>1. PICK k \in Places : ids[i] = 2 * k
    BY <1>3, <1>5, <1>7
  <2>2. items[i] = Rendered(floor, thread[k]) /\ thread[k] \in Rows /\ thread[k].id = 2 * k
    BY <1>7, <2>1, PlaceOfIs
  <2>3. items[i] \in Views /\ items[i].id = 2 * k /\ items[i].author = thread[k].author
    BY <2>2, RenderedIs
  <2> QED
    BY <1>2, <2>1, <2>3 DEF Of
<1> HIDE DEF items
<1>9. items \in Seq(Views) /\ Len(items) = most
  <2>1. items \in [1..most -> Views]
    BY <1>8 DEF items
  <2> HIDE DEF most
  <2> QED
    BY <1>6, <2>1
<1>10. (IF Len(ids) > limit THEN ids[limit] ELSE 0) \in Nat
  BY <1>5
<1>11. Page(floor, before, limit) \in Pages
  BY <1>1, <1>9, <1>10 DEF Pages
<1>12. ASSUME NEW a \in Ids(items), NEW b \in Ids(items), NEW k \in Nat, a < 2 * k, 2 * k < b
       PROVE  2 * k \in Ids(items)
  <2>1. PICK i \in 1..most : items[i].id = a /\ ids[i] = a
    BY <1>8, <1>9, IdsAre
  <2>2. PICK j \in 1..most : items[j].id = b /\ ids[j] = b
    BY <1>8, <1>9, IdsAre
  <2>3. a \in S /\ b \in S
    BY <1>5, <1>7, <2>1, <2>2
  <2>4. PICK p \in Places : b = 2 * p
    BY <1>3, <2>3
  <2>5. a \in Nat /\ b \in Nat
    BY <1>4, <2>3
  <2>6. k \in Places
    BY <1>2, <1>12, <2>4, <2>5
  <2>7. 2 * k > floor /\ (before = 0 \/ 2 * k < before)
    BY <1>3, <1>12, <2>3, <2>5
  <2>8. 2 * k \in S
    BY <1>3, <2>6, <2>7
  <2>9. PICK l \in 1..Len(ids) : ids[l] = 2 * k
    BY <1>5, <2>8
  <2>10. l < i
    <3> SUFFICES ASSUME l >= i PROVE FALSE
      BY <1>5, <1>6
    <3>1. i \in 1..Len(ids)
      BY <1>7
    <3>2. l = i \/ i < l
      BY <3>1
    <3>3. ids[i] >= ids[l]
      BY <1>5, <2>1, <2>5, <2>9, <3>1, <3>2
    <3> QED
      BY <1>12, <2>1, <2>5, <2>9, <3>3
  <2>11. l \in 1..most
    BY <1>6, <2>10
  <2>12. items[l].id = 2 * k
    BY <1>8, <2>9, <2>11
  <2> QED
    BY <1>9, <2>11, <2>12, IdsAre
<1> QED
  BY <1>1, <1>8, <1>9, <1>11, <1>12 DEF Whole

----------------------------------------------------------------------------
(* The cache of a tab. *)

\* What is next to each other, and not the member's own or at a seam, has nothing between.
Beside(items, seams, m, i) ==
  \/ items[i].author = m
  \/ items[i + 1].id \in seams
  \/ \A k \in Nat : items[i + 1].id < 2 * k /\ 2 * k < items[i].id => 2 * k \in Ids(items)
ItemsOK(items, seams, m, th) ==
  /\ items \in Seq(Views) /\ \A i \in 1..Len(items) : Of(items[i], th)
  /\ \A i \in 1..(Len(items) - 1) : Beside(items, seams, m, i)
TabOK(t, m, th) ==
  /\ t \in TabType /\ Whole(t.page.items, th)
  /\ t.items # None => ItemsOK(t.items, t.seams, m, th)
Okay(t, m, th) == t = None \/ TabOK(t, m, th)

LEMMA OfIs ==
  ASSUME NEW th, ThreadOK(th), NEW v, Of(v, th)
  PROVE  /\ v \in Views /\ v.id \in Nat /\ v.author \in Members /\ v.id >= 2
         /\ \E p \in 1..Len(th) : v.id = 2 * p /\ v.author = th[p].author
         /\ \A w : Of(w, th) /\ w.id = v.id => w.author = v.author
<1>1. v \in Views /\ \E p \in 1..Len(th) : v.id = 2 * p /\ v.author = th[p].author
  BY DEF Of
<1>2. PICK p \in 1..Len(th) : v.id = 2 * p /\ v.author = th[p].author
  BY <1>1
<1>3. Len(th) \in Nat
  BY DEF ThreadOK
<1>4. ASSUME NEW w, Of(w, th), w.id = v.id PROVE w.author = v.author
  <2>1. PICK q \in 1..Len(th) : w.id = 2 * q /\ w.author = th[q].author
    BY <1>4 DEF Of
  <2>2. p = q
    BY <1>2, <1>3, <1>4, <2>1
  <2> QED
    BY <1>2, <2>1, <2>2
<1>5. v.id >= 2 /\ v.id \in Nat
  BY <1>2, <1>3
<1>6. v.author \in Members
  BY <1>1 DEF Views
<1> QED
  BY <1>1, <1>4, <1>5, <1>6

LEMMA WholeItemsOK ==
  ASSUME NEW th, ThreadOK(th), NEW items, Whole(items, th), NEW m, NEW seams
  PROVE  ItemsOK(items, seams, m, th)
<1>1. items \in Seq(Views) /\ \A i \in 1..Len(items) : Of(items[i], th)
  BY DEF Whole
<1>2. ASSUME NEW i \in 1..(Len(items) - 1) PROVE Beside(items, seams, m, i)
  <2>1. i \in 1..Len(items) /\ i + 1 \in 1..Len(items)
    BY <1>1
  <2>2. items[i].id \in Ids(items) /\ items[i + 1].id \in Ids(items)
    BY <1>1, <2>1, IdsAre
  <2> QED
    BY <2>2 DEF Beside, Whole
<1> QED
  BY <1>1, <1>2 DEF ItemsOK

LEMMA FreshIs ==
  ASSUME ChatConstants, NEW th, ThreadOK(th), NEW m
  PROVE  TabOK(Fresh, m, th) /\ Fresh.page \in Pages /\ Whole(Fresh.page.items, th)
<1>1. Fresh.page = [items |-> <<>>, more |-> 0] /\ Fresh.items = None
  BY DEF Fresh
<1>2. <<>> \in Seq(Views) /\ Len(<<>>) = 0 /\ Ids(<<>>) = {}
  BY DEF Ids
<1>3. Whole(<<>>, th)
  BY <1>2 DEF Whole
<1>4. Fresh.page \in Pages
  BY <1>1, <1>2 DEF Pages
<1>5. Fresh \in TabType
  BY <1>1, <1>4 DEF Fresh, TabType, ChatConstants
<1> QED
  BY <1>1, <1>3, <1>4, <1>5 DEF TabOK

\* What a tab that caches the thread holds.
LEMMA CachedIs ==
  ASSUME ChatConstants, NEW th, NEW m, NEW t, Okay(t, m, th)
  PROVE  /\ Items(t) \in Seq(Views) /\ Ids(Items(t)) \subseteq Nat
         /\ \A i \in 1..Len(Items(t)) : Of(Items(t)[i], th)
         /\ Cached(t) => t # None /\ t.items # None /\ t \in TabType /\ Items(t) = t.items
                         /\ ItemsOK(t.items, t.seams, m, th)
         /\ ~Cached(t) => Items(t) = <<>>
         /\ t # None => t \in TabType /\ TabOK(t, m, th)
<1>1. t # None => t \in TabType /\ TabOK(t, m, th)
  BY DEF Okay, TabOK
<1>2. ~Cached(t) => Items(t) = <<>>
  BY DEF Cached, Items
<1>3. Cached(t) => t # None /\ t.items # None /\ t \in TabType /\ Items(t) = t.items /\ ItemsOK(t.items, t.seams, m, th)
  BY <1>1 DEF Cached, Items, TabOK
<1>4. Items(t) \in Seq(Views) /\ \A i \in 1..Len(Items(t)) : Of(Items(t)[i], th)
  <2>1. CASE Cached(t)
    BY <1>3, <2>1 DEF ItemsOK
  <2>2. CASE ~Cached(t)
    BY <1>2, <2>2
  <2> QED
    BY <2>1, <2>2
<1>5. Ids(Items(t)) \subseteq Nat
  BY <1>4, IdsAre
<1> QED
  BY <1>1, <1>2, <1>3, <1>4, <1>5

\* A tab with other messages.
LEMMA WithItems ==
  ASSUME NEW th, NEW m, NEW t, TabOK(t, m, th), NEW items, ItemsOK(items, t.seams, m, th)
  PROVE  Okay([t EXCEPT !.items = items], m, th)
<1> DEFINE z == [t EXCEPT !.items = items]
<1>1. t \in TabType /\ Whole(t.page.items, th) /\ items \in Seq(Views)
  BY DEF TabOK, ItemsOK
<1>2. z \in TabType /\ z.items = items /\ z.seams = t.seams /\ z.page = t.page
  BY <1>1 DEF TabType
<1> HIDE DEF z
<1> QED
  BY <1>1, <1>2 DEF TabOK, Okay, z

LEMMA InvalidatedIs ==
  ASSUME ChatConstants, NEW th, ThreadOK(th), NEW m, NEW t, Okay(t, m, th)
  PROVE  Okay(Invalidated(t), m, th)
<1>1. CASE t = None
  BY <1>1 DEF Invalidated, Okay
<1>2. CASE t # None
  <2> DEFINE held == Len(Items(t))
             limit == IF held < PageSize THEN PageSize ELSE IF held > PageMax THEN PageMax ELSE held
             z == [t EXCEPT !.fetch = "asked", !.limit = limit, !.page = Fresh.page]
  <2>1. t \in TabType /\ TabOK(t, m, th) /\ held \in Nat
    BY <1>2, CachedIs
  <2>2. limit \in Nat \ {0}
    BY <2>1 DEF ChatConstants
  <2>3. Fresh.page \in Pages /\ Whole(Fresh.page.items, th)
    BY FreshIs
  <2> HIDE DEF limit
  <2>4. z \in TabType /\ z.items = t.items /\ z.seams = t.seams /\ z.page = Fresh.page
    BY <2>1, <2>2, <2>3 DEF TabType
  <2>5. Invalidated(t) = z
    BY <1>2 DEF Invalidated, limit
  <2> HIDE DEF z
  <2> QED
    BY <2>1, <2>3, <2>4, <2>5 DEF TabOK, Okay
<1> QED
  BY <1>1, <1>2

\* A message that comes in goes on top: it is the member's own, or follows what was on top.
LEMMA AppendedIs ==
  ASSUME ChatConstants, NEW th, ThreadOK(th), NEW m, NEW t, Okay(t, m, th), NEW v, Of(v, th),
         v.author = m \/ v.id = 2 \/ v.id = NewestInCache(t) + 2
  PROVE  Okay(Appended(t, v), m, th)
<1> SUFFICES ASSUME Cached(t), ~Shows(t, v.id) PROVE Okay(Appended(t, v), m, th)
  BY DEF Appended
<1> DEFINE old == t.items
           items == <<v>> \o old
<1>1. t # None /\ Items(t) = old /\ ItemsOK(old, t.seams, m, th) /\ TabOK(t, m, th)
  BY CachedIs
<1>2. Appended(t, v) = [t EXCEPT !.items = items]
  BY DEF Appended
<1>3. old \in Seq(Views) /\ \A i \in 1..Len(old) : Of(old[i], th)
  BY <1>1 DEF ItemsOK
<1>4. v \in Views /\ v.id \in Nat
  BY OfIs
<1> HIDE DEF old
<1>5. /\ items \in Seq(Views) /\ Len(items) = Len(old) + 1 /\ items[1] = v
      /\ \A i \in 1..Len(old) : items[i + 1] = old[i]
  BY <1>3, <1>4
<1> HIDE DEF items
<1>6. \A i \in 1..Len(items) : i = 1 \/ (i - 1 \in 1..Len(old) /\ items[i] = old[i - 1])
  <2> TAKE i \in 1..Len(items)
  <2>1. i = 1 \/ i - 1 \in 1..Len(old)
    BY <1>3, <1>5
  <2>2. i - 1 \in 1..Len(old) => items[(i - 1) + 1] = old[i - 1]
    BY <1>5
  <2>3. (i - 1) + 1 = i
    BY <1>5
  <2> QED
    BY <2>1, <2>2, <2>3
<1>7. \A i \in 1..Len(items) : Of(items[i], th)
  BY <1>3, <1>5, <1>6
<1>8. \A x \in Ids(old) : x \in Ids(items)
  <2> TAKE x \in Ids(old)
  <2>1. PICK i \in 1..Len(old) : old[i].id = x
    BY <1>3, IdsAre
  <2>2. i + 1 \in 1..Len(items) /\ items[i + 1].id = x
    BY <1>3, <1>5, <2>1
  <2> QED
    BY <1>5, <2>2, IdsAre
<1>9. ASSUME NEW i \in 1..(Len(items) - 1) PROVE Beside(items, t.seams, m, i)
  <2>1. i \in Nat /\ i \in 1..Len(old) /\ items[i + 1] = old[i]
    BY <1>3, <1>5
  <2>2. CASE i = 1
    <3>1. items[1] = v /\ items[2] = old[1]
      BY <1>5, <2>1, <2>2
    <3>2. NewestInCache(t) = old[1].id
      <4>1. old # <<>>
        BY <2>1, <2>2
      <4> QED
        BY <1>1, <4>1 DEF NewestInCache
    <3>3. old[1].id \in Nat /\ old[1].id >= 2
      BY <1>3, <2>1, <2>2, OfIs
    <3>4. CASE v.author = m
      BY <2>2, <3>1, <3>4 DEF Beside
    <3>5. CASE v.author # m
      <4>1. \A k \in Nat : ~(old[1].id < 2 * k /\ 2 * k < v.id)
        <5> SUFFICES ASSUME NEW k \in Nat, old[1].id < 2 * k, 2 * k < v.id PROVE FALSE
          OBVIOUS
        <5>1. PICK p \in 1..Len(th) : old[1].id = 2 * p
          BY <1>3, <2>1, <2>2, OfIs
        <5>2. v.id = 2 \/ v.id = 2 * p + 2
          BY <3>2, <3>5, <5>1 DEF ThreadOK
        <5> QED
          BY <3>3, <5>1, <5>2 DEF ThreadOK
      <4> QED
        BY <2>2, <3>1, <4>1 DEF Beside
    <3> QED
      BY <3>4, <3>5
  <2>3. CASE i # 1
    <3>1. i - 1 \in 1..(Len(old) - 1) /\ items[i] = old[i - 1] /\ (i - 1) + 1 = i
      BY <1>3, <1>6, <2>1, <2>3
    <3>2. Beside(old, t.seams, m, i - 1)
      BY <1>1, <3>1 DEF ItemsOK
    <3> QED
      BY <1>8, <2>1, <3>1, <3>2 DEF Beside
  <2> QED
    BY <2>2, <2>3
<1>10. ItemsOK(items, t.seams, m, th)
  BY <1>5, <1>7, <1>9 DEF ItemsOK
<1>11. Okay([t EXCEPT !.items = items], m, th)
  BY <1>1, <1>10, WithItems
<1> QED
  BY <1>2, <1>11

\* A change is put where the message stands.
LEMMA ReplacedIs ==
  ASSUME ChatConstants, NEW th, ThreadOK(th), NEW m, NEW t, Okay(t, m, th), NEW v, Of(v, th)
  PROVE  Okay(Replaced(t, v), m, th)
<1> SUFFICES ASSUME Cached(t) PROVE Okay(Replaced(t, v), m, th)
  BY DEF Replaced
<1> DEFINE old == t.items
           items == [i \in DOMAIN old |-> IF old[i].id = v.id THEN v ELSE old[i]]
<1>1. t # None /\ ItemsOK(old, t.seams, m, th) /\ TabOK(t, m, th) /\ t \in TabType
  BY CachedIs
<1>2. Replaced(t, v) = [t EXCEPT !.items = items]
  BY <1>1 DEF Replaced, TabType
<1>3. old \in Seq(Views) /\ \A i \in 1..Len(old) : Of(old[i], th)
  BY <1>1 DEF ItemsOK
<1> HIDE DEF old
<1>4. DOMAIN old = 1..Len(old) /\ Len(old) \in Nat
  BY <1>3
<1>5. \A i \in 1..Len(old) :
        /\ items[i] \in Views /\ Of(items[i], th)
        /\ items[i].id = old[i].id /\ items[i].author = old[i].author
  <2> TAKE i \in 1..Len(old)
  <2>1. items[i] = IF old[i].id = v.id THEN v ELSE old[i]
    BY <1>4
  <2>2. Of(old[i], th)
    BY <1>3
  <2> HIDE DEF items
  <2>3. CASE old[i].id = v.id
    <3>1. items[i] = v /\ v.id = old[i].id
      BY <2>1, <2>3
    <3>2. v.author = old[i].author
      BY <2>2, <2>3, OfIs
    <3> QED
      BY <3>1, <3>2, OfIs
  <2>4. CASE old[i].id # v.id
    BY <2>1, <2>2, <2>4, OfIs
  <2> QED
    BY <2>3, <2>4
<1>6. items \in Seq(Views) /\ Len(items) = Len(old)
  <2>1. items \in [1..Len(old) -> Views]
    BY <1>4, <1>5
  <2> HIDE DEF items
  <2> QED
    BY <1>4, <2>1
<1> HIDE DEF items
<1>7. \A x \in Ids(old) : x \in Ids(items)
  <2> TAKE x \in Ids(old)
  <2>1. PICK i \in 1..Len(old) : old[i].id = x
    BY <1>3, IdsAre
  <2>2. i \in 1..Len(items) /\ items[i].id = x
    BY <1>5, <1>6, <2>1
  <2> QED
    BY <1>6, <2>2, IdsAre
<1>8. ASSUME NEW i \in 1..(Len(items) - 1) PROVE Beside(items, t.seams, m, i)
  <2>1. i \in 1..Len(old) /\ i + 1 \in 1..Len(old) /\ i \in 1..(Len(old) - 1)
    BY <1>4, <1>6
  <2>2. items[i].id = old[i].id /\ items[i].author = old[i].author /\ items[i + 1].id = old[i + 1].id
    BY <1>5, <2>1
  <2>3. Beside(old, t.seams, m, i)
    BY <1>1, <2>1 DEF ItemsOK
  <2> QED
    BY <1>7, <2>2, <2>3 DEF Beside
<1>9. ItemsOK(items, t.seams, m, th)
  BY <1>5, <1>6, <1>8 DEF ItemsOK
<1>10. Okay([t EXCEPT !.items = items], m, th)
  BY <1>1, <1>9, WithItems
<1> QED
  BY <1>2, <1>10 DEF items

\* Where a message stands in what is held.
LEMMA CachedInIs ==
  ASSUME NEW items \in Seq(Views), NEW id \in Ids(items)
  PROVE  \E i \in 1..Len(items) : CachedIn(items, id) = items[i] /\ items[i].id = id
<1>1. DOMAIN items = 1..Len(items) /\ \E i \in 1..Len(items) : items[i].id = id
  BY IdsAre
<1> QED
  BY <1>1 DEF CachedIn

\* A mark on a message that is shown.
LEMMA MarkedIs ==
  ASSUME ChatConstants, NEW th, ThreadOK(th), NEW m \in Members, NEW t, Okay(t, m, th), NEW id, Shows(t, id),
         NEW on \in BOOLEAN
  PROVE  Okay(Replaced(t, ApplyReaction(CachedMessage(t, id), m, on)), m, th)
<1> DEFINE v == CachedMessage(t, id)
           w == ApplyReaction(v, m, on)
<1>1. PICK i \in 1..Len(Items(t)) : v = Items(t)[i]
  BY CachedIs, CachedInIs DEF Shows, CachedMessage
<1>2. Of(v, th) /\ v \in Views
  BY <1>1, CachedIs, OfIs
<1> HIDE DEF v
<1>3. w \in Views /\ w.id = v.id /\ w.author = v.author
  BY <1>2 DEF ApplyReaction, Views
<1> HIDE DEF w
<1>4. Of(w, th)
  BY <1>2, <1>3 DEF Of
<1> QED
  BY <1>4, ReplacedIs DEF v, w

\* What is on an older page and not held yet, newest first.
LEMMA NotShownIs ==
  ASSUME NEW th, ThreadOK(th), NEW held \in Seq(Views), NEW t, t.items = held, NEW page, Whole(page.items, th)
  PROVE  /\ NotShown(t, page) \in Seq(Views)
         /\ \A i \in 1..Len(NotShown(t, page)) : Of(NotShown(t, page)[i], th) /\ NotShown(t, page)[i].id \in Ids(page.items)
         /\ \A x \in Ids(page.items) : x \in Ids(held) \/ x \in Ids(NotShown(t, page))
<1> DEFINE rest == Ids(page.items) \ Ids(t.items)
           ids == NewestFirst(rest)
           older == [i \in DOMAIN ids |-> CachedIn(page.items, ids[i])]
<1>1. page.items \in Seq(Views) /\ Ids(page.items) \subseteq Nat /\ \A i \in 1..Len(page.items) : Of(page.items[i], th)
  BY IdsAre DEF Whole
<1>2. Ids(page.items) \subseteq 0..(2 * Len(th))
  <2> SUFFICES ASSUME NEW x \in Ids(page.items) PROVE x \in 0..(2 * Len(th))
    OBVIOUS
  <2>1. PICK i \in 1..Len(page.items) : page.items[i].id = x
    BY <1>1, IdsAre
  <2>2. PICK p \in 1..Len(th) : x = 2 * p
    BY <1>1, <2>1, OfIs
  <2> QED
    BY <2>2 DEF ThreadOK
<1>3. rest \subseteq Nat /\ IsFiniteSet(rest)
  <2>1. IsFiniteSet(0..(2 * Len(th)))
    <3>1. 2 * Len(th) \in Int
      BY DEF ThreadOK
    <3> QED
      BY <3>1, FS_Interval
  <2>2. IsFiniteSet(Ids(page.items))
    BY <1>2, <2>1, FS_Subset
  <2> QED
    BY <1>1, <2>2, FS_Subset
<1> HIDE DEF rest
<1>4. /\ Len(ids) \in Nat /\ DOMAIN ids = 1..Len(ids)
      /\ \A i \in 1..Len(ids) : ids[i] \in rest
      /\ \A x \in rest : \E i \in 1..Len(ids) : ids[i] = x
  BY <1>3, NewestFirstIs
<1> HIDE DEF ids
<1>5. \A i \in 1..Len(ids) : older[i] \in Views /\ Of(older[i], th) /\ older[i].id = ids[i]
  <2> TAKE i \in 1..Len(ids)
  <2>1. ids[i] \in Ids(page.items)
    BY <1>4 DEF rest
  <2>2. PICK j \in 1..Len(page.items) : CachedIn(page.items, ids[i]) = page.items[j] /\ page.items[j].id = ids[i]
    BY <1>1, <2>1, CachedInIs
  <2>3. Of(page.items[j], th)
    BY <1>1
  <2>4. older[i] = page.items[j]
    BY <1>4, <2>2
  <2> QED
    BY <2>2, <2>3, <2>4, OfIs
<1>6. older \in Seq(Views) /\ Len(older) = Len(ids)
  <2>1. older \in [1..Len(ids) -> Views]
    BY <1>4, <1>5
  <2> HIDE DEF older
  <2> QED
    BY <1>4, <2>1
<1>7. NotShown(t, page) = older
  BY DEF NotShown, ids, rest
<1> HIDE DEF older
<1>8. \A i \in 1..Len(older) : Of(older[i], th) /\ older[i].id \in Ids(page.items)
  BY <1>4, <1>5, <1>6 DEF rest
<1>9. \A x \in Ids(page.items) : x \in Ids(held) \/ x \in Ids(older)
  <2> SUFFICES ASSUME NEW x \in Ids(page.items), x \notin Ids(held) PROVE x \in Ids(older)
    OBVIOUS
  <2>1. PICK i \in 1..Len(ids) : ids[i] = x
    BY <1>4 DEF rest
  <2> QED
    BY <1>5, <1>6, <2>1, IdsAre
<1> QED
  BY <1>6, <1>7, <1>8, <1>9

\* An older page is joined below what is held; where they meet is a seam.
LEMMA JoinedIs ==
  ASSUME ChatConstants, NEW th, ThreadOK(th), NEW m, NEW t, Okay(t, m, th), Cached(t),
         NEW page \in Pages, Whole(page.items, th)
  PROVE  Okay(Joined(t, page), m, th)
<1> DEFINE old == t.items
           older == NotShown(t, page)
           items == old \o older
           seams == IF older = <<>> THEN t.seams ELSE t.seams \cup {older[1].id}
           z == [t EXCEPT !.items = items, !.more = page.more, !.seams = seams]
<1>1. t # None /\ ItemsOK(old, t.seams, m, th) /\ TabOK(t, m, th) /\ t \in TabType
  BY CachedIs
<1>2. old \in Seq(Views) /\ \A i \in 1..Len(old) : Of(old[i], th)
  BY <1>1 DEF ItemsOK
<1>3. Joined(t, page) = z
  BY <1>1 DEF Joined, TabType
<1>4. /\ older \in Seq(Views)
      /\ \A i \in 1..Len(older) : Of(older[i], th) /\ older[i].id \in Ids(page.items)
      /\ \A x \in Ids(page.items) : x \in Ids(old) \/ x \in Ids(older)
  BY <1>2, NotShownIs
<1> HIDE DEF older, old
<1>5. /\ items \in Seq(Views) /\ Len(items) = Len(old) + Len(older) /\ Len(old) \in Nat /\ Len(older) \in Nat
      /\ \A i \in 1..Len(old) : items[i] = old[i]
      /\ \A i \in 1..Len(older) : items[Len(old) + i] = older[i]
  BY <1>2, <1>4
<1> HIDE DEF items
<1>6. \A i \in 1..Len(items) :
        \/ i \in 1..Len(old) /\ items[i] = old[i]
        \/ i - Len(old) \in 1..Len(older) /\ items[i] = older[i - Len(old)]
  <2> TAKE i \in 1..Len(items)
  <2>1. CASE i <= Len(old)
    BY <1>5, <2>1
  <2>2. CASE i > Len(old)
    <3>1. i - Len(old) \in 1..Len(older) /\ Len(old) + (i - Len(old)) = i
      BY <1>5, <2>2
    <3>2. items[Len(old) + (i - Len(old))] = older[i - Len(old)]
      BY <1>5, <3>1
    <3> QED
      BY <3>1, <3>2
  <2> QED
    BY <1>5, <2>1, <2>2
<1>7. \A i \in 1..Len(items) : Of(items[i], th)
  BY <1>2, <1>4, <1>6
<1>8. \A x : x \in Ids(old) \/ x \in Ids(older) => x \in Ids(items)
  <2> TAKE x
  <2>1. ASSUME x \in Ids(old) PROVE x \in Ids(items)
    <3>1. PICK i \in 1..Len(old) : old[i].id = x
      BY <1>2, <2>1, IdsAre
    <3>2. i \in 1..Len(items) /\ items[i].id = x
      BY <1>5, <3>1
    <3> QED
      BY <1>5, <3>2, IdsAre
  <2>2. ASSUME x \in Ids(older) PROVE x \in Ids(items)
    <3>1. PICK i \in 1..Len(older) : older[i].id = x
      BY <1>4, <2>2, IdsAre
    <3>2. Len(old) + i \in 1..Len(items) /\ items[Len(old) + i].id = x
      BY <1>5, <3>1
    <3> QED
      BY <1>5, <3>2, IdsAre
  <2> QED
    BY <2>1, <2>2
<1>9. seams \subseteq Nat /\ t.seams \subseteq seams /\ (older # <<>> => older[1].id \in seams)
  <2>1. t.seams \subseteq Nat
    BY <1>1 DEF TabType
  <2>2. older # <<>> => older[1].id \in Nat
    BY <1>4, <1>5, OfIs
  <2> QED
    BY <2>1, <2>2
<1> HIDE DEF seams
<1>10. ASSUME NEW i \in 1..(Len(items) - 1) PROVE Beside(items, seams, m, i)
  <2>1. i \in Nat /\ i \in 1..Len(items) /\ i + 1 \in 1..Len(items)
    BY <1>5
  <2>2. CASE i < Len(old)
    <3>1. i \in 1..(Len(old) - 1) /\ items[i] = old[i] /\ items[i + 1] = old[i + 1]
      BY <1>5, <2>1, <2>2
    <3>2. Beside(old, t.seams, m, i)
      BY <1>1, <3>1 DEF ItemsOK, old
    <3> QED
      BY <1>8, <1>9, <3>1, <3>2 DEF Beside
  <2>3. CASE i = Len(old)
    <3>1. 1 \in 1..Len(older) /\ items[Len(old) + 1] = older[1] /\ older # <<>>
      BY <1>5, <2>1, <2>3
    <3> QED
      BY <1>9, <2>3, <3>1 DEF Beside
  <2>4. CASE i > Len(old)
    <3>1. /\ i - Len(old) \in 1..Len(older) /\ items[i] = older[i - Len(old)]
          /\ (i + 1) - Len(old) \in 1..Len(older) /\ items[i + 1] = older[(i + 1) - Len(old)]
      BY <1>5, <1>6, <2>1, <2>4
    <3>2. items[i].id \in Ids(page.items) /\ items[i + 1].id \in Ids(page.items)
      BY <1>4, <3>1
    <3>3. \A k \in Nat : items[i + 1].id < 2 * k /\ 2 * k < items[i].id => 2 * k \in Ids(page.items)
      BY <3>2 DEF Whole
    <3> QED
      BY <1>4, <1>8, <3>3 DEF Beside
  <2> QED
    BY <1>5, <2>1, <2>2, <2>3, <2>4
<1>11. ItemsOK(items, seams, m, th)
  BY <1>5, <1>7, <1>10 DEF ItemsOK
<1>12. z \in TabType /\ z.items = items /\ z.seams = seams /\ z.page = t.page
  <2>1. page.more \in Nat
    BY DEF Pages
  <2> QED
    BY <1>1, <1>5, <1>9, <2>1 DEF TabType
<1>13. Whole(t.page.items, th)
  BY <1>1 DEF TabOK
<1> HIDE DEF z
<1> QED
  BY <1>3, <1>11, <1>12, <1>13 DEF TabOK, Okay

----------------------------------------------------------------------------
(* Everything held stays so when the thread goes on. *)

Keeps(th, th2) ==
  Len(th) <= Len(th2) /\ \A k \in 1..Len(th) : th2[k].author = th[k].author

LEMMA OfStays ==
  ASSUME NEW th, NEW th2, ThreadOK(th), ThreadOK(th2), Keeps(th, th2), NEW v, Of(v, th)
  PROVE  Of(v, th2)
<1>1. PICK p \in 1..Len(th) : v.id = 2 * p /\ v.author = th[p].author
  BY DEF Of
<1>2. p \in 1..Len(th2) /\ th2[p].author = th[p].author
  BY <1>1 DEF Keeps, ThreadOK
<1> QED
  BY <1>1, <1>2 DEF Of

LEMMA WholeStays ==
  ASSUME NEW th, NEW th2, ThreadOK(th), ThreadOK(th2), Keeps(th, th2), NEW items, Whole(items, th)
  PROVE  Whole(items, th2)
BY OfStays DEF Whole

LEMMA TabStays ==
  ASSUME NEW th, NEW th2, ThreadOK(th), ThreadOK(th2), Keeps(th, th2), NEW t, NEW m, Okay(t, m, th)
  PROVE  Okay(t, m, th2)
<1> SUFFICES ASSUME TabOK(t, m, th) PROVE TabOK(t, m, th2)
  BY DEF Okay
<1>1. Whole(t.page.items, th2)
  BY WholeStays DEF TabOK
<1>2. ASSUME t.items # None PROVE ItemsOK(t.items, t.seams, m, th2)
  BY <1>2, OfStays DEF TabOK, ItemsOK
<1> QED
  BY <1>1, <1>2 DEF TabOK

----------------------------------------------------------------------------
(* The inductive invariant. *)

MemberOK(u, th) == u.floor = 2 * u.joined /\ u.joined <= Len(th) /\ u.read = 2 * u.marked
MembersOK(ms, th) ==
  ms \in [Members -> Memberships \cup {None}] /\ \A m \in Members : ms[m] # None => MemberOK(ms[m], th)

FrameOK(f, th) ==
  /\ f \in Frames
  /\ f.kind = "created" => /\ Of(f.message, th) /\ f.message.author = f.origin /\ f.message.id = f.prev + 2
  /\ f.kind = "changed" => Of(f.message, th)
\* A request that committed holds the frame of its change, above the floor of its audience.
Committed == {"quote", "publish", "answer"}
CallOK(req, th) ==
  /\ req.op = "leave" => req.step = "publish" /\ req.frame.kind = "gone"
  /\ req.step = "quote" => req.op = "send"
  /\ req.step \in Committed /\ req.op # "leave" =>
       /\ FrameOK(req.frame, th) /\ req.frame.origin = req.actor
       /\ req.frame.kind = IF req.op = "send" THEN "created" ELSE "changed"
       /\ req.step # "answer" => \A to \in req.to : req.frame.message.id > 2 * to.joined
CallsOK(cs, th) ==
  cs \in [Calls -> CallType \cup {None}] /\ \A c \in Calls : cs[c] # None => CallOK(cs[c], th)
InboxOK(ib, th) ==
  /\ ib \in [Members -> Seq(Frames)]
  /\ \A m \in Members : \A i \in 1..Len(ib[m]) : FrameOK(ib[m][i], th) /\ ib[m][i].kind # "none"
TabsOK(ts, th) ==
  ts \in [Members -> TabType \cup {None}] /\ \A m \in Members : Okay(ts[m], m, th)
PagingOK(pg, th) ==
  pg \in [Members -> PagingType \cup {None}] /\ \A m \in Members : pg[m] # None => Whole(pg[m].page.items, th)
Rooms == [kind : {"default", "group"}, state : {"none", "live", "trash"}]

LiveInv ==
  /\ room \in Rooms /\ NobodyLeavesLast
  /\ ThreadOK(thread) /\ MembersOK(members, thread) /\ CallsOK(calls, thread)
  /\ InboxOK(inbox, thread) /\ TabsOK(tabs, thread) /\ PagingOK(paging, thread)
\* A room that was deleted for good is empty and stays so.
Over ==
  room = [kind |-> "group", state |-> "gone"] /\ thread = <<>> /\ members = [m \in Members |-> None]
ThreadInv == LiveInv \/ Over

LEMMA MaxIs ==
  ASSUME NEW S, S \subseteq Int, NEW x \in S, \A y \in S : x >= y
  PROVE  Max(S) = x
<1>1. Max(S) \in S /\ \A y \in S : Max(S) >= y
  BY DEF Max
<1>2. Max(S) \in Int /\ x \in Int /\ Max(S) >= x /\ x >= Max(S)
  BY <1>1
<1> QED
  BY <1>2

LEMMA NewestIs ==
  ASSUME ThreadOK(thread)
  PROVE  Newest = 2 * Len(thread) /\ Len(thread) \in Nat
<1> DEFINE S == {thread[k].id : k \in Places} \cup {0}
<1>1. Len(thread) \in Nat /\ \A k \in Places : thread[k].id = 2 * k /\ k \in Nat /\ 1 <= k /\ k <= Len(thread)
  BY DEF ThreadOK, Places
<1>2. \A x \in S : x \in Int /\ x <= 2 * Len(thread)
  BY <1>1
<1>3. 2 * Len(thread) \in S
  <2>1. CASE Len(thread) = 0
    BY <2>1
  <2>2. CASE Len(thread) # 0
    <3>1. Len(thread) \in Places
      BY <1>1, <2>2 DEF Places
    <3> QED
      BY <1>1, <3>1
  <2> QED
    BY <2>1, <2>2
<1> HIDE DEF S
<1>4. Max(S) = 2 * Len(thread)
  BY <1>1, <1>2, <1>3, MaxIs
<1> QED
  BY <1>1, <1>4 DEF Newest, S

----------------------------------------------------------------------------
(* One place of a function changes. *)

LEMMA TabSet ==
  ASSUME NEW ts, NEW th, TabsOK(ts, th), NEW m \in Members, NEW t, Okay(t, m, th)
  PROVE  TabsOK([ts EXCEPT ![m] = t], th)
<1>1. t \in TabType \cup {None}
  BY DEF Okay, TabOK
<1> QED
  BY <1>1 DEF TabsOK

LEMMA CallSet ==
  ASSUME NEW cs, NEW th, CallsOK(cs, th), NEW c \in Calls, NEW req \in CallType \cup {None},
         req # None => CallOK(req, th)
  PROVE  CallsOK([cs EXCEPT ![c] = req], th)
BY DEF CallsOK

LEMMA PageSet ==
  ASSUME NEW pg, NEW th, PagingOK(pg, th), NEW m \in Members, NEW p \in PagingType \cup {None},
         p # None => Whole(p.page.items, th)
  PROVE  PagingOK([pg EXCEPT ![m] = p], th)
BY DEF PagingOK

\* The thread goes on, and all that is held of it stays.
LEMMA HeldStays ==
  ASSUME NEW th, NEW th2, ThreadOK(th), ThreadOK(th2), Keeps(th, th2)
  PROVE  /\ \A ms : MembersOK(ms, th) => MembersOK(ms, th2)
         /\ \A cs : CallsOK(cs, th) => CallsOK(cs, th2)
         /\ \A ib : InboxOK(ib, th) => InboxOK(ib, th2)
         /\ \A ts : TabsOK(ts, th) => TabsOK(ts, th2)
         /\ \A pg : PagingOK(pg, th) => PagingOK(pg, th2)
<1>1. \A ms : MembersOK(ms, th) => MembersOK(ms, th2)
  <2> SUFFICES ASSUME NEW ms, MembersOK(ms, th), NEW m \in Members, ms[m] # None PROVE MemberOK(ms[m], th2)
    BY DEF MembersOK
  <2>1. MemberOK(ms[m], th) /\ ms[m] \in Memberships
    BY DEF MembersOK
  <2>2. ms[m].joined \in Nat /\ Len(th) \in Nat /\ Len(th2) \in Nat /\ Len(th) <= Len(th2)
    BY <2>1 DEF Memberships, Keeps, ThreadOK
  <2> QED
    BY <2>1, <2>2 DEF MemberOK
<1>2. \A f : FrameOK(f, th) => FrameOK(f, th2)
  BY OfStays DEF FrameOK
<1>3. \A req : CallOK(req, th) => CallOK(req, th2)
  BY <1>2 DEF CallOK
<1>4. \A cs : CallsOK(cs, th) => CallsOK(cs, th2)
  BY <1>3 DEF CallsOK
<1>5. \A ib : InboxOK(ib, th) => InboxOK(ib, th2)
  BY <1>2 DEF InboxOK
<1>6. \A ts : TabsOK(ts, th) => TabsOK(ts, th2)
  BY TabStays DEF TabsOK
<1>7. \A pg : PagingOK(pg, th) => PagingOK(pg, th2)
  BY WholeStays DEF PagingOK
<1> QED
  BY <1>1, <1>4, <1>5, <1>6, <1>7

\* What goes on around the room leaves it and the thread.
Outside == UNCHANGED <<room, members, thread>>
LEMMA OutsideKeeps ==
  ASSUME LiveInv, Outside, CallsOK(calls', thread), InboxOK(inbox', thread), TabsOK(tabs', thread),
         PagingOK(paging', thread)
  PROVE  LiveInv'
BY DEF LiveInv, Outside, NobodyLeavesLast, MemberIDs

----------------------------------------------------------------------------
(* The steps of a tab. *)

LEMMA OpensKeeps ==
  ASSUME ChatConstants, LiveInv, NEW m \in Members, Opens(m)
  PROVE  LiveInv'
<1> DEFINE t == IF tabs[m] = None THEN Fresh ELSE Invalidated(tabs[m])
<1>1. Okay(tabs[m], m, thread) /\ ThreadOK(thread)
  BY DEF LiveInv, TabsOK
<1>2. Okay(t, m, thread)
  BY <1>1, FreshIs, InvalidatedIs DEF Okay
<1> HIDE DEF t
<1>3. TabsOK([tabs EXCEPT ![m] = t], thread)
  BY <1>2, TabSet DEF LiveInv
<1>4. tabs' = [tabs EXCEPT ![m] = t] /\ Outside /\ UNCHANGED <<calls, inbox, paging>>
  BY DEF Opens, Outside, t
<1> QED
  BY <1>3, <1>4, OutsideKeeps DEF LiveInv

LEMMA FetchIsReadKeeps ==
  ASSUME ChatConstants, LiveInv, NEW m \in Members, FetchIsRead(m)
  PROVE  LiveInv'
<1> DEFINE old == tabs[m]
           page == Page(members[m].floor, 0, old.limit)
           t == IF InRoom(m) THEN [old EXCEPT !.fetch = "read", !.page = page] ELSE [old EXCEPT !.fetch = "no"]
<1>1. Okay(old, m, thread) /\ ThreadOK(thread) /\ old # None
  BY DEF LiveInv, TabsOK, FetchIsRead, Asking
<1>2. TabOK(old, m, thread) /\ old \in TabType
  BY <1>1 DEF Okay, TabOK
<1>3. ASSUME InRoom(m) PROVE page \in Pages /\ Whole(page.items, thread)
  <2>1. members[m].floor \in Nat
    BY <1>3 DEF LiveInv, MembersOK, InRoom, Memberships
  <2>2. old.limit \in Nat \ {0}
    BY <1>2 DEF TabType
  <2> QED
    BY <1>1, <2>1, <2>2, PageIsWhole
<1> HIDE DEF page, old
<1>4. Okay(t, m, thread)
  <2>1. CASE InRoom(m)
    <3>1. t \in TabType /\ t.items = old.items /\ t.seams = old.seams /\ t.page = page
      BY <1>2, <1>3, <2>1 DEF TabType
    <3> HIDE DEF t
    <3> QED
      BY <1>2, <1>3, <2>1, <3>1 DEF Okay, TabOK
  <2>2. CASE ~InRoom(m)
    <3>1. t \in TabType /\ t.items = old.items /\ t.seams = old.seams /\ t.page = old.page
      BY <1>2, <2>2 DEF TabType
    <3> HIDE DEF t
    <3> QED
      BY <1>2, <2>2, <3>1 DEF Okay, TabOK
  <2> QED
    BY <2>1, <2>2
<1>5. tabs' = [tabs EXCEPT ![m] = t] /\ Outside /\ UNCHANGED <<calls, inbox, paging>>
  BY DEF FetchIsRead, Outside, old, page
<1> HIDE DEF t
<1>6. TabsOK([tabs EXCEPT ![m] = t], thread)
  BY <1>4, TabSet DEF LiveInv
<1> QED
  BY <1>5, <1>6, OutsideKeeps DEF LiveInv

LEMMA FetchLandsKeeps ==
  ASSUME ChatConstants, LiveInv, NEW m \in Members, FetchLands(m)
  PROVE  LiveInv'
<1> DEFINE old == tabs[m]
           t == [old EXCEPT !.items = old.page.items, !.more = old.page.more, !.fetch = "no",
                            !.page = Fresh.page, !.seams = {}]
<1>1. Okay(old, m, thread) /\ ThreadOK(thread) /\ old # None
  BY DEF LiveInv, TabsOK, FetchLands
<1>2. TabOK(old, m, thread) /\ old \in TabType /\ old.page \in Pages /\ Whole(old.page.items, thread)
  BY <1>1 DEF Okay, TabOK, TabType
<1>3. ItemsOK(old.page.items, {}, m, thread)
  BY <1>1, <1>2, WholeItemsOK
<1>4. Fresh.page \in Pages /\ Whole(Fresh.page.items, thread)
  BY <1>1, FreshIs
<1> HIDE DEF old
<1>5. t \in TabType /\ t.items = old.page.items /\ t.seams = {} /\ t.page = Fresh.page
  BY <1>2, <1>4 DEF TabType, Pages
<1>6. tabs' = [tabs EXCEPT ![m] = t] /\ Outside /\ UNCHANGED <<calls, inbox, paging>>
  BY DEF FetchLands, Outside, old
<1> HIDE DEF t
<1>7. Okay(t, m, thread)
  BY <1>3, <1>4, <1>5 DEF Okay, TabOK
<1>8. TabsOK([tabs EXCEPT ![m] = t], thread)
  BY <1>7, TabSet DEF LiveInv
<1> QED
  BY <1>6, <1>8, OutsideKeeps DEF LiveInv

LEMMA AsksOlderKeeps ==
  ASSUME ChatConstants, LiveInv, NEW m \in Members, AsksOlder(m)
  PROVE  LiveInv'
<1> DEFINE p == [cursor |-> tabs[m].more, read |-> FALSE, page |-> Fresh.page]
<1>1. Okay(tabs[m], m, thread) /\ ThreadOK(thread) /\ tabs[m] # None
  BY DEF LiveInv, TabsOK, AsksOlder, Cached
<1>2. tabs[m].more \in Nat
  BY <1>1 DEF Okay, TabOK, TabType
<1>3. Fresh.page \in Pages /\ Whole(Fresh.page.items, thread)
  BY <1>1, FreshIs
<1>4. p \in PagingType /\ p.page = Fresh.page
  BY <1>2, <1>3 DEF PagingType
<1>5. paging' = [paging EXCEPT ![m] = p] /\ Outside /\ UNCHANGED <<calls, inbox, tabs>>
  BY DEF AsksOlder, Outside
<1> HIDE DEF p
<1>6. PagingOK([paging EXCEPT ![m] = p], thread)
  BY <1>3, <1>4, PageSet DEF LiveInv
<1> QED
  BY <1>5, <1>6, OutsideKeeps DEF LiveInv

LEMMA OlderIsReadKeeps ==
  ASSUME ChatConstants, LiveInv, NEW m \in Members, OlderIsRead(m)
  PROVE  LiveInv'
<1> DEFINE old == paging[m]
           page == Page(members[m].floor, old.cursor, PageSize)
           p == IF InRoom(m) THEN [old EXCEPT !.read = TRUE, !.page = page] ELSE None
<1>1. old # None /\ ThreadOK(thread) /\ old \in PagingType
  BY DEF LiveInv, PagingOK, OlderIsRead
<1>2. ASSUME InRoom(m) PROVE page \in Pages /\ Whole(page.items, thread)
  <2>1. members[m].floor \in Nat
    BY <1>2 DEF LiveInv, MembersOK, InRoom, Memberships
  <2>2. old.cursor \in Nat /\ PageSize \in Nat \ {0}
    BY <1>1 DEF PagingType, ChatConstants
  <2> QED
    BY <1>1, <2>1, <2>2, PageIsWhole
<1> HIDE DEF page, old
<1>3. p \in PagingType \cup {None} /\ (p # None => Whole(p.page.items, thread))
  BY <1>1, <1>2 DEF PagingType
<1>4. paging' = [paging EXCEPT ![m] = p] /\ Outside /\ UNCHANGED <<calls, inbox, tabs>>
  BY DEF OlderIsRead, Outside, old, page
<1> HIDE DEF p
<1>5. PagingOK([paging EXCEPT ![m] = p], thread)
  BY <1>3, PageSet DEF LiveInv
<1> QED
  BY <1>4, <1>5, OutsideKeeps DEF LiveInv

LEMMA OlderLandsKeeps ==
  ASSUME ChatConstants, LiveInv, NEW m \in Members, OlderLands(m)
  PROVE  LiveInv'
<1> DEFINE t == IF Cached(tabs[m]) THEN Joined(tabs[m], paging[m].page) ELSE tabs[m]
<1>1. Okay(tabs[m], m, thread) /\ ThreadOK(thread) /\ paging[m] \in PagingType /\ Whole(paging[m].page.items, thread)
  BY DEF LiveInv, TabsOK, PagingOK, OlderLands
<1>2. paging[m].page \in Pages
  BY <1>1 DEF PagingType
<1>3. Okay(t, m, thread)
  BY <1>1, <1>2, JoinedIs
<1>4. tabs' = [tabs EXCEPT ![m] = t] /\ paging' = [paging EXCEPT ![m] = None] /\ Outside /\ UNCHANGED <<calls, inbox>>
  BY DEF OlderLands, Outside
<1> HIDE DEF t
<1>5. TabsOK([tabs EXCEPT ![m] = t], thread) /\ PagingOK([paging EXCEPT ![m] = None], thread)
  BY <1>3, TabSet, PageSet DEF LiveInv
<1> QED
  BY <1>4, <1>5, OutsideKeeps DEF LiveInv

LEMMA ReceivesKeeps ==
  ASSUME ChatConstants, LiveInv, NEW m \in Members, Receives(m)
  PROVE  LiveInv'
<1> DEFINE f == Head(inbox[m])
           t == IF tabs[m] = None THEN None ELSE ApplyChatFrame(tabs[m], m, f)
<1>1. Okay(tabs[m], m, thread) /\ ThreadOK(thread) /\ inbox[m] \in Seq(Frames) /\ inbox[m] # <<>>
  BY DEF LiveInv, TabsOK, InboxOK, Receives
<1>2. f = inbox[m][1] /\ 1 \in 1..Len(inbox[m])
  BY <1>1
<1>3. FrameOK(f, thread) /\ f.kind # "none" /\ f \in Frames
  BY <1>2 DEF LiveInv, InboxOK, FrameOK
<1> HIDE DEF f
<1>4. f.kind \in {"created", "changed", "gone"}
  BY <1>3 DEF Frames
<1>5. Okay(t, m, thread)
  <2> SUFFICES ASSUME tabs[m] # None PROVE Okay(ApplyChatFrame(tabs[m], m, f), m, thread)
    BY DEF Okay
  <2>1. CASE f.kind = "gone"
    BY <2>1 DEF ApplyChatFrame, Okay
  <2>2. CASE f.kind = "changed"
    <3>1. ApplyChatFrame(tabs[m], m, f) = Replaced(tabs[m], f.message)
      BY <2>2 DEF ApplyChatFrame
    <3> QED
      BY <1>1, <1>3, <2>2, <3>1, ReplacedIs DEF FrameOK
  <2>3. CASE f.kind = "created"
    <3>1. CASE IsGap(tabs[m], m, f)
      <4>1. ApplyChatFrame(tabs[m], m, f) = Invalidated(tabs[m])
        BY <2>3, <3>1 DEF ApplyChatFrame
      <4> QED
        BY <1>1, <4>1, InvalidatedIs
    <3>2. CASE ~IsGap(tabs[m], m, f)
      <4>1. ApplyChatFrame(tabs[m], m, f) = Appended(tabs[m], f.message)
        BY <2>3, <3>2 DEF ApplyChatFrame
      <4>2. Of(f.message, thread) /\ f.message.author = f.origin /\ f.message.id = f.prev + 2
        BY <1>3, <2>3 DEF FrameOK
      <4>3. f.origin = m \/ f.prev = 0 \/ f.prev = NewestInCache(tabs[m])
        BY <3>2 DEF IsGap
      <4>4. f.message.author = m \/ f.message.id = 2 \/ f.message.id = NewestInCache(tabs[m]) + 2
        BY <4>2, <4>3
      <4> QED
        BY <1>1, <4>1, <4>2, <4>4, AppendedIs
    <3> QED
      BY <3>1, <3>2
  <2> QED
    BY <1>4, <2>1, <2>2, <2>3
<1>6. /\ tabs' = [tabs EXCEPT ![m] = t] /\ inbox' = [inbox EXCEPT ![m] = Tail(inbox[m])]
      /\ Outside /\ UNCHANGED <<calls, paging>>
  BY DEF Receives, Outside, f
<1> HIDE DEF t
<1>7. TabsOK([tabs EXCEPT ![m] = t], thread)
  BY <1>5, TabSet DEF LiveInv
<1>8. InboxOK([inbox EXCEPT ![m] = Tail(inbox[m])], thread)
  <2> DEFINE rest == Tail(inbox[m])
  <2>1. rest \in Seq(Frames) /\ \A i \in 1..Len(rest) : i + 1 \in 1..Len(inbox[m]) /\ rest[i] = inbox[m][i + 1]
    BY <1>1
  <2>2. \A i \in 1..Len(rest) : FrameOK(rest[i], thread) /\ rest[i].kind # "none"
    BY <2>1 DEF LiveInv, InboxOK
  <2> HIDE DEF rest
  <2> QED
    BY <2>1, <2>2 DEF LiveInv, InboxOK, rest
<1> QED
  BY <1>6, <1>7, <1>8, OutsideKeeps DEF LiveInv

----------------------------------------------------------------------------
(* The steps of a request. *)

LEMMA OfferedIs ==
  ASSUME ChatConstants, LiveInv, NEW m \in Members, NEW id \in Offered(m)
  PROVE  id \in Nat
<1>1. Ids(Items(tabs[m])) \subseteq Nat
  BY CachedIs DEF LiveInv, TabsOK
<1>2. \A k \in Places : thread[k].id \in Nat
  BY DEF LiveInv, ThreadOK, Places
<1> QED
  BY <1>1, <1>2 DEF Offered

LEMMA SoonIs ==
  ASSUME LiveInv
  PROVE  Soon \in Nat
BY DEF Soon, LiveInv, ThreadOK

LEMMA AskedOK ==
  ASSUME NEW req, req.step \in {"asked", "failed"}, req.op # "leave", NEW th
  PROVE  CallOK(req, th)
BY DEF CallOK, Committed

LEMMA AsksToSendKeeps ==
  ASSUME ChatConstants, LiveInv, NEW c \in Calls, NEW m \in Members, NEW reply \in Nat, AsksToSend(c, m, reply)
  PROVE  LiveInv'
<1> DEFINE r == Request("send", m, reply, TRUE)
<1>1. r \in CallType /\ r.op = "send" /\ r.step = "asked"
  BY SoonIs DEF Request, CallType, Frames
<1> HIDE DEF r
<1>2. CallsOK([calls EXCEPT ![c] = r], thread)
  BY <1>1, AskedOK, CallSet DEF LiveInv
<1>3. calls' = [calls EXCEPT ![c] = r] /\ Outside /\ UNCHANGED <<inbox, tabs, paging>>
  BY DEF AsksToSend, Starts, Outside, r
<1> QED
  BY <1>2, <1>3, OutsideKeeps DEF LiveInv

LEMMA AsksToChangeKeeps ==
  ASSUME ChatConstants, LiveInv, NEW c \in Calls, NEW op, NEW m \in Members, NEW id \in Nat, AsksToChange(c, op, m, id)
  PROVE  LiveInv'
<1> DEFINE r == Request(op, m, id, TRUE)
<1>1. r \in CallType /\ r.op \in {"edit", "delete"} /\ r.step = "asked"
  BY SoonIs DEF AsksToChange, Request, CallType, Frames
<1> HIDE DEF r
<1>2. CallsOK([calls EXCEPT ![c] = r], thread)
  BY <1>1, AskedOK, CallSet DEF LiveInv
<1>3. calls' = [calls EXCEPT ![c] = r] /\ Outside /\ UNCHANGED <<inbox, tabs, paging>>
  BY DEF AsksToChange, Starts, Outside, r
<1> QED
  BY <1>2, <1>3, OutsideKeeps DEF LiveInv

LEMMA AsksToReactKeeps ==
  ASSUME ChatConstants, LiveInv, NEW c \in Calls, NEW m \in Members, NEW id \in Nat, NEW on \in BOOLEAN,
         AsksToReact(c, m, id, on)
  PROVE  LiveInv'
<1> DEFINE shown == IF Shows(tabs[m], id) THEN (m \in CachedMessage(tabs[m], id).reactions) # on ELSE FALSE
           r == [Request("react", m, id, on) EXCEPT !.applied = shown]
           t == IF shown THEN Replaced(tabs[m], ApplyReaction(CachedMessage(tabs[m], id), m, on)) ELSE tabs[m]
<1>1. shown \in BOOLEAN
  OBVIOUS
<1>2. shown => Shows(tabs[m], id)
  OBVIOUS
<1>3. /\ calls' = [calls EXCEPT ![c] = r] /\ tabs' = [tabs EXCEPT ![m] = t]
      /\ Outside /\ UNCHANGED <<inbox, paging>>
  BY DEF AsksToReact, Starts, Outside
<1> HIDE DEF shown
<1>4. r \in CallType /\ r.op = "react" /\ r.step = "asked"
  <2> DEFINE q == Request("react", m, id, on)
  <2>1. q \in CallType /\ q.op = "react" /\ q.step = "asked"
    BY SoonIs DEF Request, CallType, Frames
  <2> HIDE DEF q
  <2> QED
    BY <1>1, <2>1 DEF CallType, q
<1>5. Okay(tabs[m], m, thread) /\ ThreadOK(thread)
  BY DEF LiveInv, TabsOK
<1>6. Okay(t, m, thread)
  BY <1>2, <1>5, MarkedIs
<1> HIDE DEF r, t
<1>7. CallsOK([calls EXCEPT ![c] = r], thread)
  BY <1>4, AskedOK, CallSet DEF LiveInv
<1>8. TabsOK([tabs EXCEPT ![m] = t], thread)
  BY <1>6, TabSet DEF LiveInv
<1> QED
  BY <1>3, <1>7, <1>8, OutsideKeeps DEF LiveInv

LEMMA RefusedKeeps ==
  ASSUME ChatConstants, LiveInv, NEW c \in Calls, calls[c] # None, calls[c].step = "asked", Refused(c)
  PROVE  LiveInv'
<1> DEFINE r == [calls[c] EXCEPT !.step = "failed"]
<1>1. calls[c] \in CallType /\ CallOK(calls[c], thread)
  BY DEF LiveInv, CallsOK
<1>2. calls[c].op # "leave"
  BY <1>1 DEF CallOK
<1>3. r \in CallType /\ r.op # "leave" /\ r.step = "failed"
  BY <1>1, <1>2 DEF CallType
<1>4. calls' = [calls EXCEPT ![c] = r] /\ Outside /\ UNCHANGED <<inbox, tabs, paging>>
  BY DEF Refused, Outside
<1> HIDE DEF r
<1>5. CallsOK([calls EXCEPT ![c] = r], thread)
  BY <1>3, AskedOK, CallSet DEF LiveInv
<1> QED
  BY <1>4, <1>5, OutsideKeeps DEF LiveInv

\* A change that commits: the thread goes on, and the request holds its frame.
LEMMA CommitKeeps ==
  ASSUME ChatConstants, LiveInv, NEW c \in Calls, calls[c] # None, calls[c].op # "leave",
         ThreadOK(thread'), Keeps(thread, thread'),
         NEW frame, NEW to, NEW step \in {"quote", "publish"}, step = "quote" => calls[c].op = "send",
         InRoom(calls[c].actor),
         FrameOK(frame, thread'), frame.origin = calls[c].actor,
         frame.kind = IF calls[c].op = "send" THEN "created" ELSE "changed",
         to \subseteq [member : Members, joined : Nat], \A x \in to : frame.message.id > 2 * x.joined,
         Commits(c, frame, to, step), UNCHANGED <<room, members, inbox, tabs, paging>>
  PROVE  LiveInv'
<1> DEFINE r == [calls[c] EXCEPT !.step = step, !.frame = frame, !.to = to, !.floor = members[calls[c].actor].floor]
<1>1. calls[c] \in CallType
  BY DEF LiveInv, CallsOK
<1>2. members[calls[c].actor].floor \in Nat
  BY <1>1 DEF LiveInv, MembersOK, InRoom, Memberships, CallType
<1>3. frame \in Frames
  BY DEF FrameOK
<1>4. /\ r \in CallType /\ r.op = calls[c].op /\ r.step = step /\ r.frame = frame /\ r.to = to
      /\ r.actor = calls[c].actor
  BY <1>1, <1>2, <1>3 DEF CallType
<1>5. calls' = [calls EXCEPT ![c] = r]
  BY DEF Commits
<1> HIDE DEF r
<1>6. CallOK(r, thread')
  BY <1>4 DEF CallOK
<1>7. /\ MembersOK(members, thread') /\ CallsOK(calls, thread') /\ InboxOK(inbox, thread') /\ TabsOK(tabs, thread')
      /\ PagingOK(paging, thread')
  BY HeldStays DEF LiveInv
<1>8. CallsOK([calls EXCEPT ![c] = r], thread')
  BY <1>4, <1>6, <1>7, CallSet
<1> QED
  BY <1>5, <1>7, <1>8 DEF LiveInv, NobodyLeavesLast, MemberIDs

LEMMA SendMessageKeeps ==
  ASSUME ChatConstants, LiveInv, NEW c \in Calls, SendMessage(c)
  PROVE  LiveInv'
<1> DEFINE m == calls[c].actor
           reply == calls[c].target
           row == [id |-> Minted(c), author |-> m, reply |-> reply, body |-> 1, deleted |-> FALSE, reactions |-> {}]
           sent == [id |-> row.id, author |-> m, body |-> 1, deleted |-> FALSE, reactions |-> {}, quote |-> FALSE]
           frame == [kind |-> "created", origin |-> m, prev |-> Newest, message |-> sent]
           step == IF reply = 0 THEN "publish" ELSE "quote"
<1>1. calls[c] # None /\ calls[c].op = "send" /\ calls[c].step = "asked"
  BY DEF SendMessage, At
<1>2. calls[c] \in CallType /\ m \in Members /\ reply \in Nat
  BY <1>1 DEF LiveInv, CallsOK, CallType
<1>3. \/ Refused(c)
      \/ /\ InRoom(m) /\ thread' = Append(thread, row) /\ Commits(c, frame, Since(MemberIDs), step)
         /\ UNCHANGED <<room, members, inbox, tabs, paging>>
  BY DEF SendMessage
<1> SUFFICES ASSUME InRoom(m), thread' = Append(thread, row), Commits(c, frame, Since(MemberIDs), step),
                    UNCHANGED <<room, members, inbox, tabs, paging>>
             PROVE  LiveInv'
  BY <1>1, <1>3, RefusedKeeps
<1>4. ThreadOK(thread) /\ Newest = 2 * Len(thread) /\ Len(thread) \in Nat /\ thread \in Seq(Rows)
  BY NewestIs DEF LiveInv, ThreadOK
<1>5. row \in Rows /\ row.id = 2 * (Len(thread) + 1) /\ row.author = m
  BY <1>2, <1>4 DEF Minted, Rows
<1>6. sent \in Views /\ sent.id = 2 * (Len(thread) + 1) /\ sent.author = m
  BY <1>2, <1>4 DEF Minted, Views
<1>7. frame \in Frames /\ frame.kind = "created" /\ frame.origin = m /\ frame.prev = 2 * Len(thread) /\ frame.message = sent
  BY <1>2, <1>4, <1>6 DEF Frames
<1> HIDE DEF row, sent, frame
<1>8. /\ thread' \in Seq(Rows) /\ Len(thread') = Len(thread) + 1 /\ thread'[Len(thread) + 1] = row
      /\ \A k \in 1..Len(thread) : thread'[k] = thread[k]
  BY <1>4, <1>5
<1>9. ThreadOK(thread') /\ Keeps(thread, thread')
  <2>1. ASSUME NEW k \in 1..Len(thread') PROVE thread'[k].id = 2 * k
    <3>1. CASE k = Len(thread) + 1
      BY <1>5, <1>8, <3>1
    <3>2. CASE k # Len(thread) + 1
      <4>1. k \in 1..Len(thread)
        BY <1>4, <1>8, <3>2
      <4> QED
        BY <1>4, <1>8, <4>1 DEF ThreadOK
    <3> QED
      BY <3>1, <3>2
  <2> QED
    BY <1>4, <1>8, <2>1 DEF ThreadOK, Keeps
<1>10. Of(sent, thread')
  <2>1. Len(thread) + 1 \in 1..Len(thread')
    BY <1>4, <1>8
  <2> QED
    BY <1>5, <1>6, <1>8, <2>1 DEF Of
<1>11. FrameOK(frame, thread')
  BY <1>4, <1>6, <1>7, <1>10 DEF FrameOK
<1>12. /\ Since(MemberIDs) \subseteq [member : Members, joined : Nat]
       /\ \A x \in Since(MemberIDs) : frame.message.id > 2 * x.joined
  <2>1. ASSUME NEW u \in MemberIDs PROVE u \in Members /\ members[u].joined \in Nat /\ members[u].joined <= Len(thread)
    BY DEF MemberIDs, LiveInv, MembersOK, MemberOK, Memberships
  <2> QED
    BY <1>4, <1>6, <1>7, <2>1 DEF Since
<1>13. step \in {"quote", "publish"}
  OBVIOUS
<1> HIDE DEF step
<1> QED
  BY <1>1, <1>7, <1>9, <1>11, <1>12, <1>13, CommitKeeps

LEMMA QuoteIsReadKeeps ==
  ASSUME ChatConstants, LiveInv, NEW c \in Calls, QuoteIsRead(c)
  PROVE  LiveInv'
<1> DEFINE req == calls[c]
           q == Quote(req.floor, req.target)
           v == [req.frame.message EXCEPT !.quote = q]
           f == [req.frame EXCEPT !.message = v]
           r == [req EXCEPT !.step = "publish", !.frame = f]
<1>1. req # None /\ req.op = "send" /\ req.step = "quote"
  BY DEF QuoteIsRead, At
<1>2. req \in CallType /\ CallOK(req, thread)
  BY <1>1 DEF LiveInv, CallsOK
<1>3. /\ FrameOK(req.frame, thread) /\ req.frame.origin = req.actor /\ req.frame.kind = "created"
      /\ \A to \in req.to : req.frame.message.id > 2 * to.joined
  BY <1>1, <1>2 DEF CallOK, Committed
<1>4. req.frame \in Frames /\ Of(req.frame.message, thread) /\ req.frame.message \in Views
  BY <1>3 DEF FrameOK, Of
<1>5. q \in BOOLEAN
  BY DEF Quote, MessageByID
<1>6. /\ calls' = [calls EXCEPT ![c] = r] /\ Outside /\ UNCHANGED <<inbox, tabs, paging>>
  BY <1>2, <1>4 DEF QuoteIsRead, Outside, CallType, Frames
<1> HIDE DEF q, req
<1>7. v \in Views /\ v.id = req.frame.message.id /\ v.author = req.frame.message.author
  BY <1>4, <1>5 DEF Views
<1> HIDE DEF v
<1>8. Of(v, thread)
  BY <1>4, <1>7 DEF Of
<1>9. f \in Frames /\ f.kind = "created" /\ f.origin = req.actor /\ f.message = v /\ f.prev = req.frame.prev
  BY <1>3, <1>4, <1>7 DEF Frames
<1> HIDE DEF f
<1>10. FrameOK(f, thread)
  BY <1>3, <1>7, <1>8, <1>9 DEF FrameOK
<1>11. r \in CallType /\ r.op = "send" /\ r.step = "publish" /\ r.frame = f /\ r.to = req.to /\ r.actor = req.actor
  BY <1>1, <1>2, <1>9 DEF CallType
<1> HIDE DEF r
<1>12. CallOK(r, thread)
  BY <1>3, <1>7, <1>9, <1>10, <1>11 DEF CallOK
<1>13. CallsOK([calls EXCEPT ![c] = r], thread)
  BY <1>11, <1>12, CallSet DEF LiveInv
<1> QED
  BY <1>6, <1>13, OutsideKeeps DEF LiveInv

\* A row that is changed keeps its id and its author.
LEMMA ChangesKeeps ==
  ASSUME ChatConstants, LiveInv, NEW c \in Calls, calls[c] # None, calls[c].op \in {"edit", "delete", "react"},
         ScopeForMessage(calls[c].actor, calls[c].target),
         NEW row \in Rows, NEW shown \in Rows, row.id = thread[PlaceOf(calls[c].target)].id, shown.id = row.id,
         row.author = thread[PlaceOf(calls[c].target)].author, shown.author = row.author,
         Changes(c, row, shown)
  PROVE  LiveInv'
<1> DEFINE m == calls[c].actor
           p == PlaceOf(calls[c].target)
           frame == [kind |-> "changed", origin |-> m, prev |-> 0, message |-> Rendered(members[m].floor, shown)]
           to == Since(MemberIDsAbove(row.id))
<1>1. calls[c] \in CallType /\ m \in Members
  BY DEF LiveInv, CallsOK, CallType
<1>2. InRoom(m) /\ members[m].floor \in Nat
  BY <1>1 DEF ScopeForMessage, InRoom, LiveInv, MembersOK, Memberships
<1>3. ThreadOK(thread) /\ thread \in Seq(Rows) /\ Len(thread) \in Nat
  BY DEF LiveInv, ThreadOK
<1>4. PICK k \in Places : calls[c].target = 2 * k
  <2>1. PICK k \in Places : thread[k].id = calls[c].target
    BY DEF ScopeForMessage, MessageByID, Above
  <2> QED
    BY <1>3, <2>1, PlaceOfIs
<1>5. p = k /\ p \in 1..Len(thread) /\ p \in Nat
  BY <1>3, <1>4, PlaceOfIs DEF Places
<1>6. thread' = [thread EXCEPT ![p] = row] /\ Commits(c, frame, to, "publish") /\ UNCHANGED <<room, members, inbox, tabs, paging>>
  BY DEF Changes
<1> HIDE DEF p
<1>7. /\ thread' \in Seq(Rows) /\ Len(thread') = Len(thread) /\ thread'[p] = row
      /\ \A l \in 1..Len(thread) : l # p => thread'[l] = thread[l]
  BY <1>3, <1>5, <1>6
<1>8. row.id = 2 * p /\ row.author = thread[p].author
  BY <1>3, <1>5 DEF ThreadOK, p
<1>9. ThreadOK(thread') /\ Keeps(thread, thread')
  <2>1. ASSUME NEW l \in 1..Len(thread') PROVE thread'[l].id = 2 * l /\ thread'[l].author = thread[l].author
    <3>1. CASE l = p
      BY <1>7, <1>8, <3>1
    <3>2. CASE l # p
      BY <1>3, <1>7, <3>2 DEF ThreadOK
    <3> QED
      BY <3>1, <3>2
  <2> QED
    BY <1>3, <1>7, <2>1 DEF ThreadOK, Keeps
<1>10. Rendered(members[m].floor, shown) \in Views /\ Rendered(members[m].floor, shown).id = row.id
       /\ Rendered(members[m].floor, shown).author = row.author
  BY <1>2, RenderedIs
<1>11. Of(Rendered(members[m].floor, shown), thread')
  BY <1>5, <1>7, <1>8, <1>10 DEF Of
<1>12. frame \in Frames /\ frame.kind = "changed" /\ frame.origin = m /\ frame.message.id = row.id
       /\ Of(frame.message, thread')
  BY <1>1, <1>10, <1>11 DEF Frames
<1> HIDE DEF frame
<1>13. FrameOK(frame, thread')
  BY <1>12 DEF FrameOK
<1>14. to \subseteq [member : Members, joined : Nat] /\ \A x \in to : frame.message.id > 2 * x.joined
  <2>1. ASSUME NEW u \in MemberIDsAbove(row.id)
        PROVE  u \in Members /\ members[u].joined \in Nat /\ row.id > 2 * members[u].joined
    BY DEF MemberIDsAbove, MemberIDs, LiveInv, MembersOK, MemberOK, Memberships
  <2> QED
    BY <1>12, <2>1 DEF Since
<1> HIDE DEF to
<1> QED
  BY <1>2, <1>6, <1>9, <1>12, <1>13, <1>14, CommitKeeps

\* The message a request is about is one of the thread's.
LEMMA TargetIs ==
  ASSUME LiveInv, NEW m, NEW id, ScopeForMessage(m, id)
  PROVE  PlaceOf(id) \in Places /\ thread[PlaceOf(id)] \in Rows /\ id = 2 * PlaceOf(id) /\ PlaceOf(id) \in Nat
         /\ thread[PlaceOf(id)].id = id
<1>1. ThreadOK(thread)
  BY DEF LiveInv
<1>2. PICK k \in Places : thread[k].id = id
  BY DEF ScopeForMessage, MessageByID, Above
<1> QED
  BY <1>1, <1>2, PlaceOfIs

LEMMA EditMessageKeeps ==
  ASSUME ChatConstants, LiveInv, NEW c \in Calls, EditMessage(c)
  PROVE  LiveInv'
<1> DEFINE old == thread[PlaceOf(calls[c].target)]
           row == [old EXCEPT !.body = @ + 1]
<1>1. calls[c] # None /\ calls[c].op = "edit" /\ calls[c].step = "asked"
  BY DEF EditMessage, At
<1>2. Refused(c) \/ (ScopeForMessage(calls[c].actor, calls[c].target) /\ Changes(c, row, row))
  BY DEF EditMessage
<1>3. CASE Refused(c)
  BY <1>1, <1>3, RefusedKeeps
<1>4. CASE ScopeForMessage(calls[c].actor, calls[c].target) /\ Changes(c, row, row)
  <2>1. old \in Rows
    BY <1>4, TargetIs
  <2>2. row \in Rows /\ row.id = old.id /\ row.author = old.author
    BY <2>1 DEF Rows
  <2> HIDE DEF row
  <2> QED
    BY <1>1, <1>4, <2>2, ChangesKeeps
<1> QED
  BY <1>2, <1>3, <1>4

LEMMA DeleteMessageKeeps ==
  ASSUME ChatConstants, LiveInv, NEW c \in Calls, DeleteMessage(c)
  PROVE  LiveInv'
<1> DEFINE old == thread[PlaceOf(calls[c].target)]
           row == [old EXCEPT !.body = 0, !.deleted = TRUE, !.reactions = {}]
           shown == [row EXCEPT !.reply = 0]
<1>1. calls[c] # None /\ calls[c].op = "delete" /\ calls[c].step = "asked"
  BY DEF DeleteMessage, At
<1>2. Refused(c) \/ (ScopeForMessage(calls[c].actor, calls[c].target) /\ Changes(c, row, shown))
  BY DEF DeleteMessage
<1>3. CASE Refused(c)
  BY <1>1, <1>3, RefusedKeeps
<1>4. CASE ScopeForMessage(calls[c].actor, calls[c].target) /\ Changes(c, row, shown)
  <2>1. old \in Rows
    BY <1>4, TargetIs
  <2>2. row \in Rows /\ row.id = old.id /\ row.author = old.author
    BY <2>1 DEF Rows
  <2> HIDE DEF row
  <2>3. shown \in Rows /\ shown.id = row.id /\ shown.author = row.author
    BY <2>2 DEF Rows
  <2> HIDE DEF shown
  <2> QED
    BY <1>1, <1>4, <2>2, <2>3, ChangesKeeps
<1> QED
  BY <1>2, <1>3, <1>4

LEMMA SetReactionKeeps ==
  ASSUME ChatConstants, LiveInv, NEW c \in Calls, SetReaction(c)
  PROVE  LiveInv'
<1> DEFINE m == calls[c].actor
           old == thread[PlaceOf(calls[c].target)]
           row == [old EXCEPT !.reactions = IF calls[c].on THEN old.reactions \cup {m} ELSE old.reactions \ {m}]
<1>1. calls[c] # None /\ calls[c].op = "react" /\ calls[c].step = "asked"
  BY DEF SetReaction, At
<1>2. Refused(c) \/ (ScopeForMessage(m, calls[c].target) /\ Changes(c, row, row))
  BY DEF SetReaction
<1>3. CASE Refused(c)
  BY <1>1, <1>3, RefusedKeeps
<1>4. CASE ScopeForMessage(m, calls[c].target) /\ Changes(c, row, row)
  <2>1. old \in Rows
    BY <1>4, TargetIs
  <2>2. m \in Members
    BY <1>1 DEF LiveInv, CallsOK, CallType
  <2>3. row \in Rows /\ row.id = old.id /\ row.author = old.author
    BY <2>1, <2>2 DEF Rows
  <2> HIDE DEF row
  <2> QED
    BY <1>1, <1>4, <2>3, ChangesKeeps
<1> QED
  BY <1>2, <1>3, <1>4

LEMMA PublishesKeeps ==
  ASSUME ChatConstants, LiveInv, NEW c \in Calls, NEW reached \in SUBSET Members, Publishes(c, reached)
  PROVE  LiveInv'
<1> DEFINE req == calls[c]
           r == IF req.op = "leave" THEN None ELSE [req EXCEPT !.step = "answer"]
           ib == [m \in Members |-> IF m \in reached THEN Append(inbox[m], req.frame) ELSE inbox[m]]
<1>1. req # None /\ req.step = "publish" /\ req \in CallType /\ CallOK(req, thread)
  BY DEF Publishes, LiveInv, CallsOK
<1>2. inbox' = ib /\ calls' = [calls EXCEPT ![c] = r] /\ Outside /\ UNCHANGED <<tabs, paging>>
  BY DEF Publishes, Outside
<1> HIDE DEF req
<1>3. req.frame \in Frames /\ FrameOK(req.frame, thread) /\ req.frame.kind # "none"
  <2>1. req.frame \in Frames
    BY <1>1 DEF CallType
  <2>2. CASE req.op = "leave"
    BY <1>1, <2>1, <2>2 DEF CallOK, FrameOK
  <2>3. CASE req.op # "leave"
    BY <1>1, <2>1, <2>3 DEF CallOK, Committed
  <2> QED
    BY <2>1, <2>2, <2>3
<1>4. r \in CallType \cup {None} /\ (r # None => CallOK(r, thread))
  <2> SUFFICES ASSUME req.op # "leave" PROVE r \in CallType /\ CallOK(r, thread)
    OBVIOUS
  <2>1. /\ r \in CallType /\ r.op = req.op /\ r.step = "answer" /\ r.frame = req.frame /\ r.to = req.to
        /\ r.actor = req.actor
    BY <1>1 DEF CallType
  <2> HIDE DEF r
  <2>2. CallOK(r, thread)
    BY <1>1, <2>1 DEF CallOK, Committed
  <2> QED
    BY <2>1, <2>2
<1> HIDE DEF r
<1>5. CallsOK([calls EXCEPT ![c] = r], thread)
  BY <1>4, CallSet DEF LiveInv
<1>6. InboxOK(ib, thread)
  <2>1. ASSUME NEW m \in Members
        PROVE  ib[m] \in Seq(Frames) /\ \A i \in 1..Len(ib[m]) : FrameOK(ib[m][i], thread) /\ ib[m][i].kind # "none"
    <3> DEFINE old == inbox[m]
               new == Append(old, req.frame)
    <3>1. old \in Seq(Frames) /\ \A i \in 1..Len(old) : FrameOK(old[i], thread) /\ old[i].kind # "none"
      BY DEF LiveInv, InboxOK
    <3> HIDE DEF old
    <3>2. /\ new \in Seq(Frames) /\ Len(new) = Len(old) + 1 /\ new[Len(old) + 1] = req.frame
          /\ \A i \in 1..Len(old) : new[i] = old[i]
      BY <1>3, <3>1
    <3> HIDE DEF new
    <3>3. \A i \in 1..Len(new) : FrameOK(new[i], thread) /\ new[i].kind # "none"
      <4> TAKE i \in 1..Len(new)
      <4>1. i = Len(old) + 1 \/ i \in 1..Len(old)
        BY <3>1, <3>2
      <4> QED
        BY <1>3, <3>1, <3>2, <4>1
    <3>4. ib[m] = new \/ ib[m] = old
      BY DEF new, old
    <3> QED
      BY <3>1, <3>2, <3>3, <3>4
  <2>2. ib \in [Members -> Seq(Frames)]
    <3> HIDE DEF ib
    <3>1. \A m \in Members : ib[m] \in Seq(Frames)
      BY <2>1
    <3> QED
      BY <3>1 DEF ib
  <2> HIDE DEF ib
  <2> QED
    BY <2>1, <2>2 DEF InboxOK
<1> QED
  BY <1>2, <1>5, <1>6, OutsideKeeps DEF LiveInv

LEMMA AnswerLandsKeeps ==
  ASSUME ChatConstants, LiveInv, NEW c \in Calls, AnswerLands(c)
  PROVE  LiveInv'
<1> DEFINE req == calls[c]
           m == req.actor
           t == CASE req.step = "failed" ->
                       IF req.applied /\ Shows(tabs[m], req.target)
                       THEN Replaced(tabs[m], ApplyReaction(CachedMessage(tabs[m], req.target), m, ~req.on)) ELSE tabs[m]
                  [] req.step = "answer" /\ req.op = "send" -> Appended(tabs[m], req.frame.message)
                  [] req.step = "answer" /\ req.op \in {"edit", "react"} -> Replaced(tabs[m], req.frame.message)
                  [] req.step = "answer" /\ req.op = "delete" -> Invalidated(tabs[m])
<1>1. req # None /\ req.step \in {"answer", "failed"} /\ req \in CallType /\ CallOK(req, thread)
  BY DEF AnswerLands, LiveInv, CallsOK
<1>2. m \in Members /\ req.op \in {"send", "edit", "delete", "react"} /\ (~req.on) \in BOOLEAN
  <2>1. m \in Members /\ req.op \in {"send", "edit", "delete", "react", "leave"} /\ req.op # "leave"
    BY <1>1 DEF CallType, CallOK
  <2>2. (~req.on) \in BOOLEAN
    OBVIOUS
  <2> QED
    BY <2>1, <2>2
<1>3. Okay(tabs[m], m, thread) /\ ThreadOK(thread)
  BY <1>2 DEF LiveInv, TabsOK
<1>4. tabs' = [tabs EXCEPT ![m] = t] /\ calls' = [calls EXCEPT ![c] = None] /\ Outside /\ UNCHANGED <<inbox, paging>>
  BY DEF AnswerLands, Outside
<1> HIDE DEF req
<1>5. Okay(t, m, thread)
  <2>1. CASE req.step = "failed"
    <3>1. CASE req.applied /\ Shows(tabs[m], req.target)
      <4>1. t = Replaced(tabs[m], ApplyReaction(CachedMessage(tabs[m], req.target), m, ~req.on))
        BY <2>1, <3>1
      <4> HIDE DEF t
      <4> QED
        BY <1>2, <1>3, <3>1, <4>1, MarkedIs
    <3>2. CASE ~(req.applied /\ Shows(tabs[m], req.target))
      <4>1. t = tabs[m]
        BY <2>1, <3>2
      <4> HIDE DEF t
      <4> QED
        BY <1>3, <4>1
    <3> QED
      BY <3>1, <3>2
  <2>2. CASE req.step = "answer"
    <3>1. /\ FrameOK(req.frame, thread) /\ req.frame.origin = m
          /\ req.frame.kind = IF req.op = "send" THEN "created" ELSE "changed"
      BY <1>1, <1>2, <2>2 DEF CallOK, Committed
    <3>2. CASE req.op = "send"
      <4>1. Of(req.frame.message, thread) /\ req.frame.message.author = m
        BY <3>1, <3>2 DEF FrameOK
      <4>2. t = Appended(tabs[m], req.frame.message)
        BY <2>2, <3>2
      <4> HIDE DEF t
      <4> QED
        BY <1>3, <4>1, <4>2, AppendedIs
    <3>3. CASE req.op \in {"edit", "react"}
      <4>1. Of(req.frame.message, thread)
        BY <3>1, <3>3 DEF FrameOK
      <4>2. t = Replaced(tabs[m], req.frame.message)
        BY <2>2, <3>3
      <4> HIDE DEF t
      <4> QED
        BY <1>3, <4>1, <4>2, ReplacedIs
    <3>4. CASE req.op = "delete"
      <4>1. t = Invalidated(tabs[m])
        BY <2>2, <3>4
      <4> HIDE DEF t
      <4> QED
        BY <1>3, <4>1, InvalidatedIs
    <3> QED
      BY <1>2, <3>2, <3>3, <3>4
  <2> QED
    BY <1>1, <2>1, <2>2
<1> HIDE DEF t
<1>6. TabsOK([tabs EXCEPT ![m] = t], thread) /\ CallsOK([calls EXCEPT ![c] = None], thread)
  BY <1>2, <1>5, TabSet, CallSet DEF LiveInv
<1> QED
  BY <1>4, <1>6, OutsideKeeps DEF LiveInv

----------------------------------------------------------------------------
(* The steps of the room. *)

\* Who is in the room changes, and nothing else of what is held.
LEMMA MembersKeep ==
  ASSUME LiveInv, room' \in Rooms, NobodyLeavesLast', MembersOK(members', thread), CallsOK(calls', thread),
         UNCHANGED <<thread, inbox, tabs, paging>>
  PROVE  LiveInv'
BY DEF LiveInv

LEMMA BeginningOK ==
  ASSUME ThreadOK(thread)
  PROVE  FromTheBeginning \in Memberships /\ MemberOK(FromTheBeginning, thread)
         /\ FloorNow \in Memberships /\ MemberOK(FloorNow, thread)
<1>1. Newest = 2 * Len(thread) /\ Len(thread) \in Nat
  BY NewestIs
<1> QED
  BY <1>1 DEF FromTheBeginning, FloorNow, Memberships, MemberOK

LEMMA MemberSet ==
  ASSUME NEW ms, NEW th, MembersOK(ms, th), NEW u \in Members, NEW x \in Memberships, MemberOK(x, th)
  PROVE  MembersOK([ms EXCEPT ![u] = x], th) /\ MembersOK([ms EXCEPT ![u] = None], th)
BY DEF MembersOK

LEMMA AdvanceReadKeeps ==
  ASSUME ChatConstants, LiveInv, NEW m \in Members, NEW id \in Nat, AdvanceRead(m, id)
  PROVE  LiveInv'
<1> DEFINE old == members[m]
           p == PlaceOf(id)
           x == [old EXCEPT !.read = IF id > old.read THEN id ELSE old.read,
                            !.marked = IF p > old.marked THEN p ELSE old.marked]
<1>1. ScopeForMessage(m, id)
  BY DEF AdvanceRead
<1>2. old # None /\ old \in Memberships /\ MemberOK(old, thread)
  BY <1>1 DEF ScopeForMessage, InRoom, LiveInv, MembersOK
<1>3. id = 2 * p /\ p \in Nat
  BY <1>1, TargetIs
<1>4. members' = [members EXCEPT ![m] = x] /\ UNCHANGED <<room, thread, calls, inbox, tabs, paging>>
  <2>1. members \in [Members -> Memberships \cup {None}]
    BY DEF LiveInv, MembersOK
  <2>2. members' = [members EXCEPT ![m].read = IF id > @ THEN id ELSE @, ![m].marked = IF PlaceOf(id) > @ THEN PlaceOf(id) ELSE @]
    BY DEF AdvanceRead
  <2>3. members' = [members EXCEPT ![m] = x]
    BY <1>2, <2>1, <2>2 DEF Memberships
  <2> QED
    BY <2>3 DEF AdvanceRead
<1> HIDE DEF old, p
<1>5. x \in Memberships /\ x.read = 2 * x.marked /\ x.floor = old.floor /\ x.joined = old.joined
  <2>1. old.read \in Nat /\ old.marked \in Nat /\ old.read = 2 * old.marked
    BY <1>2 DEF Memberships, MemberOK
  <2> DEFINE a == IF id > old.read THEN id ELSE old.read
             b == IF p > old.marked THEN p ELSE old.marked
  <2>2. a \in Nat /\ b \in Nat /\ a = 2 * b
    <3>1. id > old.read <=> p > old.marked
      BY <1>3, <2>1
    <3> QED
      BY <1>3, <2>1, <3>1
  <2> HIDE DEF a, b
  <2>3. x = [old EXCEPT !.read = a, !.marked = b]
    BY DEF a, b
  <2> HIDE DEF x
  <2> QED
    BY <1>2, <2>2, <2>3 DEF Memberships
<1> HIDE DEF x
<1>6. MemberOK(x, thread)
  BY <1>2, <1>5 DEF MemberOK
<1>7. MembersOK([members EXCEPT ![m] = x], thread)
  BY <1>5, <1>6, MemberSet DEF LiveInv
<1>8. NobodyLeavesLast'
  <2>1. \A u \in Members : members[u] # None => members'[u] # None
    BY <1>2, <1>4, <1>5 DEF ChatConstants, LiveInv, MembersOK
  <2> QED
    BY <1>4, <2>1 DEF NobodyLeavesLast, MemberIDs, LiveInv
<1> QED
  BY <1>4, <1>7, <1>8, MembersKeep DEF LiveInv

LEMMA CreateConversationKeeps ==
  ASSUME ChatConstants, LiveInv, NEW m \in Members, NEW others \in SUBSET Members, CreateConversation(m, others)
  PROVE  LiveInv'
<1> DEFINE ms == [u \in Members |-> IF u \in others \cup {m} THEN FromTheBeginning ELSE None]
<1>1. room' = [kind |-> "group", state |-> "live"] /\ members' = ms /\ UNCHANGED <<thread, calls, inbox, tabs, paging>>
  BY DEF CreateConversation
<1>2. FromTheBeginning \in Memberships /\ MemberOK(FromTheBeginning, thread) /\ FromTheBeginning # None
  BY BeginningOK DEF LiveInv, ChatConstants
<1>3. MembersOK(ms, thread)
  BY <1>2 DEF MembersOK
<1>4. NobodyLeavesLast'
  <2>1. members'[m] # None
    BY <1>1, <1>2
  <2> QED
    BY <2>1 DEF NobodyLeavesLast, MemberIDs
<1>5. room' \in Rooms
  BY <1>1 DEF Rooms
<1> HIDE DEF ms
<1> QED
  BY <1>1, <1>3, <1>4, <1>5, MembersKeep DEF LiveInv

LEMMA JoinsKeep ==
  ASSUME ChatConstants, LiveInv, NEW u \in Members, NEW x \in Memberships, MemberOK(x, thread),
         members' = [members EXCEPT ![u] = x], UNCHANGED <<room, thread, calls, inbox, tabs, paging>>
  PROVE  LiveInv'
<1>1. MembersOK(members', thread)
  BY MemberSet DEF LiveInv
<1>2. NobodyLeavesLast'
  <2>1. \A v \in Members : members[v] # None => members'[v] # None
    BY DEF ChatConstants, LiveInv, MembersOK
  <2> QED
    BY <2>1 DEF NobodyLeavesLast, MemberIDs, LiveInv
<1> QED
  BY <1>1, <1>2, MembersKeep DEF LiveInv

LEMMA EnsureDefaultMembershipKeeps ==
  ASSUME ChatConstants, LiveInv, NEW m \in Members, EnsureDefaultMembership(m)
  PROVE  LiveInv'
BY BeginningOK, JoinsKeep DEF EnsureDefaultMembership, LiveInv

LEMMA AddMemberKeeps ==
  ASSUME ChatConstants, LiveInv, NEW m \in Members, NEW u \in Members, AddMember(m, u)
  PROVE  LiveInv'
BY BeginningOK, JoinsKeep DEF AddMember, LiveInv

LEMMA GoneKeeps ==
  ASSUME ChatConstants, LiveInv, NEW c \in Calls, NEW m \in Members, NEW who \in SUBSET MemberIDs, Gone(c, m, who)
  PROVE  CallsOK(calls', thread)
<1> DEFINE q == Request("leave", m, 0, TRUE)
           f == [kind |-> "gone", origin |-> m, prev |-> 0, message |-> None]
           r == [q EXCEPT !.step = "publish", !.to = Since(who), !.frame = f]
<1>1. q \in CallType /\ q.op = "leave"
  BY SoonIs DEF Request, CallType, Frames
<1>2. calls' = [calls EXCEPT ![c] = r]
  BY DEF Gone, Starts
<1>3. f \in Frames /\ f.kind = "gone"
  BY DEF Frames
<1>4. Since(who) \subseteq [member : Members, joined : Nat]
  <2>1. \A u \in who : u \in Members /\ members[u].joined \in Nat
    BY DEF MemberIDs, LiveInv, MembersOK, Memberships
  <2> QED
    BY <2>1 DEF Since
<1> HIDE DEF q, f
<1>5. r \in CallType /\ r.op = "leave" /\ r.step = "publish" /\ r.frame = f
  BY <1>1, <1>3, <1>4 DEF CallType
<1> HIDE DEF r
<1>6. CallOK(r, thread)
  BY <1>3, <1>5 DEF CallOK
<1> QED
  BY <1>2, <1>5, <1>6, CallSet DEF LiveInv

LEMMA RemoveMemberKeeps ==
  ASSUME ChatConstants, LiveInv, NEW c \in Calls, NEW m \in Members, NEW u \in Members, RemoveMember(c, m, u)
  PROVE  LiveInv'
<1>1. /\ InRoom(m) /\ (m = u => Cardinality(MemberIDs) > 1) /\ members[u] # None
      /\ members' = [members EXCEPT ![u] = None] /\ Gone(c, m, {u}) /\ UNCHANGED <<room, thread, inbox, tabs, paging>>
  BY DEF RemoveMember
<1>2. CallsOK(calls', thread)
  BY <1>1, GoneKeeps DEF MemberIDs
<1>3. MembersOK(members', thread)
  BY <1>1 DEF LiveInv, MembersOK
<1>4. \E v \in Members : v # u /\ members[v] # None
  <2>1. CASE m # u
    BY <1>1, <2>1 DEF InRoom
  <2>2. CASE m = u
    <3> SUFFICES ASSUME \A v \in Members : v = u \/ members[v] = None PROVE FALSE
      OBVIOUS
    <3>1. MemberIDs = {u}
      BY <1>1 DEF MemberIDs
    <3>2. Cardinality({u}) = 1
      BY FS_Singleton
    <3> QED
      BY <1>1, <2>2, <3>1, <3>2
  <2> QED
    BY <2>1, <2>2
<1>5. NobodyLeavesLast'
  <2>1. PICK v \in Members : v # u /\ members[v] # None
    BY <1>4
  <2>2. members'[v] # None
    BY <1>1, <2>1 DEF LiveInv, MembersOK
  <2> QED
    BY <2>2 DEF NobodyLeavesLast, MemberIDs
<1> QED
  BY <1>1, <1>2, <1>3, <1>5, MembersKeep DEF LiveInv

LEMMA DeleteConversationKeeps ==
  ASSUME ChatConstants, LiveInv, NEW c \in Calls, NEW m \in Members, NEW hard \in BOOLEAN, DeleteConversation(c, m, hard)
  PROVE  ThreadInv'
<1>1. CASE hard
  <2>1. /\ room' = [room EXCEPT !.state = "gone"] /\ room.kind = "group" /\ thread' = <<>>
        /\ members' = [v \in Members |-> None]
    BY <1>1 DEF DeleteConversation
  <2>2. room' = [kind |-> "group", state |-> "gone"]
    BY <2>1 DEF LiveInv, Rooms
  <2> QED
    BY <2>1, <2>2 DEF ThreadInv, Over
<1>2. CASE ~hard
  <2>1. /\ room' = [room EXCEPT !.state = "trash"] /\ room.state = "live" /\ Gone(c, m, MemberIDs)
        /\ UNCHANGED <<members, thread, inbox, tabs, paging>>
    BY <1>2 DEF DeleteConversation
  <2>2. room' \in Rooms /\ room'.kind = room.kind
    BY <2>1 DEF LiveInv, Rooms
  <2>3. CallsOK(calls', thread)
    BY <2>1, GoneKeeps
  <2>4. NobodyLeavesLast'
    BY <2>1, <2>2 DEF NobodyLeavesLast, MemberIDs, LiveInv
  <2>5. LiveInv'
    BY <2>1, <2>2, <2>3, <2>4, MembersKeep DEF LiveInv
  <2> QED
    BY <2>5 DEF ThreadInv
<1> QED
  BY <1>1, <1>2

LEMMA RestoreConversationKeeps ==
  ASSUME ChatConstants, LiveInv, NEW m \in Members, RestoreConversation(m)
  PROVE  LiveInv'
<1>1. /\ room' = [room EXCEPT !.state = "live"] /\ room.state = "trash"
      /\ UNCHANGED <<members, thread, calls, inbox, tabs, paging>>
  BY DEF RestoreConversation
<1>2. room' \in Rooms /\ room'.kind = room.kind
  BY <1>1 DEF LiveInv, Rooms
<1>3. NobodyLeavesLast'
  BY <1>1, <1>2 DEF NobodyLeavesLast, MemberIDs, LiveInv
<1> QED
  BY <1>1, <1>2, <1>3, MembersKeep DEF LiveInv

----------------------------------------------------------------------------
(* The invariant. *)

LEMMA ChatBegins ==
  ASSUME ChatConstants, ChatInit
  PROVE  ThreadInv
<1>1. ThreadOK(<<>>) /\ Len(<<>>) = 0
  BY DEF ThreadOK
<1>2. room \in Rooms /\ NobodyLeavesLast
  BY DEF ChatInit, Rooms, NobodyLeavesLast
<1>3. MembersOK(members, thread) /\ CallsOK(calls, thread) /\ TabsOK(tabs, thread) /\ PagingOK(paging, thread)
  BY DEF ChatInit, MembersOK, CallsOK, TabsOK, PagingOK, Okay
<1>4. InboxOK(inbox, thread)
  BY <1>1 DEF ChatInit, InboxOK
<1> QED
  BY <1>1, <1>2, <1>3, <1>4 DEF ThreadInv, LiveInv, ChatInit

LEMMA OverStays ==
  ASSUME ChatConstants, Over, ChatNext
  PROVE  UNCHANGED <<room, members, thread>>
<1>1. room.kind = "group" /\ room.state = "gone" /\ \A m \in Members : ~InRoom(m)
  BY DEF Over, InRoom
<1>2. ASSUME NEW m \in Members, Tabs(m) PROVE UNCHANGED <<room, members, thread>>
  BY <1>2 DEF Tabs, Opens, FetchIsRead, FetchLands, AsksOlder, OlderIsRead, OlderLands, Receives
<1>3. ASSUME NEW m \in Members, Room(m) PROVE FALSE
  BY <1>1, <1>3 DEF Room, EnsureDefaultMembership, RestoreConversation, CreateConversation, AddMember, RemoveMember,
     DeleteConversation
<1>4. ASSUME NEW m \in Members, NEW id, AdvanceRead(m, id) PROVE FALSE
  BY <1>1, <1>4 DEF AdvanceRead, ScopeForMessage
<1>5. ASSUME NEW c \in Calls, NEW m \in Members, Requests(c, m) PROVE UNCHANGED <<room, members, thread>>
  BY <1>5 DEF Requests, AsksToSend, AsksToChange, AsksToReact
<1>6. ASSUME NEW c \in Calls, Handles(c) PROVE UNCHANGED <<room, members, thread>>
  <2>1. \A m : ~InRoom(m)
    BY <1>1 DEF InRoom
  <2>2. \A m, id : ~ScopeForMessage(m, id)
    BY <2>1 DEF ScopeForMessage
  <2>3. ASSUME SendMessage(c) PROVE UNCHANGED <<room, members, thread>>
    BY <2>1, <2>3 DEF SendMessage, Refused
  <2>4. ASSUME EditMessage(c) \/ DeleteMessage(c) \/ SetReaction(c) PROVE UNCHANGED <<room, members, thread>>
    BY <2>2, <2>4 DEF EditMessage, DeleteMessage, SetReaction, Refused
  <2>5. ASSUME QuoteIsRead(c) \/ AnswerLands(c) \/ \E reached \in SUBSET Watchers : Publishes(c, reached)
        PROVE UNCHANGED <<room, members, thread>>
    BY <2>5 DEF QuoteIsRead, AnswerLands, Publishes
  <2> QED
    BY <1>6, <2>3, <2>4, <2>5 DEF Handles
<1>7. \A m \in Watchers : m \in Members
  BY DEF ChatConstants
<1> QED
  BY <1>2, <1>3, <1>4, <1>5, <1>6, <1>7 DEF ChatNext

LEMMA ChatGoesOn ==
  ASSUME ChatConstants, ThreadInv, [ChatNext]_chatVars
  PROVE  ThreadInv'
<1>1. CASE UNCHANGED chatVars
  BY <1>1 DEF chatVars, ThreadInv, LiveInv, Over, NobodyLeavesLast, MemberIDs
<1>2. CASE Over /\ ChatNext
  BY <1>2, OverStays DEF Over, ThreadInv
<1>3. CASE LiveInv /\ ChatNext
  <2>1. \A m \in Watchers : m \in Members
    BY DEF ChatConstants
  <2>2. ASSUME NEW m \in Members, Tabs(m) PROVE LiveInv'
    BY <1>3, <2>2, OpensKeeps, FetchIsReadKeeps, FetchLandsKeeps, AsksOlderKeeps, OlderIsReadKeeps, OlderLandsKeeps,
       ReceivesKeeps DEF Tabs
  <2>3. ASSUME NEW m \in Members, Room(m) PROVE ThreadInv'
    BY <1>3, <2>3, EnsureDefaultMembershipKeeps, RestoreConversationKeeps, CreateConversationKeeps, AddMemberKeeps,
       RemoveMemberKeeps, DeleteConversationKeeps DEF Room, ThreadInv
  <2>4. ASSUME NEW m \in Members, NEW id \in Offered(m), AdvanceRead(m, id) PROVE LiveInv'
    BY <1>3, <2>4, OfferedIs, AdvanceReadKeeps
  <2>5. ASSUME NEW c \in Calls, NEW m \in Members, Requests(c, m) PROVE LiveInv'
    <3>1. \A reply \in {0} \cup Offered(m) : reply \in Nat
      BY <1>3, OfferedIs
    <3>2. CASE \E reply \in {0} \cup Offered(m) : AsksToSend(c, m, reply)
      BY <1>3, <3>1, <3>2, AsksToSendKeeps
    <3>3. CASE \E id \in Offered(m), op \in {"edit", "delete"} : AsksToChange(c, op, m, id)
      BY <1>3, <3>1, <3>3, AsksToChangeKeeps
    <3>4. CASE \E id \in Offered(m), on \in BOOLEAN : AsksToReact(c, m, id, on)
      BY <1>3, <3>1, <3>4, AsksToReactKeeps
    <3> QED
      BY <2>5, <3>2, <3>3, <3>4 DEF Requests
  <2>6. ASSUME NEW c \in Calls, Handles(c) PROVE LiveInv'
    <3>1. \A reached \in SUBSET Watchers : reached \in SUBSET Members
      BY <2>1
    <3> QED
      BY <1>3, <2>6, <3>1, SendMessageKeeps, QuoteIsReadKeeps, EditMessageKeeps, DeleteMessageKeeps, SetReactionKeeps,
         AnswerLandsKeeps, PublishesKeeps DEF Handles
  <2> QED
    BY <1>3, <2>1, <2>2, <2>3, <2>4, <2>5, <2>6 DEF ChatNext, ThreadInv
<1> QED
  BY <1>1, <1>2, <1>3 DEF ThreadInv

----------------------------------------------------------------------------
(* What it gives. *)

LEMMA SeenIs ==
  ASSUME ChatConstants, LiveInv
  PROVE  SeesWhatFollows
<1> SUFFICES ASSUME NEW m \in MemberIDs
             PROVE  LET since == {k \in Places : k > members[m].joined}
                    IN /\ Above(members[m].floor) = since
                       /\ Search(m) = {k \in since : ~thread[k].deleted}
                       /\ LastMessage(m) = IF since = {} THEN 0 ELSE thread[Max(since)].id
                       /\ UnreadCount(m) = Cardinality({k \in since : /\ k > members[m].marked /\ ~thread[k].deleted
                                                                     /\ thread[k].author # m})
  BY DEF SeesWhatFollows
<1> DEFINE u == members[m]
           since == {k \in Places : k > u.joined}
           n == Len(thread)
<1>1. u \in Memberships /\ u.floor = 2 * u.joined /\ u.joined <= n /\ u.read = 2 * u.marked
  BY DEF MemberIDs, LiveInv, MembersOK, MemberOK
<1>2. u.joined \in Nat /\ u.marked \in Nat /\ n \in Nat
  BY <1>1 DEF Memberships, LiveInv, ThreadOK
<1>3. Places = 1..n /\ \A k \in Places : thread[k].id = 2 * k /\ k \in Nat
  BY DEF Places, LiveInv, ThreadOK
<1> HIDE DEF n, u
<1>4. Above(u.floor) = since
  BY <1>1, <1>2, <1>3 DEF Above
<1>5. LastMessage(m) = IF since = {} THEN 0 ELSE thread[Max(since)].id
  <2> DEFINE S == {thread[k].id : k \in since} \cup {0}
  <2>1. LastMessage(m) = Max(S)
    BY <1>4 DEF LastMessage, u
  <2>2. CASE since = {}
    <3>1. S = {0}
      BY <2>2
    <3> HIDE DEF S
    <3>2. Max(S) = 0
      <4>1. S \subseteq Int /\ 0 \in S /\ \A y \in S : 0 >= y
        BY <3>1
      <4> QED
        BY <4>1, MaxIs
    <3> QED
      BY <2>1, <2>2, <3>2
  <2>3. CASE since # {}
    <3>1. n \in since /\ since \subseteq Int /\ \A k \in since : n >= k
      BY <1>2, <1>3, <2>3
    <3>2. Max(since) = n
      <4> HIDE DEF since
      <4> QED
        BY <3>1, MaxIs
    <3>3. n \in Places /\ thread[n].id = 2 * n
      BY <1>3, <3>1
    <3>4. S \subseteq Int /\ 2 * n \in S /\ \A y \in S : 2 * n >= y
      <4>1. \A k \in since : thread[k].id = 2 * k /\ k \in Nat /\ n >= k
        BY <1>3, <3>1
      <4> HIDE DEF since
      <4> QED
        BY <1>2, <3>1, <3>3, <4>1
    <3>5. Max(S) = 2 * n
      <4> HIDE DEF S
      <4> QED
        BY <3>4, MaxIs
    <3> QED
      BY <2>1, <2>3, <3>2, <3>3, <3>5
  <2> QED
    BY <2>2, <2>3
<1>6. UnreadCount(m) = Cardinality({k \in since : /\ k > u.marked /\ ~thread[k].deleted /\ thread[k].author # m})
  <2>1. {k \in Above(u.floor) : /\ ~thread[k].deleted /\ thread[k].author # m /\ thread[k].id > u.read}
          = {k \in since : /\ k > u.marked /\ ~thread[k].deleted /\ thread[k].author # m}
    <3>1. \A k \in since : thread[k].id > u.read <=> k > u.marked
      BY <1>1, <1>2, <1>3
    <3> HIDE DEF since
    <3> QED
      BY <1>4, <3>1
  <2> QED
    BY <2>1 DEF UnreadCount, u
<1>7. Search(m) = {k \in since : ~thread[k].deleted}
  BY <1>4 DEF Search, u
<1> QED
  BY <1>4, <1>5, <1>6, <1>7 DEF u

LEMMA FramesAre ==
  ASSUME ChatConstants, LiveInv
  PROVE  FramesKeepTheFloor
<1> SUFFICES ASSUME NEW c \in Calls, calls[c] # None, calls[c].step = "publish", calls[c].op # "leave",
                    NEW to \in calls[c].to
             PROVE  PlaceOf(calls[c].frame.message.id) > to.joined
  BY DEF FramesKeepTheFloor
<1> DEFINE req == calls[c]
<1>1. req \in CallType /\ CallOK(req, thread) /\ ThreadOK(thread)
  BY DEF LiveInv, CallsOK
<1>2. /\ FrameOK(req.frame, thread) /\ req.frame.kind \in {"created", "changed"}
      /\ req.frame.message.id > 2 * to.joined
  BY <1>1 DEF CallOK, Committed
<1>3. Of(req.frame.message, thread)
  BY <1>2 DEF FrameOK
<1>4. PICK k \in 1..Len(thread) : req.frame.message.id = 2 * k
  BY <1>3 DEF Of
<1>5. PlaceOf(2 * k) = k /\ k \in Nat
  BY <1>1, PlaceOfIs DEF Places
<1>6. to.joined \in Nat
  BY <1>1 DEF CallType
<1> QED
  BY <1>2, <1>4, <1>5, <1>6

LEMMA GapsAre ==
  ASSUME ChatConstants, LiveInv
  PROVE  NoHiddenGap
<1> SUFFICES ASSUME NEW m \in MemberIDs, NEW i \in 1..(Len(Items(tabs[m])) - 1)
             PROVE  \/ Items(tabs[m])[i].author = m \/ Items(tabs[m])[i + 1].id \in tabs[m].seams
                    \/ \A k \in Above(members[m].floor) :
                         Items(tabs[m])[i + 1].id < thread[k].id /\ thread[k].id < Items(tabs[m])[i].id
                           => Shows(tabs[m], thread[k].id)
  BY DEF NoHiddenGap
<1>1. Okay(tabs[m], m, thread)
  BY DEF LiveInv, TabsOK, MemberIDs
<1>2. Cached(tabs[m])
  <2> SUFFICES ASSUME ~Cached(tabs[m]) PROVE FALSE
    OBVIOUS
  <2>1. Items(tabs[m]) = <<>>
    BY <1>1, CachedIs
  <2>2. Len(Items(tabs[m])) = 0
    BY <2>1
  <2> QED
    BY <2>2
<1>3. Items(tabs[m]) = tabs[m].items /\ ItemsOK(tabs[m].items, tabs[m].seams, m, thread)
  BY <1>1, <1>2, CachedIs
<1>4. Beside(Items(tabs[m]), tabs[m].seams, m, i)
  BY <1>3 DEF ItemsOK
<1>5. \A k \in Above(members[m].floor) : thread[k].id = 2 * k /\ k \in Nat
  BY DEF Above, Places, LiveInv, ThreadOK
<1> QED
  BY <1>4, <1>5 DEF Beside, Shows

LEMMA ChatKeeps ==
  ASSUME ChatConstants, ThreadInv
  PROVE  ThreadIsWhole
<1>1. CASE LiveInv
  BY <1>1, SeenIs, FramesAre, GapsAre DEF ThreadIsWhole, LiveInv
<1>2. CASE Over
  <2>1. MemberIDs = {}
    BY <1>2 DEF Over, MemberIDs
  <2> QED
    BY <1>2, <2>1 DEF Over, ThreadIsWhole, SeesWhatFollows, FramesKeepTheFloor, NoHiddenGap, NobodyLeavesLast
<1> QED
  BY <1>1, <1>2 DEF ThreadInv

\* For any number of members and requests under way: whoever joins a room sees what is
\* sent from then on and only that, however they read it; a frame goes to nobody who may
\* not read its message; between two messages a tab shows next to each other none is
\* missing unnoticed; and a room of its members' own is never left without one
\* (chat/messages.go, floor.go, hooks.ts).
THEOREM ThreadStaysWhole ==
  ASSUME ChatConstants
  PROVE  ChatSpec => []ThreadIsWhole
<1>1. ChatInit => ThreadInv
  BY ChatBegins
<1>2. ThreadInv /\ [ChatNext]_chatVars => ThreadInv'
  BY ChatGoesOn
<1>3. ThreadInv => ThreadIsWhole
  BY ChatKeeps
<1> QED
  BY <1>1, <1>2, <1>3, PTL DEF ChatSpec
=============================================================================

----------------------------- MODULE AuditOutbox -----------------------------
(***************************************************************************)
(* The transactional outbox of the audit spine                             *)
(* (backend/internal/platform/audit): mutations that record their events   *)
(* inside their own transaction on the one database connection, and the    *)
(* tailer that reads what was committed past a persisted cursor, hands it  *)
(* to the listener and moves the cursor event by event, through failing    *)
(* reads and writes, an orderly shutdown and a crash.                      *)
(*                                                                         *)
(* A read and the closing of its rows are one step: until the rows are     *)
(* closed they own the connection, and nobody else takes a step on it.     *)
(***************************************************************************)
EXTENDS Integers, FiniteSets

CONSTANTS
  Writer,     \* the requests and jobs that mutate
  MaxId,      \* a bound: the identifiers that are ever issued
  Batch,      \* NotifierConfig.Batch
  MaxBreaks   \* a bound: crashes, shutdowns and failed cursor saves

ASSUME OutboxAssumption ==
  /\ MaxId \in Nat /\ Batch \in Nat \ {0} /\ MaxBreaks \in Nat

Id == 1..MaxId

VARIABLES
  writing,  \* the writers inside a transaction
  tx,       \* per writer: the events its transaction has recorded
  lastId,   \* the newest identifier issued
  table,    \* audit_events: the committed events
  nudged,   \* the nudge channel holds its one signal
  ctx,      \* the tailer's context: "live", "cancelled"
  pc,       \* the tailer: "idle", "loading", "querying", "handing", "saving",
            \* "stopped", or "down" with its process
  from,     \* the cursor as this scan loaded it
  batch,    \* the events this scan has still to save
  full,     \* the scan came back with a whole batch
  cursor,   \* audit_notify_cursor.last_event_id
  handed,   \* per event: how often the listener has been handed it
  breaks    \* the faults so far that may cost a second delivery

txVars   == <<writing, tx, lastId>>
scanVars == <<from, batch, full>>
outboxVars == <<txVars, table, nudged, ctx, pc, scanVars, cursor, handed, breaks>>

OutboxInit ==
  /\ writing = {} /\ tx = [w \in Writer |-> {}] /\ lastId = 0
  /\ table = {} /\ nudged = FALSE /\ ctx = "live" /\ pc = "idle"
  /\ from = 0 /\ batch = {} /\ full = FALSE /\ cursor = 0
  /\ handed = [e \in Id |-> 0] /\ breaks = 0

IsLeast(e, S) == e \in S /\ \A f \in S : e <= f

----------------------------------------------------------------------------
(* Writers. *)

\* Mutant: a pool of several connections and no lock taken at BEGIN.
ConnFreeAlways == TRUE

\* SetMaxOpenConns(1): whoever is inside a transaction owns the connection.
ConnFree == writing = {}

Begin(w) ==
  /\ pc # "down" /\ ConnFree /\ w \notin writing
  /\ writing' = writing \cup {w}
  /\ UNCHANGED <<tx, lastId, table, nudged, ctx, pc, scanVars, cursor, handed, breaks>>

\* Writer.Record: a fresh UUIDv7, the insert, and the nudge before the commit.
Record(w) ==
  /\ w \in writing /\ lastId < MaxId
  /\ lastId' = lastId + 1
  /\ tx' = [tx EXCEPT ![w] = @ \cup {lastId + 1}]
  /\ nudged' = TRUE
  /\ UNCHANGED <<writing, table, ctx, pc, scanVars, cursor, handed, breaks>>

Commit(w) ==
  /\ w \in writing
  /\ table' = table \cup tx[w]
  /\ writing' = writing \ {w} /\ tx' = [tx EXCEPT ![w] = {}]
  /\ UNCHANGED <<lastId, nudged, ctx, pc, scanVars, cursor, handed, breaks>>

Rollback(w) ==
  /\ w \in writing
  /\ writing' = writing \ {w} /\ tx' = [tx EXCEPT ![w] = {}]
  /\ UNCHANGED <<lastId, table, nudged, ctx, pc, scanVars, cursor, handed, breaks>>

----------------------------------------------------------------------------
(* The tailer. *)

\* Mutant: no poll, only nudges.
WakeNudgeOnly ==
  /\ pc = "idle" /\ nudged
  /\ pc' = "loading" /\ nudged' = FALSE
  /\ UNCHANGED <<txVars, table, ctx, scanVars, cursor, handed, breaks>>

\* loop: the poll's tick, or a nudge and the delay that debounces it.
Wake ==
  /\ pc = "idle"
  /\ pc' = "loading"
  /\ nudged' \in {nudged, FALSE}
  /\ UNCHANGED <<txVars, table, ctx, scanVars, cursor, handed, breaks>>

\* The context is looked at between two drains, and while a nudge is debounced.
Stop ==
  /\ pc = "idle" /\ ctx = "cancelled"
  /\ pc' = "stopped"
  /\ UNCHANGED <<txVars, table, nudged, ctx, scanVars, cursor, handed, breaks>>

LoadCursor ==
  /\ pc = "loading" /\ ConnFree /\ ctx = "live"
  /\ pc' = "querying" /\ from' = cursor
  /\ UNCHANGED <<txVars, table, nudged, ctx, batch, full, cursor, handed, breaks>>

\* ORDER BY id LIMIT Batch: the first rows of S.
FirstRows(F, S) ==
  /\ Cardinality(F) <= Batch /\ (F = S \/ Cardinality(F) = Batch)
  /\ \A e \in F, f \in S \ F : e < f

Scanned(S) ==
  \E F \in SUBSET S :
    /\ FirstRows(F, S)
    /\ batch' = F /\ full' = (Cardinality(F) = Batch)
    /\ pc' = IF F = {} THEN "idle" ELSE "handing"

\* Mutant: an off-by-one in the keyset predicate.
QueryFromCursor ==
  /\ pc = "querying" /\ ConnFree /\ ctx = "live"
  /\ Scanned({e \in table : e >= from})
  /\ UNCHANGED <<txVars, table, nudged, ctx, from, cursor, handed, breaks>>

Query ==
  /\ pc = "querying" /\ ConnFree /\ ctx = "live"
  /\ Scanned({e \in table : e > from})
  /\ UNCHANGED <<txVars, table, nudged, ctx, from, cursor, handed, breaks>>

\* A call fails once it has the connection, or at once when the context is gone.
Answered == ConnFree \/ ctx = "cancelled"

ScanFails ==
  /\ pc \in {"loading", "querying"} /\ Answered
  /\ pc' = "idle"
  /\ UNCHANGED <<txVars, table, nudged, ctx, scanVars, cursor, handed, breaks>>

\* deliver: an error or a panic of the listener is logged and counts as handed.
HandOver ==
  /\ pc = "handing"
  /\ \E e \in batch : IsLeast(e, batch) /\ handed' = [handed EXCEPT ![e] = @ + 1]
  /\ pc' = "saving"
  /\ UNCHANGED <<txVars, table, nudged, ctx, scanVars, cursor, breaks>>

\* Mutant: the cursor is written once, for the whole batch.
SavePerBatch ==
  /\ pc = "saving" /\ ConnFree /\ ctx = "live"
  /\ \E e \in batch :
       /\ IsLeast(e, batch)
       /\ cursor' = IF batch = {e} THEN e ELSE cursor
       /\ batch' = batch \ {e}
  /\ pc' = IF batch' # {} THEN "handing" ELSE IF full THEN "loading" ELSE "idle"
  /\ UNCHANGED <<txVars, table, nudged, ctx, from, full, handed, breaks>>

\* Per event; a full batch means another scan at once.
Save ==
  /\ pc = "saving" /\ ConnFree /\ ctx = "live"
  /\ \E e \in batch : IsLeast(e, batch) /\ cursor' = e /\ batch' = batch \ {e}
  /\ pc' = IF batch' # {} THEN "handing" ELSE IF full THEN "loading" ELSE "idle"
  /\ UNCHANGED <<txVars, table, nudged, ctx, from, full, handed, breaks>>

SaveFails ==
  /\ pc = "saving" /\ Answered
  /\ \/ ctx = "live" /\ breaks < MaxBreaks /\ breaks' = breaks + 1
     \/ ctx = "cancelled" /\ UNCHANGED breaks
  /\ pc' = "idle" /\ batch' = {}
  /\ UNCHANGED <<txVars, table, nudged, ctx, from, full, cursor, handed>>

----------------------------------------------------------------------------
(* The process. *)

\* stopBackground: from here on every call of the tailer on the database fails.
Cancel ==
  /\ ctx = "live" /\ pc # "down" /\ breaks < MaxBreaks
  /\ ctx' = "cancelled" /\ breaks' = breaks + 1
  /\ UNCHANGED <<txVars, table, nudged, pc, scanVars, cursor, handed>>

Halt ==
  /\ pc' = "down"
  /\ writing' = {} /\ tx' = [w \in Writer |-> {}]
  /\ nudged' = FALSE /\ batch' = {} /\ full' = FALSE
  /\ UNCHANGED <<lastId, table, ctx, from, cursor, handed>>

\* serve returns only on a signal, after it has joined the tailer.
Exit  == pc = "stopped" /\ Halt /\ UNCHANGED breaks
Crash == pc # "down" /\ breaks < MaxBreaks /\ Halt /\ breaks' = breaks + 1

Restart ==
  /\ pc = "down"
  /\ pc' = "idle" /\ ctx' = "live"
  /\ UNCHANGED <<txVars, table, nudged, scanVars, cursor, handed, breaks>>

Writing == \E w \in Writer : Begin(w) \/ Record(w) \/ Commit(w) \/ Rollback(w)
Tailing == Wake \/ Stop \/ LoadCursor \/ Query \/ ScanFails \/ Save \/ SaveFails
Running == Cancel \/ Crash \/ Restart

OutboxNext == Writing \/ Tailing \/ HandOver \/ Running \/ Exit
OutboxSpec == OutboxInit /\ [][OutboxNext]_outboxVars

(***************************************************************************)
(* Transactions end, the loop and its ticker run, a process that died is   *)
(* started again.  A select among ready channels is random, so a cancelled *)
(* context is noticed; calls on the database compete for its one           *)
(* connection, which is handed out in the order it was asked for, and do   *)
(* not fail for ever: hence strong fairness for these.                     *)
(***************************************************************************)
OutboxFairness ==
  /\ \A w \in Writer : WF_outboxVars(Commit(w) \/ Rollback(w))
  /\ WF_outboxVars(Wake) /\ SF_outboxVars(Stop) /\ WF_outboxVars(HandOver)
  /\ SF_outboxVars(LoadCursor) /\ SF_outboxVars(Query)
  /\ SF_outboxVars(Save) /\ WF_outboxVars(SaveFails /\ ctx = "cancelled")
  /\ WF_outboxVars(ScanFails /\ ctx = "cancelled")
  /\ WF_outboxVars(Exit) /\ WF_outboxVars(Restart)
FairOutboxSpec == OutboxSpec /\ OutboxFairness

----------------------------------------------------------------------------
(* Properties. *)

\* The type invariant.  Identifiers in play were issued, each at most once.
OutboxTypeOK ==
  /\ writing \subseteq Writer /\ tx \in [Writer -> SUBSET Id]
  /\ lastId \in 0..MaxId /\ table \subseteq 1..lastId
  /\ \A w \in Writer : tx[w] \subseteq (1..lastId) \ table
  /\ \A w \in Writer \ writing : tx[w] = {}
  /\ nudged \in BOOLEAN /\ ctx \in {"live", "cancelled"} /\ full \in BOOLEAN
  /\ pc \in {"idle", "loading", "querying", "handing", "saving", "stopped", "down"}
  /\ from \in 0..lastId /\ cursor \in {0} \cup table
  /\ batch \subseteq table
  /\ batch # {} <=> pc \in {"handing", "saving"}
  /\ handed \in [Id -> Nat] /\ breaks \in 0..MaxBreaks

\* Nothing is skipped: the cursor never passes a committed event that the
\* listener has not been handed, whatever commits late, fails or dies.
CursorSkipsNothing == \A e \in table : e <= cursor => handed[e] > 0

\* At-least-once stays close to once: all second deliveries together are no more
\* than the crashes, shutdowns and failed saves there were.
Redeliveries == UNION {{e} \X (2..handed[e]) : e \in Id}
FewRedeliveries == Cardinality(Redeliveries) <= breaks

\* Every committed event is acknowledged in the end.
EventuallyPassed == \A e \in Id : e \in table ~> cursor >= e

\* The listener sees a feed: oldest first, again until saved, never after.
Feed == INSTANCE EventFeed
Promised == Feed!FeedSpec
=============================================================================

------------------------------- MODULE ChatBlobs -------------------------------
(***************************************************************************)
(* The custody of the files a chat message carries                         *)
(* (backend/internal/modules/chat): the rows in the database, the objects  *)
(* in the bucket, and the queue of keys that stands between the two.  No   *)
(* transaction covers both stores.  An upload writes objects before rows;  *)
(* the clean-up page marks a row and then deletes inline; a move hands the *)
(* bytes to the documents module; a message delete and the koš only queue  *)
(* keys; and one background job deletes what is due and purges the rooms   *)
(* whose koš window has elapsed.                                           *)
(*                                                                         *)
(* One action per transaction or object-store call: between any two, other *)
(* requests run, the request's context may be cancelled (the failing form  *)
(* of the action), or the process may die.                                 *)
(***************************************************************************)
EXTENDS Integers, FiniteSets

CONSTANTS
  Room, Message, Att, Caller,
  In, On,      \* the room of each message, the message of each attachment
  Image,       \* the attachments a thumbnail may be made of
  Window,      \* HOME_CHAT_TRASH_DAYS
  Batch,       \* drainBatch
  Kinds,       \* a bound: the requests in play, of "upload", "remove" and "move"
  MaxClock, MaxCopies, MaxCrash  \* bounds

ASSUME BlobAssumption ==
  /\ In \in [Message -> Room] /\ On \in [Att -> Message] /\ Image \subseteq Att
  /\ Window \in Nat /\ Batch \in Nat \ {0} /\ MaxClock \in Nat /\ MaxCopies \in Nat /\ MaxCrash \in Nat

Original(a) == <<a, "original">>
Thumb(a)    == <<a, "thumb">>
Key         == Att \X {"original", "thumb"}
AttOf(k)    == k[1]
AttsOf(m)   == {a \in Att : On[a] = m}
RoomOf(a)   == In[On[a]]
Never       == MaxClock + 1   \* the key is not in the queue

VARIABLES
  clock,
  room,     \* chat_conversations: "live", "trashed" since deleted_at, "purged"
  msg,      \* chat_messages: "none", "posted", "deleted" (a tombstone), "gone"
  att,      \* chat_attachments: its state and the keys the row names
  objects,  \* the keys of the bucket under chat/
  queue,    \* chat_deleted_keys: purge_after of each key
  call,     \* the request each caller has under way
  job,      \* the pass of the drain job under way
  copies,   \* objects under documents/ copied from an attachment
  docs,     \* document rows inserted for it
  crashes,
  \* history
  late,     \* rooms restored after their koš window had elapsed
  robbed,   \* rooms the job purged although they were not in the koš any more
  lost      \* keys nobody remembers: their request died, or failed with its repair

table == <<room, msg, att, queue>>
past  == <<crashes, late, robbed>>
vars  == <<clock, table, objects, call, job, copies, docs, past, lost>>

Idle == [step |-> "idle", of |-> "nothing", keys |-> {}, todo |-> {}]
Rest == [step |-> "idle", at |-> 0, keys |-> {}, rooms |-> {}]
NoRow == [state |-> "none", keys |-> {}]

Init ==
  /\ clock = 0 /\ crashes = 0
  /\ room = [r \in Room |-> [state |-> "live", since |-> 0]]
  /\ msg = [m \in Message |-> "none"]
  /\ att = [a \in Att |-> NoRow]
  /\ objects = {} /\ queue = [k \in Key |-> Never]
  /\ call = [c \in Caller |-> Idle] /\ job = Rest
  /\ copies = [a \in Att |-> 0] /\ docs = [a \in Att |-> 0]
  /\ late = {} /\ robbed = {} /\ lost = {}

----------------------------------------------------------------------------
(* The tables. *)

LiveRoom(r) == room[r].state = "live"
Trashed(r)  == room[r].state = "trashed"
Deadline(r) == room[r].since + Window

\* What a row still vouches for.  A message delete leaves its attachments live.
Owned(k) ==
  LET a == AttOf(k) IN att[a].state = "live" /\ msg[On[a]] = "posted" /\ k \in att[a].keys

\* Mutant: QueueKeys and queuePurge overwrite a deadline instead of keeping the MIN.
EarlierOverwrites(s, t) == t

Earlier(s, t) == IF s < t THEN s ELSE t

\* The keys of the live attachments among some messages.
LiveKeys(M) == UNION {att[a].keys : a \in {b \in Att : On[b] \in M /\ att[b].state = "live"}}

MessagesOf(r) == {m \in Message : In[m] = r}

\* INSERT ... ON CONFLICT DO UPDATE SET purge_after = MIN(...)
Promise(keys, due) == [k \in Key |-> IF k \in keys THEN Earlier(queue[k], due) ELSE queue[k]]

\* DELETE FROM chat_conversations, and what cascades from it.
Cascade(r) ==
  /\ room' = [room EXCEPT ![r] = [state |-> "purged", since |-> 0]]
  /\ msg' = [m \in Message |-> IF In[m] = r /\ msg[m] # "none" THEN "gone" ELSE msg[m]]
  /\ att' = [a \in Att |-> IF RoomOf(a) = r /\ att[a].state # "none"
                           THEN [state |-> "gone", keys |-> {}] ELSE att[a]]

Goes(c, step) == call' = [call EXCEPT ![c].step = step]
Done(c)       == call' = [call EXCEPT ![c] = Idle]

\* A request that still has to do something about the objects it names.
InHand(c) == call[c].step \in {"putting", "undoing", "letting go", "queueing"}

Tick ==
  /\ clock < MaxClock /\ clock' = clock + 1
  /\ UNCHANGED <<table, objects, call, job, copies, docs, past, lost>>

----------------------------------------------------------------------------
(* SendMessageMultipart: objects first, then every row in one transaction. *)

UploadBegins(c, m) ==
  /\ call[c] = Idle /\ msg[m] = "none" /\ LiveRoom(In[m])
  /\ \A d \in Caller : call[d].of # m     \* m is this request's message to be
  /\ \E thumbs \in SUBSET (AttsOf(m) \cap Image) :   \* those makeThumbnail succeeds for
       call' = [call EXCEPT ![c] =
         [step |-> "putting", of |-> m, keys |-> {},
          todo |-> {Original(a) : a \in AttsOf(m)} \cup {Thumb(a) : a \in thumbs}]]
  /\ UNCHANGED <<clock, table, objects, job, copies, docs, past, lost>>

\* putStaged takes an attachment's original before its thumbnail.
Putting(c, k) ==
  /\ call[c].step = "putting" /\ k \in call[c].todo
  /\ k = Thumb(AttOf(k)) => Original(AttOf(k)) \notin call[c].todo

Put(c, k) ==
  /\ Putting(c, k)
  /\ objects' = objects \cup {k}
  /\ call' = [call EXCEPT ![c].keys = @ \cup {k}, ![c].todo = @ \ {k}]
  /\ UNCHANGED <<clock, table, job, copies, docs, past, lost>>

\* A failed put may still have landed, and its key is in no list.  A thumbnail is
\* done without; an original fails the request.
PutFails(c, k) ==
  /\ Putting(c, k)
  /\ \E landed \in SUBSET {k} : objects' = objects \cup landed /\ lost' = lost \cup landed
  /\ IF k = Thumb(AttOf(k))
     THEN call' = [call EXCEPT ![c].todo = @ \ {k}]
     ELSE Goes(c, "undoing")
  /\ UNCHANGED <<clock, table, job, copies, docs, past>>

\* commitMessage: membership is asked again, inside the transaction.
Commit(c) ==
  LET m == call[c].of IN
  /\ call[c].step = "putting" /\ call[c].todo = {} /\ LiveRoom(In[m])
  /\ msg' = [msg EXCEPT ![m] = "posted"]
  /\ att' = [a \in Att |-> IF On[a] = m
                           THEN [state |-> "live", keys |-> {k \in call[c].keys : AttOf(k) = a}]
                           ELSE att[a]]
  /\ Done(c)
  /\ UNCHANGED <<clock, room, queue, objects, job, copies, docs, past, lost>>

\* The room is gone, or the transaction failed.
CommitRefused(c) ==
  /\ call[c].step = "putting" /\ call[c].todo = {} /\ Goes(c, "undoing")
  /\ UNCHANGED <<clock, table, objects, job, copies, docs, past, lost>>

\* purgeObjects: key by key up to the first failure, and a failure is only logged.
Undo(c) ==
  /\ call[c].step = "undoing"
  /\ \E deleted \in SUBSET call[c].keys :
       objects' = objects \ deleted /\ lost' = lost \cup (call[c].keys \ deleted)
  /\ Done(c)
  /\ UNCHANGED <<clock, table, job, copies, docs, past>>

----------------------------------------------------------------------------
(* RemoveAttachment and MoveAttachment. *)

\* AttachmentForViewer: the row as it is read before anything else happens.
Viewable(a) == LiveRoom(RoomOf(a)) /\ msg[On[a]] = "posted" /\ att[a].state = "live"

Loads(c, a, step) ==
  /\ call[c] = Idle /\ Viewable(a)
  /\ call' = [call EXCEPT ![c] = [step |-> step, of |-> a, keys |-> att[a].keys, todo |-> {}]]
  /\ UNCHANGED <<clock, table, objects, job, copies, docs, past, lost>>

RemoveBegins(c, a) == Loads(c, a, "removing")
MoveBegins(c, a)   == Loads(c, a, "copying")

\* UPDATE ... WHERE state = 'live': the second of two clicks changes no row.
MarksOnce(a) == att[a].state = "live"

RemoveMarks(c) ==
  LET a == call[c].of IN
  /\ call[c].step = "removing" /\ MarksOnce(a)
  /\ att' = [att EXCEPT ![a] = [state |-> "removed", keys |-> @.keys \ {Thumb(a)}]]
  /\ Goes(c, "letting go")
  /\ UNCHANGED <<clock, room, msg, queue, objects, job, copies, docs, past, lost>>

\* AcceptBlob of documents: the copy, and then the row in its own transaction.
MoveCopies(c) ==
  LET a == call[c].of IN
  /\ call[c].step = "copying" /\ Original(a) \in objects /\ copies[a] < MaxCopies
  /\ copies' = [copies EXCEPT ![a] = @ + 1]
  /\ Goes(c, "inserting")
  /\ UNCHANGED <<clock, table, objects, job, docs, past, lost>>

\* The source may be gone; or the copy landed and its answer did not.
MoveCopyFails(c) ==
  LET a == call[c].of IN
  /\ call[c].step = "copying"
  /\ \/ UNCHANGED copies
     \/ Original(a) \in objects /\ copies[a] < MaxCopies /\ copies' = [copies EXCEPT ![a] = @ + 1]
  /\ Done(c)
  /\ UNCHANGED <<clock, table, objects, job, docs, past, lost>>

MoveInserts(c) ==
  LET a == call[c].of IN
  /\ call[c].step = "inserting"
  /\ docs' = [docs EXCEPT ![a] = @ + 1]
  /\ Goes(c, "marking")
  /\ UNCHANGED <<clock, table, objects, job, copies, past, lost>>

\* Mutant: a failed insert is taken for a document.
MoveInsertFailsUnseen(c) ==
  LET a == call[c].of IN
  /\ call[c].step = "inserting"
  /\ copies' \in {copies, [copies EXCEPT ![a] = @ - 1]}
  /\ Goes(c, "marking")
  /\ UNCHANGED <<clock, table, objects, job, docs, past, lost>>

\* The copy is deleted again, or left for the documents module's own report.
MoveInsertFails(c) ==
  LET a == call[c].of IN
  /\ call[c].step = "inserting"
  /\ copies' \in {copies, [copies EXCEPT ![a] = @ - 1]}
  /\ Done(c)
  /\ UNCHANGED <<clock, table, objects, job, docs, past, lost>>

MoveMarks(c) ==
  LET a == call[c].of IN
  /\ call[c].step = "marking" /\ MarksOnce(a)
  /\ att' = [att EXCEPT ![a].state = "moved"]
  /\ Goes(c, "letting go")
  /\ UNCHANGED <<clock, room, msg, queue, objects, job, copies, docs, past, lost>>

\* The row was cleaned or purged meanwhile, or the transaction failed.
MarkRefused(c) ==
  /\ call[c].step \in {"removing", "marking"} /\ Done(c)
  /\ UNCHANGED <<clock, table, objects, job, copies, docs, past, lost>>

\* The inline delete.
LetsGo(c) ==
  /\ call[c].step = "letting go"
  /\ objects' = objects \ call[c].keys
  /\ Done(c)
  /\ UNCHANGED <<clock, table, job, copies, docs, past, lost>>

\* Mutant: a failed inline delete is the end of it.
LetGoFailsQuietly(c) ==
  /\ call[c].step = "letting go"
  /\ \E deleted \in SUBSET call[c].keys : objects' = objects \ deleted
  /\ Done(c)
  /\ UNCHANGED <<clock, table, job, copies, docs, past, lost>>

LetGoFails(c) ==
  /\ call[c].step = "letting go"
  /\ \E deleted \in SUBSET call[c].keys : objects' = objects \ deleted
  /\ Goes(c, "queueing")
  /\ UNCHANGED <<clock, table, job, copies, docs, past, lost>>

\* queueOrphan: key by key, under the request's own context.
Queues(c) ==
  /\ call[c].step = "queueing"
  /\ \E queued \in SUBSET call[c].keys :
       queue' = Promise(queued, clock) /\ lost' = lost \cup (objects \cap (call[c].keys \ queued))
  /\ Done(c)
  /\ UNCHANGED <<clock, room, msg, att, objects, job, copies, docs, past>>

----------------------------------------------------------------------------
(* What only queues: a deleted message, a trashed, restored or purged room. *)

\* SoftDeleteMessage: INSERT OR IGNORE, due at once.
DeleteMessage(m) ==
  /\ msg[m] = "posted" /\ LiveRoom(In[m])
  /\ msg' = [msg EXCEPT ![m] = "deleted"]
  /\ queue' = [k \in Key |-> IF k \in LiveKeys({m}) /\ queue[k] = Never THEN clock ELSE queue[k]]
  /\ UNCHANGED <<clock, room, att, objects, call, job, copies, docs, past, lost>>

\* DeleteConversation, soft.
Trash(r) ==
  /\ LiveRoom(r) /\ clock + Window <= MaxClock
  /\ queue' = Promise(LiveKeys(MessagesOf(r)), clock + Window)
  /\ room' = [room EXCEPT ![r] = [state |-> "trashed", since |-> clock]]
  /\ UNCHANGED <<clock, msg, att, objects, call, job, copies, docs, past, lost>>

\* DeleteConversation, hard: reached from the koš or not.
Purge(r) ==
  /\ LiveRoom(r) \/ Trashed(r)
  /\ queue' = Promise(LiveKeys(MessagesOf(r)), clock)
  /\ Cascade(r)
  /\ UNCHANGED <<clock, objects, call, job, copies, docs, past, lost>>

\* Mutant: nothing is withdrawn.
WithdrawnNone(r) == {}

\* The keys a restore withdraws: not those a message delete queued.
Withdrawn(r) == {k \in LiveKeys(MessagesOf(r)) : msg[On[AttOf(k)]] = "posted"}

Restore(r) ==
  /\ Trashed(r)
  /\ queue' = [k \in Key |-> IF k \in Withdrawn(r) THEN Never ELSE queue[k]]
  /\ room' = [room EXCEPT ![r] = [state |-> "live", since |-> 0]]
  /\ late' = IF clock >= Deadline(r) THEN late \cup {r} ELSE late
  /\ UNCHANGED <<clock, msg, att, objects, call, job, copies, docs, crashes, robbed, lost>>

----------------------------------------------------------------------------
(* DrainJob: what is due at the pass's instant, then the expired rooms. *)

DueKeys == {k \in Key : queue[k] <= clock}

\* ORDER BY purge_after LIMIT drainBatch
IsBatch(B) ==
  /\ B \subseteq DueKeys
  /\ Cardinality(B) <= Batch /\ (B # DueKeys => Cardinality(B) = Batch)
  /\ \A k \in B, l \in DueKeys \ B : queue[k] <= queue[l]

\* Mutant: a pass that finds no key due is over.
JobBeginsIdle ==
  /\ job = Rest
  /\ \E B \in SUBSET DueKeys :
       /\ IsBatch(B) /\ B # {}
       /\ job' = [step |-> "deleting", at |-> clock, keys |-> B, rooms |-> {}]
  /\ UNCHANGED <<clock, table, objects, call, copies, docs, past, lost>>

JobBegins ==
  /\ job = Rest
  /\ \E B \in SUBSET DueKeys :
       /\ IsBatch(B)
       /\ job' = [step |-> IF B = {} THEN "listing" ELSE "deleting",
                  at |-> clock, keys |-> B, rooms |-> {}]
  /\ UNCHANGED <<clock, table, objects, call, copies, docs, past, lost>>

JobDeletes ==
  /\ job.step = "deleting"
  /\ objects' = objects \ job.keys
  /\ job' = [job EXCEPT !.step = "clearing"]
  /\ UNCHANGED <<clock, table, call, copies, docs, past, lost>>

\* The delete stops at the first failure and the pass ends: every key stays queued.
JobDeleteFails ==
  /\ job.step = "deleting"
  /\ \E deleted \in SUBSET job.keys : objects' = objects \ deleted
  /\ job' = Rest
  /\ UNCHANGED <<clock, table, call, copies, docs, past, lost>>

JobClears ==
  /\ job.step = "clearing"
  /\ queue' = [k \in Key |-> IF k \in job.keys THEN Never ELSE queue[k]]
  /\ job' = [job EXCEPT !.step = "listing"]
  /\ UNCHANGED <<clock, room, msg, att, objects, call, copies, docs, past, lost>>

JobClearFails ==
  /\ job.step = "clearing" /\ job' = Rest
  /\ UNCHANGED <<clock, table, objects, call, copies, docs, past, lost>>

Expired(r) == Trashed(r) /\ Deadline(r) <= job.at

JobLists ==
  /\ job.step = "listing"
  /\ LET rooms == {r \in Room : Expired(r)} IN
       job' = IF rooms = {} THEN Rest ELSE [job EXCEPT !.step = "purging", !.rooms = rooms]
  /\ UNCHANGED <<clock, table, objects, call, copies, docs, past, lost>>

Departs(r) ==
  job' = IF job.rooms = {r} THEN Rest ELSE [job EXCEPT !.rooms = @ \ {r}]

\* DELETE ... WHERE id = ?, whatever became of the room since it was listed.
JobPurges(r) ==
  /\ job.step = "purging" /\ r \in job.rooms
  /\ Cascade(r)
  /\ robbed' = IF Trashed(r) \/ room[r].state = "purged" THEN robbed ELSE robbed \cup {r}
  /\ Departs(r)
  /\ UNCHANGED <<clock, queue, objects, call, copies, docs, crashes, late, lost>>

JobPurgeFails(r) ==
  /\ job.step = "purging" /\ r \in job.rooms /\ Departs(r)
  /\ UNCHANGED <<clock, table, objects, call, copies, docs, past, lost>>

----------------------------------------------------------------------------

\* The requests and the pass are gone; both stores stay as they are.
Crash ==
  /\ crashes < MaxCrash /\ crashes' = crashes + 1
  /\ lost' = lost \cup (objects \cap UNION {call[c].keys : c \in {d \in Caller : InHand(d)}})
  /\ call' = [c \in Caller |-> Idle] /\ job' = Rest
  /\ UNCHANGED <<clock, table, objects, copies, docs, late, robbed>>

Work(c) ==
  \/ \E k \in Key : Put(c, k) \/ PutFails(c, k)
  \/ Commit(c) \/ CommitRefused(c) \/ Undo(c)
  \/ RemoveMarks(c) \/ MoveMarks(c) \/ MarkRefused(c)
  \/ MoveCopies(c) \/ MoveCopyFails(c) \/ MoveInserts(c) \/ MoveInsertFails(c)
  \/ LetsGo(c) \/ LetGoFails(c) \/ Queues(c)

Asks(c) ==
  \/ "upload" \in Kinds /\ \E m \in Message : UploadBegins(c, m)
  \/ "remove" \in Kinds /\ \E a \in Att : RemoveBegins(c, a)
  \/ "move" \in Kinds /\ \E a \in Att : MoveBegins(c, a)

JobStep ==
  \/ JobBegins \/ JobDeletes \/ JobDeleteFails \/ JobClears \/ JobClearFails \/ JobLists
  \/ \E r \in Room : JobPurges(r) \/ JobPurgeFails(r)

Next ==
  \/ Tick \/ Crash \/ JobStep
  \/ \E c \in Caller : Asks(c) \/ Work(c)
  \/ \E m \in Message : DeleteMessage(m)
  \/ \E r \in Room : Trash(r) \/ Purge(r) \/ Restore(r)

Spec == Init /\ [][Next]_vars

\* Time passes; a request ends; the scheduler keeps running the job, and a delete, a
\* clearing and a purge that are tried over and over succeed at last.
Fairness ==
  /\ WF_vars(Tick)
  /\ \A c \in Caller : WF_vars(Work(c))
  /\ WF_vars(JobStep)
  /\ SF_vars(JobDeletes) /\ SF_vars(JobClears)
  /\ \A r \in Room : SF_vars(JobPurges(r))

FairSpec == Spec /\ Fairness

----------------------------------------------------------------------------
(* Properties. *)

\* In the koš, and past its window.
Overdue(r) == Trashed(r) /\ Deadline(r) <= clock

\* Whether the members of a room can still come back to its files.
Recoverable(r) == LiveRoom(r) \/ (Trashed(r) /\ ~Overdue(r))

\* Every object a row vouches for is in the bucket, the thumbnail too, while the
\* room is readable or within its koš window, whatever requests, job passes and
\* crashes do (upload.go:169-188, move.go:32-35, service.go:550); a restore after the
\* window is the exception, for the job may have deleted the objects by then.  And a moved attachment has a
\* document with bytes of its own.
NothingIsLost ==
  /\ \A k \in Key : Owned(k) /\ Recoverable(RoomOf(AttOf(k))) /\ RoomOf(AttOf(k)) \notin late
                    => k \in objects
  /\ \A a \in Att : /\ docs[a] <= copies[a]
                    /\ att[a].state = "moved" => docs[a] > 0

\* An object in the bucket is never merely forgotten: a row owns it, the queue will
\* delete it, or a request still has it in hand (drain.go:45-49, upload.go:184-188).
\* What escapes is what a request lost by dying, or by failing together with its
\* repair, and what the purge of a restored room strands.
NoSilentOrphan ==
  \A k \in objects :
    \/ Owned(k) \/ queue[k] # Never
    \/ \E c \in Caller : InHand(c) /\ k \in call[c].keys
    \/ k \in lost \/ RoomOf(AttOf(k)) \in robbed

\* The bytes of a message its author deleted are due at once, and nothing puts that
\* off: neither trashing the room afterwards nor restoring it (service.go:675-682,
\* store.go:399-406).
DeletedIsDue ==
  \A k \in objects : LET a == AttOf(k) IN
    msg[On[a]] = "deleted" /\ att[a].state = "live" /\ k \in att[a].keys => queue[k] <= clock

\* What the queue promises happens: a due key's object goes unless the promise is
\* withdrawn, and an expired room goes unless it is restored (drain.go:43-51, 153-158).
PromisesAreKept ==
  /\ \A k \in Key : (queue[k] <= clock) ~> (k \notin objects \/ queue[k] > clock)
  /\ \A r \in Room : Overdue(r) ~> ~Overdue(r)

\* Deletions come in time.  Bytes whose author deleted them are due after every step;
\* and the job takes no room whose koš window is still open (drain.go:153-155), save
\* one that was restored after its window and is hit out of turn.
DeletionsAreTimely ==
  [][/\ DeletedIsDue'
     /\ \A r \in Room \ late : JobPurges(r) /\ room[r].state # "purged" => Overdue(r)]_vars

\* "Destroys the rows of every conversation whose koš window has elapsed"
\* (drain.go:153-154), of no other.
OnlyExpiredGo ==
  [][\A r \in Room : JobPurges(r) /\ room[r].state # "purged" => Overdue(r)]_vars
=============================================================================

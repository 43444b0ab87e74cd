--------------------------- MODULE ChatBlobsProofs ---------------------------
(***************************************************************************)
(* Proofs about ChatBlobs, for any rooms, messages, attachments, requests, *)
(* window, batch and number of crashes: that nothing a row vouches for is  *)
(* lost, that no object is merely forgotten, and that deletions come in    *)
(* time.                                                                   *)
(*                                                                         *)
(* The argument: a key is queued only when its row is no longer owned, or  *)
(* for the day the window of its room ends (QueueInv); so what the job has *)
(* in hand is nothing that can still be come back to (JobInv), and what a  *)
(* request has in hand is not yet owned or not owned any more (CallInv).   *)
(***************************************************************************)
EXTENDS ChatBlobs, FiniteSetTheorems, TLAPS

\* Whose keys a request holds: those of the message it uploads, or of an attachment
\* that it is still to mark, or has marked.
Uploading == {"putting", "undoing"}
Marking   == {"removing", "copying", "inserting", "marking"}
Letting   == {"letting go", "queueing"}
FilesOf(m) == {k \in Key : On[AttOf(k)] = m}
KeysOf(a)  == {k \in Key : AttOf(k) = a}

CallType == [step : {"idle"} \cup Uploading \cup Marking \cup Letting,
             of : Message \cup Att \cup {"nothing"}, keys : SUBSET Key, todo : SUBSET Key]
JobType == [step : {"idle", "deleting", "clearing", "listing", "purging"},
            at : Nat, keys : SUBSET Key, rooms : SUBSET Room]

TypeOK ==
  /\ clock \in 0..MaxClock
  /\ room \in [Room -> [state : {"live", "trashed", "purged"}, since : Nat]]
  /\ msg \in [Message -> {"none", "posted", "deleted", "gone"}]
  /\ att \in [Att -> [state : {"none", "live", "removed", "moved", "gone"}, keys : SUBSET Key]]
  /\ objects \subseteq Key /\ queue \in [Key -> 0..Never]
  /\ call \in [Caller -> CallType] /\ job \in JobType
  /\ copies \in [Att -> Nat] /\ docs \in [Att -> Nat]

\* A message has its attachments from its commit on, each with keys of its own; and a
\* purged room keeps no message.
RowInv ==
  /\ \A a \in Att : att[a].keys \subseteq KeysOf(a) /\ (att[a].state = "none" <=> msg[On[a]] = "none")
  /\ \A m \in Message : room[In[m]].state = "purged" => msg[m] \in {"none", "gone"}

\* What a row vouches for is queued for the end of its room's window, if it is queued; and
\* if the job has taken it out of a trashed room's queue, it is no longer there.
QueueInv ==
  /\ \A k \in Key : msg[On[AttOf(k)]] = "none" => queue[k] = Never
  /\ \A k \in Key : Owned(k) =>
       LET r == RoomOf(AttOf(k)) IN
       \/ LiveRoom(r) /\ queue[k] = Never
       \/ Trashed(r) /\ (queue[k] = Deadline(r) \/ (queue[k] = Never /\ k \notin objects))

\* A room goes into the koš when its window ends within the horizon.
WindowInv == \A r \in Room : Trashed(r) => Deadline(r) <= MaxClock

CallOK(k) ==
  /\ k.step \in Uploading =>
       /\ k.of \in Message /\ msg[k.of] = "none"
       /\ k.keys \subseteq FilesOf(k.of) /\ k.todo \subseteq FilesOf(k.of)
       /\ k.step = "putting" => k.keys \subseteq objects
  /\ k.step \in Marking \cup Letting => k.of \in Att /\ k.keys \subseteq KeysOf(k.of) /\ att[k.of].state # "none"
  /\ k.step \in Marking => (att[k.of].state = "live" => k.keys = att[k.of].keys)
  /\ k.step \in Letting => att[k.of].state # "live"
CallInv ==
  /\ \A c \in Caller : CallOK(call[c])
  /\ \A c, d \in Caller : call[c].step \in Uploading /\ call[d].step \in Uploading /\ call[c].of = call[d].of => c = d

\* Whether the members of its room have no way back to a key, or had none when it fell due.
Forfeit(k) == Owned(k) => ~Recoverable(RoomOf(AttOf(k))) \/ RoomOf(AttOf(k)) \in late

JobInv ==
  /\ job.at <= clock
  /\ job.step \in {"deleting", "clearing"} => \A k \in job.keys : msg[On[AttOf(k)]] # "none" /\ Forfeit(k)
  /\ job.step = "clearing" => job.keys \cap objects = {}
  /\ job.step = "purging" => \A r \in job.rooms \ late : Overdue(r) \/ room[r].state = "purged"

\* A copy of an attachment in the documents' part of the bucket has its row, or a request
\* that is about to insert it.
Inserting(a) == {c \in Caller : call[c].step = "inserting" /\ call[c].of = a}
CopyInv ==
  \A a \in Att : /\ IsFiniteSet(Inserting(a)) /\ docs[a] + Cardinality(Inserting(a)) <= copies[a]
                 /\ att[a].state = "moved" => docs[a] > 0
                 /\ \A c \in Caller : call[c].step = "marking" /\ call[c].of = a => docs[a] > 0

OwnedIsThere ==
  \A k \in Key : Owned(k) /\ Recoverable(RoomOf(AttOf(k))) /\ RoomOf(AttOf(k)) \notin late => k \in objects

Custody == RowInv /\ WindowInv /\ QueueInv /\ CallInv /\ JobInv
IInv == TypeOK /\ Custody /\ OwnedIsThere /\ CopyInv /\ NoSilentOrphan /\ DeletedIsDue

----------------------------------------------------------------------------
(* Keys. *)

LEMMA KeyFacts ==
  /\ \A k \in Key : AttOf(k) \in Att /\ On[AttOf(k)] \in Message /\ RoomOf(AttOf(k)) \in Room
  /\ \A a \in Att : Original(a) \in Key /\ Thumb(a) \in Key /\ AttOf(Original(a)) = a /\ AttOf(Thumb(a)) = a
  /\ \A a \in Att : On[a] \in Message /\ RoomOf(a) = In[On[a]] /\ RoomOf(a) \in Room
<1>1. \A a \in Att : On[a] \in Message /\ RoomOf(a) = In[On[a]] /\ RoomOf(a) \in Room
  BY BlobAssumption DEF RoomOf
<1>2. \A k \in Key : AttOf(k) \in Att
  BY DEF Key, AttOf
<1>3. \A a \in Att : Original(a) \in Key /\ Thumb(a) \in Key /\ AttOf(Original(a)) = a /\ AttOf(Thumb(a)) = a
  BY DEF Key, AttOf, Original, Thumb
<1> QED
  BY <1>1, <1>2, <1>3

LEMMA Clocks == MaxClock \in Nat /\ Window \in Nat /\ Never \in Nat /\ \A t \in 0..MaxClock : t < Never
BY BlobAssumption DEF Never

LEMMA Promises ==
  ASSUME TypeOK, NEW K \in SUBSET Key, NEW due \in 0..MaxClock
  PROVE  /\ Promise(K, due) \in [Key -> 0..Never]
         /\ \A k \in K : Promise(K, due)[k] <= due /\ (queue[k] <= due => Promise(K, due)[k] = queue[k])
                         /\ (queue[k] = Never => Promise(K, due)[k] = due)
         /\ \A k \in Key \ K : Promise(K, due)[k] = queue[k]
         /\ \A k \in Key : Promise(K, due)[k] <= queue[k]
<1>1. due \in 0..Never /\ due \in Int /\ Never \in Int /\ queue \in [Key -> 0..Never]
  <2>1. due \in 0..Never /\ due \in Int /\ Never \in Int
    BY Clocks
  <2> QED
    BY <2>1 DEF TypeOK
<1>2. \A k \in Key : Promise(K, due)[k] = IF k \in K THEN (IF queue[k] < due THEN queue[k] ELSE due) ELSE queue[k]
  BY DEF Promise, Earlier
<1>3. Promise(K, due) = [k \in Key |-> Promise(K, due)[k]]
  BY DEF Promise
<1>4. \A k \in Key : Promise(K, due)[k] \in 0..Never /\ Promise(K, due)[k] <= queue[k]
  BY <1>1, <1>2
<1>5. \A k \in K : Promise(K, due)[k] <= due /\ (queue[k] <= due => Promise(K, due)[k] = queue[k])
                  /\ (queue[k] = Never => Promise(K, due)[k] = due)
  BY <1>1, <1>2, Clocks
<1>6. Promise(K, due) \in [Key -> 0..Never]
  BY <1>3, <1>4
<1> QED
  BY <1>2, <1>4, <1>5, <1>6

\* A message's row and its attachments', in a word.
LEMMA LiveKeysAre ==
  ASSUME TypeOK, RowInv, NEW M
  PROVE  /\ LiveKeys(M) \subseteq Key
         /\ \A k \in Key : k \in LiveKeys(M) <=> On[AttOf(k)] \in M /\ att[AttOf(k)].state = "live" /\ k \in att[AttOf(k)].keys
BY KeyFacts DEF TypeOK, RowInv, LiveKeys, KeysOf

----------------------------------------------------------------------------
(* The kinds of steps. *)

\* Neither the tables nor the bucket change.
Quiet == UNCHANGED <<table, objects, late>> /\ clock <= clock'

CallBucket(c) == \/ \E k \in Key : Put(c, k) \/ PutFails(c, k)
                 \/ Undo(c) \/ LetsGo(c) \/ LetGoFails(c)
BucketStep == /\ UNCHANGED <<table, late, clock>>
              /\ (\E c \in Caller : CallBucket(c)) \/ JobDeletes \/ JobDeleteFails

CallTable(c) == Commit(c) \/ RemoveMarks(c) \/ MoveMarks(c) \/ Queues(c)
TableStep == \/ \E c \in Caller : CallTable(c)
             \/ \E m \in Message : DeleteMessage(m)
             \/ \E r \in Room : Trash(r) \/ Purge(r) \/ Restore(r) \/ JobPurges(r)
             \/ JobClears

LEMMA StepKinds ==
  ASSUME TypeOK, Next
  PROVE  Quiet \/ BucketStep \/ TableStep
<1>1. CASE Tick \/ Crash
  <2>1. UNCHANGED <<table, objects>> /\ (clock' = clock \/ clock' = clock + 1)
    BY <1>1 DEF Tick, Crash
  <2>2. late' = late
    BY <1>1 DEF Tick, Crash, past
  <2>3. clock \in Int
    BY DEF TypeOK
  <2> QED
    BY <2>1, <2>2, <2>3 DEF Quiet
<1>2. CASE JobStep
  <2>1. CASE JobBegins \/ JobClearFails \/ JobLists \/ \E r \in Room : JobPurgeFails(r)
    <3>1. UNCHANGED <<table, objects, clock, past>> /\ clock \in Int
      BY <2>1 DEF JobBegins, JobClearFails, JobLists, JobPurgeFails, TypeOK
    <3> QED
      BY <3>1 DEF Quiet, past
  <2>2. CASE JobDeletes \/ JobDeleteFails
    BY <2>2 DEF JobDeletes, JobDeleteFails, BucketStep, past
  <2>3. CASE JobClears \/ \E r \in Room : JobPurges(r)
    BY <2>3 DEF TableStep
  <2> QED
    BY <1>2, <2>1, <2>2, <2>3 DEF JobStep
<1>3. ASSUME NEW c \in Caller, Asks(c) PROVE Quiet
  BY <1>3 DEF Asks, UploadBegins, RemoveBegins, MoveBegins, Loads, Quiet, table, past, TypeOK
<1>4. ASSUME NEW c \in Caller, Work(c) PROVE Quiet \/ BucketStep \/ TableStep
  <2>1. CASE CallBucket(c)
    BY <2>1 DEF CallBucket, Put, PutFails, Undo, LetsGo, LetGoFails, BucketStep, table, past
  <2>2. CASE CallTable(c)
    BY <2>2 DEF TableStep
  <2>3. CASE CommitRefused(c) \/ MarkRefused(c)
    BY <2>3 DEF CommitRefused, MarkRefused, Quiet, table, past, TypeOK
  <2>4. CASE MoveCopies(c) \/ MoveCopyFails(c) \/ MoveInserts(c) \/ MoveInsertFails(c)
    BY <2>4 DEF MoveCopies, MoveCopyFails, MoveInserts, MoveInsertFails, Quiet, table, past, TypeOK
  <2> QED
    BY <1>4, <2>1, <2>2, <2>3, <2>4 DEF Work, CallBucket, CallTable
<1>5. CASE (\E m \in Message : DeleteMessage(m)) \/ \E r \in Room : Trash(r) \/ Purge(r) \/ Restore(r)
  BY <1>5 DEF TableStep
<1> QED
  BY <1>1, <1>2, <1>3, <1>4, <1>5 DEF Next

----------------------------------------------------------------------------
(* Types. *)

LEMMA InitHolds == Init => IInv
<1> SUFFICES ASSUME Init PROVE IInv
  OBVIOUS
<1>1. TypeOK
  BY Clocks DEF Init, TypeOK, CallType, JobType, NoRow, Idle, Rest
<1>2. RowInv
  BY KeyFacts, BlobAssumption DEF Init, RowInv, NoRow
<1>3. QueueInv
  BY KeyFacts DEF Init, QueueInv, Owned, NoRow
<1>4. CallInv
  BY DEF Init, CallInv, CallOK, Idle, Uploading, Marking, Letting
<1>5. JobInv /\ OwnedIsThere /\ NoSilentOrphan /\ DeletedIsDue
  BY KeyFacts DEF Init, JobInv, Rest, OwnedIsThere, NoSilentOrphan, DeletedIsDue, Owned, NoRow
<1>6. CopyInv
  <2>1. \A a \in Att : Inserting(a) = {} /\ docs[a] = 0 /\ copies[a] = 0 /\ att[a].state = "none"
    BY DEF Init, Inserting, Idle, NoRow
  <2>2. \A c \in Caller : call[c].step # "marking"
    BY DEF Init, Idle
  <2> QED
    BY <2>1, <2>2, FS_EmptySet DEF CopyInv
<1>7. WindowInv
  BY DEF Init, WindowInv, Trashed
<1> QED
  BY <1>1, <1>2, <1>3, <1>4, <1>5, <1>6, <1>7 DEF IInv, Custody

\* A copy whose row is about to be inserted is still to spare.
LEMMA CopyToSpare ==
  ASSUME TypeOK, CopyInv, NEW c \in Caller, call[c].step = "inserting", NEW a \in Att, call[c].of = a
  PROVE  docs[a] < copies[a]
<1>1. IsFiniteSet(Inserting(a)) /\ c \in Inserting(a)
  BY DEF CopyInv, Inserting
<1>2. Cardinality(Inserting(a)) \in Nat /\ Cardinality(Inserting(a)) # 0
  BY <1>1, FS_CardinalityType, FS_EmptySet
<1> QED
  BY <1>2 DEF CopyInv, TypeOK

LEMMA CascadeTypes ==
  ASSUME TypeOK, NEW r \in Room, Cascade(r)
  PROVE  /\ room' \in [Room -> [state : {"live", "trashed", "purged"}, since : Nat]]
         /\ msg' \in [Message -> {"none", "posted", "deleted", "gone"}]
         /\ att' \in [Att -> [state : {"none", "live", "removed", "moved", "gone"}, keys : SUBSET Key]]
BY DEF TypeOK, Cascade

LEMMA CallChanges ==
  ASSUME TypeOK, NEW c \in Caller, NEW new \in CallType, call' = [call EXCEPT ![c] = new]
  PROVE  call' \in [Caller -> CallType] /\ call'[c] = new /\ \A d \in Caller \ {c} : call'[d] = call[d]
BY DEF TypeOK

\* What becomes of the request that takes a step.
LEMMA CallTypes ==
  ASSUME TypeOK, NEW c \in Caller
  PROVE  /\ Idle \in CallType
         /\ Done(c) => call' \in [Caller -> CallType] /\ call'[c] = Idle /\ \A d \in Caller \ {c} : call'[d] = call[d]
         /\ \A s \in {"idle"} \cup Uploading \cup Marking \cup Letting :
              Goes(c, s) => /\ call' \in [Caller -> CallType] /\ \A d \in Caller \ {c} : call'[d] = call[d]
                            /\ call'[c] = [call[c] EXCEPT !.step = s]
<1>1. Idle \in CallType
  BY DEF Idle, CallType
<1>2. call \in [Caller -> CallType] /\ call[c] \in CallType
  BY DEF TypeOK
<1>3. ASSUME NEW s \in {"idle"} \cup Uploading \cup Marking \cup Letting PROVE [call[c] EXCEPT !.step = s] \in CallType
  BY <1>2, <1>3 DEF CallType
<1> QED
  BY <1>1, <1>2, <1>3 DEF Done, Goes

LEMMA TypeStep ==
  ASSUME TypeOK, RowInv, CallInv, CopyInv, Next
  PROVE  TypeOK'
<1> USE Clocks
<1>1. CASE Tick
  BY <1>1 DEF Tick, TypeOK, table, past
<1>2. CASE Crash
  <2>1. call' \in [Caller -> CallType] /\ job' \in JobType
    BY <1>2, CallTypes DEF Crash, Rest, JobType, Idle, CallType
  <2> QED
    BY <1>2, <2>1 DEF Crash, TypeOK, table, past
<1>3. CASE JobStep
  <2>1. CASE JobBegins
    BY <1>3, <2>1 DEF JobBegins, TypeOK, JobType, table, past, DueKeys, IsBatch
  <2>2. CASE JobDeletes \/ JobDeleteFails \/ JobClearFails \/ JobLists
    <3>1. objects' \subseteq objects
      BY <2>2 DEF JobDeletes, JobDeleteFails, JobClearFails, JobLists
    <3>2. \/ job' = Rest \/ job' = [job EXCEPT !.step = "clearing"]
          \/ job' = [job EXCEPT !.step = "purging", !.rooms = {r \in Room : Expired(r)}]
      BY <2>2 DEF JobDeletes, JobDeleteFails, JobClearFails, JobLists
    <3>3. job' \in JobType
      <4>1. job \in JobType
        BY DEF TypeOK
      <4>2. Rest \in JobType
        BY DEF Rest, JobType
      <4>3. [job EXCEPT !.step = "clearing"] \in JobType
        BY <4>1 DEF JobType
      <4>4. [job EXCEPT !.step = "purging", !.rooms = {r \in Room : Expired(r)}] \in JobType
        BY <4>1 DEF JobType
      <4> QED
        BY <3>2, <4>2, <4>3, <4>4
    <3> QED
      BY <2>2, <3>1, <3>3 DEF JobDeletes, JobDeleteFails, JobClearFails, JobLists, TypeOK, table, past
  <2>3. CASE JobClears
    BY <2>3 DEF JobClears, TypeOK, JobType, past
  <2>4. ASSUME NEW r \in Room, JobPurges(r) PROVE TypeOK'
    <3>1. job' \in JobType
      BY <2>4 DEF JobPurges, Departs, TypeOK, JobType, Rest
    <3> QED
      BY <2>4, <3>1, CascadeTypes DEF JobPurges, TypeOK
  <2>5. ASSUME NEW r \in Room, JobPurgeFails(r) PROVE TypeOK'
    <3>1. job' \in JobType
      BY <2>5 DEF JobPurgeFails, Departs, TypeOK, JobType, Rest
    <3> QED
      BY <2>5, <3>1 DEF JobPurgeFails, TypeOK, table, past
  <2> QED
    BY <1>3, <2>1, <2>2, <2>3, <2>4, <2>5 DEF JobStep
<1>4. ASSUME NEW c \in Caller, Asks(c) PROVE TypeOK'
  <2>1. ASSUME NEW m \in Message, UploadBegins(c, m) PROVE TypeOK'
    <3>1. PICK thumbs \in SUBSET (AttsOf(m) \cap Image) :
            call' = [call EXCEPT ![c] =
              [step |-> "putting", of |-> m, keys |-> {},
               todo |-> {Original(a) : a \in AttsOf(m)} \cup {Thumb(a) : a \in thumbs}]]
      BY <2>1 DEF UploadBegins
    <3>2. {Original(a) : a \in AttsOf(m)} \cup {Thumb(a) : a \in thumbs} \subseteq Key
      BY KeyFacts DEF AttsOf
    <3>3. call' \in [Caller -> CallType]
      BY <3>1, <3>2 DEF TypeOK, CallType, Uploading
    <3> QED
      BY <2>1, <3>3 DEF UploadBegins, TypeOK, table, past
  <2>2. ASSUME NEW a \in Att, RemoveBegins(c, a) \/ MoveBegins(c, a) PROVE TypeOK'
    <3>1. call' \in [Caller -> CallType]
      <4>1. PICK s \in {"removing", "copying"} :
              call' = [call EXCEPT ![c] = [step |-> s, of |-> a, keys |-> att[a].keys, todo |-> {}]]
        BY <2>2 DEF RemoveBegins, MoveBegins, Loads
      <4>2. [step |-> s, of |-> a, keys |-> att[a].keys, todo |-> {}] \in CallType
        BY DEF TypeOK, CallType, Marking
      <4> QED
        BY <4>1, <4>2, CallChanges
    <3> QED
      BY <2>2, <3>1 DEF RemoveBegins, MoveBegins, Loads, TypeOK, table, past
  <2> QED
    BY <1>4, <2>1, <2>2 DEF Asks
<1>5. ASSUME NEW c \in Caller, Work(c) PROVE TypeOK'
  <2>1. ASSUME NEW k \in Key, Put(c, k) \/ PutFails(c, k) PROVE TypeOK'
    <3>1. call' \in [Caller -> CallType]
      <4>1. \/ call' = [call EXCEPT ![c] = [call[c] EXCEPT !.keys = @ \cup {k}, !.todo = @ \ {k}]]
            \/ call' = [call EXCEPT ![c] = [call[c] EXCEPT !.todo = @ \ {k}]]
            \/ Goes(c, "undoing")
        BY <2>1 DEF Put, PutFails, TypeOK
      <4>2. call[c] \in CallType
        BY DEF TypeOK
      <4>3. /\ [call[c] EXCEPT !.keys = @ \cup {k}, !.todo = @ \ {k}] \in CallType
            /\ [call[c] EXCEPT !.todo = @ \ {k}] \in CallType
        BY <4>2 DEF CallType
      <4> QED
        BY <4>1, <4>3, CallChanges, CallTypes DEF Uploading
    <3> QED
      BY <2>1, <3>1 DEF Put, PutFails, TypeOK, table, past
  <2>2. CASE Undo(c) \/ LetsGo(c) \/ LetGoFails(c) \/ CommitRefused(c) \/ MarkRefused(c)
    <3>1. call' \in [Caller -> CallType]
      BY <2>2, CallTypes DEF Undo, LetsGo, LetGoFails, CommitRefused, MarkRefused, Uploading, Letting
    <3> QED
      BY <2>2, <3>1 DEF Undo, LetsGo, LetGoFails, CommitRefused, MarkRefused, TypeOK, table, past
  <2>3. CASE Commit(c)
    <3>1. call' \in [Caller -> CallType]
      BY <2>3, CallTypes DEF Commit
    <3>2. msg' \in [Message -> {"none", "posted", "deleted", "gone"}]
      BY <2>3 DEF Commit, TypeOK
    <3>3. att' \in [Att -> [state : {"none", "live", "removed", "moved", "gone"}, keys : SUBSET Key]]
      BY <2>3 DEF Commit, TypeOK, CallType
    <3> QED
      BY <2>3, <3>1, <3>2, <3>3 DEF Commit, TypeOK
  <2>4. CASE RemoveMarks(c) \/ MoveMarks(c)
    <3>1. call' \in [Caller -> CallType]
      BY <2>4, CallTypes DEF RemoveMarks, MoveMarks, Letting
    <3>2. att' \in [Att -> [state : {"none", "live", "removed", "moved", "gone"}, keys : SUBSET Key]]
      <4>1. ASSUME NEW a \in Att
            PROVE  att'[a] \in [state : {"none", "live", "removed", "moved", "gone"}, keys : SUBSET Key]
        <5>1. att[a] \in [state : {"none", "live", "removed", "moved", "gone"}, keys : SUBSET Key]
          BY DEF TypeOK
        <5>2. \/ att'[a] = att[a]
              \/ att'[a] = [state |-> "removed", keys |-> att[a].keys \ {Thumb(a)}]
              \/ att'[a] = [att[a] EXCEPT !.state = "moved"]
          BY <2>4 DEF RemoveMarks, MoveMarks, TypeOK
        <5> QED
          BY <5>1, <5>2
      <4>2. att' = [a \in Att |-> att'[a]]
        BY <2>4 DEF RemoveMarks, MoveMarks, TypeOK
      <4> QED
        BY <4>1, <4>2
    <3> QED
      BY <2>4, <3>1, <3>2 DEF RemoveMarks, MoveMarks, TypeOK
  <2>5. CASE Queues(c)
    <3>1. call' \in [Caller -> CallType] /\ call[c].keys \subseteq Key
      BY <2>5, CallTypes DEF Queues, TypeOK, CallType
    <3>2. queue' \in [Key -> 0..Never]
      <4>1. PICK queued \in SUBSET call[c].keys : queue' = Promise(queued, clock)
        BY <2>5 DEF Queues
      <4> QED
        BY <3>1, <4>1, Promises DEF TypeOK
    <3> QED
      BY <2>5, <3>1, <3>2 DEF Queues, TypeOK
  <2>6. CASE MoveCopies(c) \/ MoveCopyFails(c) \/ MoveInserts(c) \/ MoveInsertFails(c)
    <3>1. call' \in [Caller -> CallType]
      BY <2>6, CallTypes DEF MoveCopies, MoveCopyFails, MoveInserts, MoveInsertFails, Marking
    <3>2. call[c].of \in Att
      BY <2>6 DEF MoveCopies, MoveCopyFails, MoveInserts, MoveInsertFails, CallInv, CallOK, Marking
    <3>3. call[c].step = "inserting" => docs[call[c].of] < copies[call[c].of]
      BY <3>2, CopyToSpare
    <3>4. copies' \in [Att -> Nat] /\ docs' \in [Att -> Nat]
      <4>1. CASE MoveCopies(c) \/ MoveCopyFails(c) \/ MoveInserts(c)
        <5>1. copies \in [Att -> Nat] /\ docs \in [Att -> Nat]
          BY DEF TypeOK
        <5>2. /\ copies' = copies \/ copies' = [copies EXCEPT ![call[c].of] = @ + 1]
              /\ docs' = docs \/ docs' = [docs EXCEPT ![call[c].of] = @ + 1]
          BY <4>1 DEF MoveCopies, MoveCopyFails, MoveInserts
        <5> QED
          BY <3>2, <5>1, <5>2
      <4>2. CASE MoveInsertFails(c)
        <5>1. copies[call[c].of] - 1 \in Nat
          BY <4>2, <3>2, <3>3 DEF MoveInsertFails, TypeOK
        <5>2. copies' = copies \/ copies' = [copies EXCEPT ![call[c].of] = @ - 1]
          BY <4>2 DEF MoveInsertFails
        <5> QED
          BY <4>2, <5>1, <5>2, <3>2 DEF MoveInsertFails, TypeOK
      <4> QED
        BY <2>6, <4>1, <4>2
    <3> QED
      BY <2>6, <3>1, <3>4 DEF MoveCopies, MoveCopyFails, MoveInserts, MoveInsertFails, TypeOK, table, past
  <2> QED
    BY <1>5, <2>1, <2>2, <2>3, <2>4, <2>5, <2>6 DEF Work
<1>6. ASSUME NEW m \in Message, DeleteMessage(m) PROVE TypeOK'
  <2>1. msg' \in [Message -> {"none", "posted", "deleted", "gone"}]
    BY <1>6 DEF DeleteMessage, TypeOK
  <2>2. queue' \in [Key -> 0..Never]
    <3>1. clock \in 0..MaxClock /\ queue \in [Key -> 0..Never]
      BY DEF TypeOK
    <3>2. clock \in 0..Never
      BY <3>1
    <3> QED
      BY <1>6, <3>1, <3>2 DEF DeleteMessage
  <2> QED
    BY <1>6, <2>1, <2>2 DEF DeleteMessage, TypeOK
<1>7. ASSUME NEW r \in Room, Trash(r) \/ Purge(r) \/ Restore(r) PROVE TypeOK'
  <2>1. LiveKeys(MessagesOf(r)) \subseteq Key
    BY LiveKeysAre
  <2>2. CASE Trash(r)
    <3>1. queue' \in [Key -> 0..Never]
      <4>1. clock + Window \in 0..MaxClock
        BY <2>2 DEF Trash, TypeOK
      <4> QED
        BY <2>1, <2>2, <4>1, Promises DEF Trash
    <3> QED
      BY <2>2, <3>1 DEF Trash, TypeOK
  <2>3. CASE Purge(r)
    <3>1. queue' \in [Key -> 0..Never]
      BY <2>1, <2>3, Promises DEF Purge, TypeOK
    <3> QED
      BY <2>3, <3>1, CascadeTypes DEF Purge, TypeOK
  <2>4. CASE Restore(r)
    BY <2>4 DEF Restore, TypeOK
  <2> QED
    BY <1>7, <2>2, <2>3, <2>4
<1> QED
  BY <1>1, <1>2, <1>3, <1>4, <1>5, <1>6, <1>7 DEF Next

----------------------------------------------------------------------------
(* What a step does to the rows, the rooms and the bucket. *)

\* Rows are not reborn: an attachment is live from its message's commit until it is marked
\* or purged, with one set of keys.
RowsAge ==
  /\ \A m \in Message : msg[m] # "none" => msg'[m] # "none"
  /\ \A a \in Att : att[a].state # "none" =>
       att'[a].state # "none" /\ (att'[a].state = "live" => att'[a] = att[a])
  /\ \A m \in Message : msg[m] = "none" /\ msg'[m] # "none" =>
       \E c \in Caller : call[c].step = "putting" /\ call[c].of = m /\ call'[c] = Idle

\* Who comes to own a key has just stored its object.
OwnedFrom ==
  \A k \in Key : Owned(k)' =>
    Owned(k) \/ (msg[On[AttOf(k)]] = "none" /\ k \in objects /\ objects' = objects)

\* A room past its window stays so, is purged, or comes back too late.
RoomsAge ==
  /\ late \subseteq late' /\ clock <= clock'
  /\ \A r \in Room : Recoverable(r)' /\ r \notin late' => Recoverable(r)
  /\ \A r \in Room : Overdue(r) \/ room[r].state = "purged" =>
       r \in late' \/ Overdue(r)' \/ room'[r].state = "purged"

\* What is stored belongs to a message still to come; what is deleted, to nobody who could
\* still come back to it, or to an upload that is undone.
BucketOK ==
  /\ \A k \in objects' \ objects : k \in Key /\ msg[On[AttOf(k)]] = "none"
  /\ \A k \in objects \ objects' :
       /\ Forfeit(k)
       /\ msg[On[AttOf(k)]] = "none" =>
            \E c \in Caller : call[c].step = "undoing" /\ call[c].of = On[AttOf(k)]

LEMMA BucketStepOK ==
  ASSUME TypeOK, Custody, BucketStep
  PROVE  BucketOK
<1>1. CASE JobDeletes \/ JobDeleteFails
  BY <1>1 DEF JobDeletes, JobDeleteFails, BucketOK, Custody, JobInv
<1>2. ASSUME NEW c \in Caller, CallBucket(c) PROVE BucketOK
  <2>0. CallOK(call[c])
    BY DEF Custody, CallInv
  <2>1. ASSUME NEW k \in Key, Put(c, k) \/ PutFails(c, k) PROVE BucketOK
    <3>1. call[c].of \in Message /\ msg[call[c].of] = "none" /\ On[AttOf(k)] = call[c].of
      BY <2>0, <2>1 DEF Put, PutFails, Putting, CallOK, Uploading, FilesOf
    <3>2. objects \subseteq objects' /\ objects' \subseteq objects \cup {k}
      BY <2>1 DEF Put, PutFails
    <3> QED
      BY <3>1, <3>2 DEF BucketOK
  <2>2. CASE Undo(c)
    <3>1. msg[call[c].of] = "none" /\ call[c].keys \subseteq FilesOf(call[c].of)
      BY <2>0, <2>2 DEF Undo, CallOK, Uploading
    <3>2. objects' \subseteq objects /\ objects \ objects' \subseteq call[c].keys /\ call[c].step = "undoing"
      BY <2>2 DEF Undo
    <3> QED
      BY <3>1, <3>2 DEF BucketOK, FilesOf, Forfeit, Owned
  <2>3. CASE LetsGo(c) \/ LetGoFails(c)
    <3>1. call[c].of \in Att /\ call[c].keys \subseteq KeysOf(call[c].of) /\ att[call[c].of].state \notin {"none", "live"}
      BY <2>0, <2>3 DEF LetsGo, LetGoFails, CallOK, Letting
    <3>2. objects' \subseteq objects /\ objects \ objects' \subseteq call[c].keys
      BY <2>3 DEF LetsGo, LetGoFails
    <3>3. msg[On[call[c].of]] # "none"
      BY <3>1 DEF Custody, RowInv
    <3> QED
      BY <3>1, <3>2, <3>3 DEF BucketOK, KeysOf, Forfeit, Owned
  <2> QED
    BY <1>2, <2>1, <2>2, <2>3 DEF CallBucket
<1> QED
  BY <1>1, <1>2 DEF BucketStep

LEMMA SameTable ==
  ASSUME UNCHANGED <<table, late>>, clock <= clock', TypeOK, clock' \in 0..MaxClock
  PROVE  RowsAge /\ OwnedFrom /\ RoomsAge
<1>1. UNCHANGED <<room, msg, att, late>>
  BY DEF table
<1>2. RowsAge
  BY <1>1 DEF RowsAge
<1>3. OwnedFrom
  BY <1>1 DEF OwnedFrom, Owned
<1>4. RoomsAge
  BY <1>1, Clocks DEF RoomsAge, Recoverable, Overdue, LiveRoom, Trashed, Deadline, TypeOK
<1> QED
  BY <1>2, <1>3, <1>4

LEMMA SameRooms ==
  ASSUME UNCHANGED <<clock, room, late>>, TypeOK
  PROVE  RoomsAge
BY Clocks DEF RoomsAge, Recoverable, Overdue, LiveRoom, Trashed, Deadline, TypeOK

LEMMA CascadeEffect ==
  ASSUME TypeOK, Custody, NEW r \in Room, Cascade(r), UNCHANGED <<clock, objects, late>>
  PROVE  RowsAge /\ OwnedFrom /\ RoomsAge
<1>1. RowsAge
  BY KeyFacts DEF RowsAge, Cascade, TypeOK, Custody, RowInv
<1>2. OwnedFrom
  <2> SUFFICES ASSUME NEW k \in Key, Owned(k)' PROVE Owned(k)
    BY DEF OwnedFrom
  <2>1. AttOf(k) \in Att /\ On[AttOf(k)] \in Message
    BY KeyFacts
  <2>2. att'[AttOf(k)].state = "live" /\ msg'[On[AttOf(k)]] = "posted" /\ k \in att'[AttOf(k)].keys
    BY DEF Owned
  <2>3. att'[AttOf(k)] = att[AttOf(k)] /\ msg'[On[AttOf(k)]] = msg[On[AttOf(k)]]
    BY <2>1, <2>2 DEF Cascade, TypeOK
  <2> QED
    BY <2>2, <2>3 DEF Owned
<1>3. RoomsAge
  BY Clocks DEF RoomsAge, Cascade, Recoverable, Overdue, LiveRoom, Trashed, Deadline, TypeOK
<1> QED
  BY <1>1, <1>2, <1>3

\* What an upload's commit makes of the rows.
LEMMA CommitEffect ==
  ASSUME TypeOK, Custody, NEW c \in Caller, Commit(c)
  PROVE  LET m == call[c].of IN
         /\ m \in Message /\ msg[m] = "none" /\ msg' = [msg EXCEPT ![m] = "posted"] /\ call'[c] = Idle
         /\ call[c].keys \subseteq objects /\ call[c].keys \subseteq FilesOf(m) /\ LiveRoom(In[m])
         /\ \A a \in Att : att'[a] = IF On[a] = m THEN [state |-> "live", keys |-> call[c].keys \cap KeysOf(a)] ELSE att[a]
         /\ \A a \in Att : On[a] = m => att[a].state = "none"
         /\ UNCHANGED <<clock, room, queue, objects, job, late, lost, robbed>>
<1>1. CallOK(call[c]) /\ call[c].step = "putting" /\ call[c].step \in Uploading
  BY DEF Custody, CallInv, Commit, Uploading
<1>2. call[c].of \in Message /\ msg[call[c].of] = "none" /\ call[c].keys \subseteq objects /\ call[c].keys \subseteq FilesOf(call[c].of)
  BY <1>1 DEF CallOK
<1>3. \A a \in Att : {k \in call[c].keys : AttOf(k) = a} = call[c].keys \cap KeysOf(a)
  BY <1>2 DEF KeysOf, FilesOf
<1>4. call'[c] = Idle
  BY DEF Commit, Done, TypeOK
<1>5. \A a \in Att : On[a] = call[c].of => att[a].state = "none"
  BY <1>2 DEF Custody, RowInv
<1> QED
  BY <1>1, <1>2, <1>3, <1>4, <1>5 DEF Commit, past

\* What marking an attachment makes of the rows.
LEMMA MarkEffect ==
  ASSUME TypeOK, Custody, NEW c \in Caller, RemoveMarks(c) \/ MoveMarks(c)
  PROVE  LET a == call[c].of IN
         /\ a \in Att /\ att[a].state = "live" /\ call[c].keys = att[a].keys
         /\ att'[a].state \in {"removed", "moved"} /\ att'[a].keys \subseteq att[a].keys
         /\ \A b \in Att \ {a} : att'[b] = att[b]
         /\ (att'[a].state = "moved" => call[c].step = "marking")
         /\ call'[c].step = "letting go" /\ call'[c].of = a /\ call'[c].keys = call[c].keys
         /\ \A d \in Caller \ {c} : call'[d] = call[d]
         /\ UNCHANGED <<clock, room, msg, queue, objects, job, copies, docs, late, lost, robbed>>
<1>1. CallOK(call[c]) /\ call[c].step \in Marking
  BY DEF Custody, CallInv, RemoveMarks, MoveMarks, Marking
<1>2. call[c].of \in Att /\ att[call[c].of].state = "live" /\ call[c].keys = att[call[c].of].keys
  BY <1>1 DEF CallOK, RemoveMarks, MoveMarks, MarksOnce
<1>3. /\ att'[call[c].of].state \in {"removed", "moved"} /\ att'[call[c].of].keys \subseteq att[call[c].of].keys
      /\ \A b \in Att \ {call[c].of} : att'[b] = att[b]
      /\ (att'[call[c].of].state = "moved" => call[c].step = "marking")
  <2>1. CASE RemoveMarks(c)
    <3>1. att' = [att EXCEPT ![call[c].of] = [state |-> "removed", keys |-> att[call[c].of].keys \ {Thumb(call[c].of)}]]
      BY <1>2, <2>1 DEF RemoveMarks, TypeOK
    <3> QED
      BY <1>2, <3>1 DEF TypeOK
  <2>2. CASE MoveMarks(c)
    <3>1. att' = [att EXCEPT ![call[c].of] = [att[call[c].of] EXCEPT !.state = "moved"]] /\ call[c].step = "marking"
      BY <1>2, <2>2 DEF MoveMarks, TypeOK
    <3> QED
      BY <1>2, <3>1 DEF TypeOK
  <2> QED
    BY <2>1, <2>2
<1>4. /\ call'[c].step = "letting go" /\ call'[c].of = call[c].of /\ call'[c].keys = call[c].keys
      /\ \A d \in Caller \ {c} : call'[d] = call[d]
  <2>1. Goes(c, "letting go") /\ call[c] \in CallType
    BY DEF RemoveMarks, MoveMarks, TypeOK
  <2>2. call'[c] = [call[c] EXCEPT !.step = "letting go"] /\ \A d \in Caller \ {c} : call'[d] = call[d]
    BY <2>1, CallTypes DEF Letting
  <2> QED
    BY <2>1, <2>2 DEF CallType
<1> QED
  BY <1>2, <1>3, <1>4 DEF RemoveMarks, MoveMarks, past

LEMMA TableStepEffect ==
  ASSUME TypeOK, Custody, TableStep
  PROVE  RowsAge /\ OwnedFrom /\ RoomsAge /\ objects' = objects
<1>1. ASSUME NEW c \in Caller, Commit(c) PROVE RowsAge /\ OwnedFrom /\ RoomsAge /\ objects' = objects
  <2> DEFINE m == call[c].of
  <2>1. RowsAge
    BY <1>1, CommitEffect, KeyFacts DEF RowsAge, TypeOK, Commit
  <2>2. OwnedFrom
    <3> SUFFICES ASSUME NEW k \in Key, Owned(k)' PROVE Owned(k) \/ (msg[On[AttOf(k)]] = "none" /\ k \in objects)
      BY <1>1, CommitEffect DEF OwnedFrom
    <3>1. AttOf(k) \in Att /\ On[AttOf(k)] \in Message
      BY KeyFacts
    <3>2. CASE On[AttOf(k)] = m
      <4>1. /\ att'[AttOf(k)] = [state |-> "live", keys |-> call[c].keys \cap KeysOf(AttOf(k))]
            /\ call[c].keys \subseteq objects /\ msg[m] = "none"
        BY <1>1, <3>1, <3>2, CommitEffect
      <4> QED
        BY <3>2, <4>1 DEF Owned
    <3>3. CASE On[AttOf(k)] # m
      <4>1. att'[AttOf(k)] = att[AttOf(k)] /\ msg' = [msg EXCEPT ![m] = "posted"]
        BY <1>1, <3>1, <3>3, CommitEffect
      <4>2. msg'[On[AttOf(k)]] = msg[On[AttOf(k)]]
        BY <3>1, <3>3, <4>1 DEF TypeOK
      <4> QED
        BY <4>1, <4>2 DEF Owned
    <3> QED
      BY <3>2, <3>3
  <2>3. RoomsAge
    <3>1. UNCHANGED <<clock, room, late>>
      BY <1>1, CommitEffect
    <3> QED
      BY <3>1, SameRooms
  <2> QED
    BY <1>1, <2>1, <2>2, <2>3, CommitEffect
<1>2. ASSUME NEW c \in Caller, RemoveMarks(c) \/ MoveMarks(c) PROVE RowsAge /\ OwnedFrom /\ RoomsAge /\ objects' = objects
  <2>1. RowsAge
    BY <1>2, MarkEffect DEF RowsAge
  <2>2. OwnedFrom
    <3> SUFFICES ASSUME NEW k \in Key, Owned(k)' PROVE Owned(k)
      BY DEF OwnedFrom
    <3>1. AttOf(k) \in Att
      BY KeyFacts
    <3> QED
      BY <1>2, <3>1, MarkEffect DEF Owned
  <2>3. RoomsAge
    <3>1. UNCHANGED <<clock, room, late>>
      BY <1>2, MarkEffect
    <3> QED
      BY <3>1, SameRooms
  <2> QED
    BY <1>2, <2>1, <2>2, <2>3, MarkEffect
<1>3. ASSUME UNCHANGED <<clock, room, msg, att, objects, late>> PROVE RowsAge /\ OwnedFrom /\ RoomsAge /\ objects' = objects
  BY <1>3, Clocks DEF RowsAge, OwnedFrom, Owned, RoomsAge, Recoverable, Overdue, LiveRoom, Trashed, Deadline, TypeOK
<1>4. ASSUME NEW m \in Message, DeleteMessage(m) PROVE RowsAge /\ OwnedFrom /\ RoomsAge /\ objects' = objects
  <2>1. UNCHANGED <<clock, room, att, objects, late>> /\ msg[m] = "posted" /\ msg' = [msg EXCEPT ![m] = "deleted"]
    BY <1>4 DEF DeleteMessage, past
  <2>2. RowsAge
    BY <2>1 DEF RowsAge, TypeOK
  <2>3. OwnedFrom
    BY <2>1, KeyFacts DEF OwnedFrom, Owned, TypeOK
  <2>4. RoomsAge
    BY <2>1, Clocks DEF RoomsAge, Recoverable, Overdue, LiveRoom, Trashed, Deadline, TypeOK
  <2> QED
    BY <2>1, <2>2, <2>3, <2>4
<1>5. ASSUME NEW r \in Room, Purge(r) \/ JobPurges(r) PROVE RowsAge /\ OwnedFrom /\ RoomsAge /\ objects' = objects
  <2>1. Cascade(r) /\ UNCHANGED <<clock, objects, late>>
    BY <1>5 DEF Purge, JobPurges, past
  <2> QED
    BY <2>1, CascadeEffect
<1>6. ASSUME NEW r \in Room, Trash(r) \/ Restore(r) PROVE RowsAge /\ OwnedFrom /\ RoomsAge /\ objects' = objects
  <2>1. UNCHANGED <<clock, msg, att, objects>> /\ late \subseteq late'
    BY <1>6 DEF Trash, Restore, past
  <2>2. RoomsAge
    <3> SUFFICES ASSUME NEW q \in Room
                 PROVE  /\ Recoverable(q)' /\ q \notin late' => Recoverable(q)
                        /\ Overdue(q) \/ room[q].state = "purged" =>
                             q \in late' \/ Overdue(q)' \/ room'[q].state = "purged"
      BY <2>1, Clocks DEF RoomsAge, TypeOK
    <3>1. CASE room'[q] = room[q]
      BY <2>1, <3>1 DEF Recoverable, Overdue, LiveRoom, Trashed, Deadline
    <3>2. CASE q = r /\ Trash(r)
      BY <3>2 DEF Trash, Recoverable, Overdue, LiveRoom, Trashed
    <3>3. CASE q = r /\ Restore(r)
      BY <3>3 DEF Restore, Recoverable, Overdue, LiveRoom, Trashed, Deadline, TypeOK
    <3> QED
      BY <1>6, <3>1, <3>2, <3>3 DEF Trash, Restore, TypeOK
  <2>3. RowsAge /\ OwnedFrom
    BY <2>1 DEF RowsAge, OwnedFrom, Owned
  <2> QED
    BY <2>1, <2>2, <2>3
<1>7. CASE JobClears \/ \E c \in Caller : Queues(c)
  BY <1>3, <1>7 DEF JobClears, Queues, past
<1> QED
  BY <1>1, <1>2, <1>4, <1>5, <1>6, <1>7 DEF TableStep, CallTable

LEMMA Effect ==
  ASSUME TypeOK, Custody, CopyInv, Next
  PROVE  RowsAge /\ OwnedFrom /\ RoomsAge /\ BucketOK
<1>0. clock \in 0..MaxClock /\ clock' \in 0..MaxClock
  BY TypeStep DEF TypeOK, Custody
<1>1. CASE Quiet
  BY <1>0, <1>1, SameTable DEF Quiet, BucketOK
<1>2. CASE BucketStep
  <2>1. clock <= clock' /\ UNCHANGED <<table, late>>
    BY <1>0, <1>2 DEF BucketStep
  <2> QED
    BY <1>0, <1>2, <2>1, SameTable, BucketStepOK
<1>3. CASE TableStep
  BY <1>3, TableStepEffect DEF BucketOK
<1> QED
  BY <1>1, <1>2, <1>3, StepKinds DEF Custody

----------------------------------------------------------------------------
(* The rows and the queue. *)

\* The steps that change a table, one lemma for what each does to the queue.
LEMMA QueuesEffect ==
  ASSUME TypeOK, Custody, NEW c \in Caller, Queues(c)
  PROVE  /\ UNCHANGED <<clock, room, msg, att, objects, job, late, robbed, copies, docs>>
         /\ call[c].keys \subseteq Key /\ call[c].step \in Letting
         /\ \A k \in call[c].keys : ~Owned(k) /\ msg[On[AttOf(k)]] # "none"
         /\ \E queued \in SUBSET call[c].keys :
              /\ queue' = Promise(queued, clock)
              /\ lost' = lost \cup (objects \cap (call[c].keys \ queued))
         /\ \A k \in Key : queue'[k] <= queue[k] /\ (k \notin call[c].keys => queue'[k] = queue[k])
<1>1. CallOK(call[c]) /\ call[c].step \in Letting /\ call[c].step \notin Uploading
  BY DEF Custody, CallInv, Queues, Letting, Uploading
<1>2. /\ call[c].of \in Att /\ call[c].keys \subseteq KeysOf(call[c].of)
      /\ att[call[c].of].state # "none" /\ att[call[c].of].state # "live"
  BY <1>1 DEF CallOK
<1>3. call[c].keys \subseteq Key /\ \A k \in call[c].keys : ~Owned(k) /\ msg[On[AttOf(k)]] # "none"
  BY <1>2 DEF KeysOf, Owned, Custody, RowInv
<1>4. PICK queued \in SUBSET call[c].keys :
        queue' = Promise(queued, clock) /\ lost' = lost \cup (objects \cap (call[c].keys \ queued))
  BY DEF Queues
<1>5. clock \in 0..MaxClock /\ queued \subseteq Key
  BY <1>3 DEF TypeOK
<1>6. \A k \in Key : queue'[k] <= queue[k] /\ (k \notin call[c].keys => queue'[k] = queue[k])
  BY <1>4, <1>5, Promises
<1> QED
  BY <1>1, <1>3, <1>4, <1>6 DEF Queues, past

LEMMA DeleteEffect ==
  ASSUME TypeOK, Custody, NEW m \in Message, DeleteMessage(m)
  PROVE  /\ UNCHANGED <<clock, room, att, objects, call, job, late, robbed, lost, copies, docs>>
         /\ msg[m] = "posted" /\ LiveRoom(In[m]) /\ msg' = [msg EXCEPT ![m] = "deleted"]
         /\ \A k \in Key : On[AttOf(k)] # m => queue'[k] = queue[k]
         /\ \A k \in Key : On[AttOf(k)] = m /\ Owned(k) => queue'[k] = clock
         /\ \A k \in Key : queue'[k] = queue[k] \/ queue'[k] = clock
<1>1. \A k \in Key : queue'[k] = IF k \in LiveKeys({m}) /\ queue[k] = Never THEN clock ELSE queue[k]
  BY DEF DeleteMessage
<1>2. \A k \in Key : k \in LiveKeys({m}) => On[AttOf(k)] = m
  BY LiveKeysAre DEF Custody
<1>3. ASSUME NEW k \in Key, On[AttOf(k)] = m, Owned(k) PROVE queue'[k] = clock
  <2>1. k \in LiveKeys({m})
    BY <1>3, LiveKeysAre DEF Custody, Owned
  <2>2. LiveRoom(RoomOf(AttOf(k)))
    BY <1>3 DEF DeleteMessage, RoomOf
  <2>3. queue[k] = Never
    BY <1>3, <2>2 DEF Custody, QueueInv, LiveRoom, Trashed
  <2> QED
    BY <1>1, <2>1, <2>3
<1> QED
  BY <1>1, <1>2, <1>3 DEF DeleteMessage, past

\* Trashing, purging or restoring a room touches the queue entries of its own keys only.
LEMMA RoomKeys ==
  ASSUME TypeOK, Custody, NEW r \in Room
  PROVE  /\ LiveKeys(MessagesOf(r)) \subseteq Key
         /\ \A k \in Key : k \in LiveKeys(MessagesOf(r)) =>
              RoomOf(AttOf(k)) = r /\ att[AttOf(k)].state = "live" /\ msg[On[AttOf(k)]] # "none"
         /\ \A k \in Key : Owned(k) /\ RoomOf(AttOf(k)) = r => k \in LiveKeys(MessagesOf(r))
<1>1. \A k \in Key : On[AttOf(k)] \in MessagesOf(r) <=> RoomOf(AttOf(k)) = r
  BY KeyFacts DEF MessagesOf, RoomOf
<1>2. \A k \in Key : k \in LiveKeys(MessagesOf(r)) => att[AttOf(k)].state = "live" /\ msg[On[AttOf(k)]] # "none"
  BY LiveKeysAre, KeyFacts DEF Custody, RowInv
<1> QED
  BY <1>1, <1>2, LiveKeysAre DEF Custody, Owned

LEMMA TrashEffect ==
  ASSUME TypeOK, Custody, NEW r \in Room, Trash(r)
  PROVE  /\ UNCHANGED <<clock, msg, att, objects, call, job, late, robbed, lost, copies, docs>>
         /\ LiveRoom(r) /\ room' = [room EXCEPT ![r] = [state |-> "trashed", since |-> clock]]
         /\ \A k \in Key : queue'[k] <= queue[k]
         /\ \A k \in Key : RoomOf(AttOf(k)) # r \/ msg[On[AttOf(k)]] = "none" => queue'[k] = queue[k]
         /\ \A k \in Key : RoomOf(AttOf(k)) = r /\ Owned(k) => queue'[k] = clock + Window
<1>1. clock + Window \in 0..MaxClock
  BY Clocks DEF Trash, TypeOK
<1>2. LiveKeys(MessagesOf(r)) \in SUBSET Key /\ queue' = Promise(LiveKeys(MessagesOf(r)), clock + Window)
  BY RoomKeys DEF Trash
<1>3. /\ \A k \in Key : queue'[k] <= queue[k]
      /\ \A k \in Key : k \notin LiveKeys(MessagesOf(r)) => queue'[k] = queue[k]
      /\ \A k \in LiveKeys(MessagesOf(r)) : queue[k] = Never => queue'[k] = clock + Window
  BY <1>1, <1>2, Promises
<1>4. ASSUME NEW k \in Key, RoomOf(AttOf(k)) = r, Owned(k) PROVE queue'[k] = clock + Window
  <2>1. queue[k] = Never
    BY <1>4 DEF Custody, QueueInv, LiveRoom, Trashed, Trash
  <2> QED
    BY <1>3, <1>4, <2>1, RoomKeys
<1> QED
  BY <1>3, <1>4, RoomKeys DEF Trash, past

LEMMA PurgeEffect ==
  ASSUME TypeOK, Custody, NEW r \in Room, Purge(r)
  PROVE  /\ UNCHANGED <<clock, objects, call, job, late, robbed, lost, copies, docs>> /\ Cascade(r)
         /\ \A k \in Key : queue'[k] <= queue[k]
         /\ \A k \in Key : RoomOf(AttOf(k)) # r \/ msg[On[AttOf(k)]] = "none" => queue'[k] = queue[k]
         /\ \A k \in Key : RoomOf(AttOf(k)) = r /\ Owned(k) => queue'[k] <= clock
<1>1. clock \in 0..MaxClock
  BY DEF TypeOK
<1>2. LiveKeys(MessagesOf(r)) \in SUBSET Key /\ queue' = Promise(LiveKeys(MessagesOf(r)), clock)
  BY RoomKeys DEF Purge
<1>3. /\ \A k \in Key : queue'[k] <= queue[k]
      /\ \A k \in Key : k \notin LiveKeys(MessagesOf(r)) => queue'[k] = queue[k]
      /\ \A k \in LiveKeys(MessagesOf(r)) : queue'[k] <= clock
  BY <1>1, <1>2, Promises
<1> QED
  BY <1>3, RoomKeys DEF Purge, past

LEMMA RestoreEffect ==
  ASSUME TypeOK, Custody, NEW r \in Room, Restore(r)
  PROVE  /\ UNCHANGED <<clock, msg, att, objects, call, job, robbed, lost, copies, docs>> /\ late \subseteq late'
         /\ Trashed(r) /\ room' = [room EXCEPT ![r] = [state |-> "live", since |-> 0]]
         /\ \A k \in Key : queue'[k] = IF Owned(k) /\ RoomOf(AttOf(k)) = r THEN Never ELSE queue[k]
<1>1. \A k \in Key : k \in Withdrawn(r) <=> Owned(k) /\ RoomOf(AttOf(k)) = r
  BY RoomKeys, LiveKeysAre DEF Withdrawn, Owned, Custody
<1> QED
  BY <1>1 DEF Restore

\* A purge leaves nothing owned in its room, and the rest alone.
LEMMA CascadeRows ==
  ASSUME TypeOK, NEW r \in Room, Cascade(r)
  PROVE  /\ room'[r].state = "purged" /\ \A q \in Room \ {r} : room'[q] = room[q]
         /\ \A m \in Message : In[m] = r => msg'[m] \in {"none", "gone"} /\ (msg'[m] = "none" <=> msg[m] = "none")
         /\ \A m \in Message : In[m] # r => msg'[m] = msg[m]
         /\ \A a \in Att : RoomOf(a) = r => att'[a].state \in {"none", "gone"} /\ (att'[a].state = "none" <=> att[a].state = "none")
                                            /\ att'[a].keys \subseteq att[a].keys
         /\ \A a \in Att : RoomOf(a) # r => att'[a] = att[a]
BY DEF Cascade, TypeOK

LEMMA RowStep ==
  ASSUME TypeOK, Custody, Next
  PROVE  RowInv'
<1>0. RowInv
  BY DEF Custody
<1>1. CASE Quiet \/ BucketStep
  BY <1>0, <1>1 DEF Quiet, BucketStep, table, RowInv
<1>2. ASSUME NEW c \in Caller, Commit(c) PROVE RowInv'
  <2> DEFINE m == call[c].of
  <2>1. ASSUME NEW a \in Att PROVE att'[a].keys \subseteq KeysOf(a) /\ (att'[a].state = "none" <=> msg'[On[a]] = "none")
    <3>1. CASE On[a] = m
      <4>1. att'[a] = [state |-> "live", keys |-> call[c].keys \cap KeysOf(a)] /\ msg' = [msg EXCEPT ![m] = "posted"]
        BY <1>2, <3>1, CommitEffect
      <4> QED
        BY <3>1, <4>1, KeyFacts DEF TypeOK
    <3>2. CASE On[a] # m
      <4>1. att'[a] = att[a] /\ msg' = [msg EXCEPT ![m] = "posted"]
        BY <1>2, <3>2, CommitEffect
      <4> QED
        BY <1>0, <3>2, <4>1, KeyFacts DEF RowInv, TypeOK
    <3> QED
      BY <3>1, <3>2
  <2>2. ASSUME NEW n \in Message, room'[In[n]].state = "purged" PROVE msg'[n] \in {"none", "gone"}
    BY <1>0, <1>2, <2>2, CommitEffect DEF RowInv, TypeOK, LiveRoom
  <2> QED
    BY <2>1, <2>2 DEF RowInv
<1>3. ASSUME NEW c \in Caller, RemoveMarks(c) \/ MoveMarks(c) PROVE RowInv'
  <2>1. ASSUME NEW a \in Att PROVE att'[a].keys \subseteq KeysOf(a) /\ (att'[a].state = "none" <=> msg'[On[a]] = "none")
    <3>1. CASE a = call[c].of
      <4>1. att[a].state = "live" /\ att'[a].state # "none" /\ att'[a].keys \subseteq att[a].keys /\ msg' = msg
        BY <1>3, <3>1, MarkEffect
      <4> QED
        BY <1>0, <4>1 DEF RowInv
    <3>2. CASE a # call[c].of
      <4>1. att'[a] = att[a] /\ msg' = msg
        BY <1>3, <3>2, MarkEffect
      <4> QED
        BY <1>0, <4>1 DEF RowInv
    <3> QED
      BY <3>1, <3>2
  <2>2. UNCHANGED <<room, msg>>
    BY <1>3, MarkEffect
  <2> QED
    BY <1>0, <2>1, <2>2 DEF RowInv
<1>4. CASE JobClears \/ \E c \in Caller : Queues(c)
  BY <1>0, <1>4 DEF JobClears, Queues, RowInv
<1>5. ASSUME NEW m \in Message, DeleteMessage(m) PROVE RowInv'
  BY <1>0, <1>5, DeleteEffect, KeyFacts DEF RowInv, TypeOK, LiveRoom
<1>6. ASSUME NEW r \in Room, Trash(r) \/ Restore(r) PROVE RowInv'
  <2>1. UNCHANGED <<msg, att>> /\ room[r].state # "purged"
        /\ \A q \in Room : room'[q].state = "purged" => room[q].state = "purged"
    BY <1>6 DEF Trash, Restore, LiveRoom, Trashed, TypeOK
  <2> QED
    BY <1>0, <2>1, BlobAssumption DEF RowInv
<1>7. ASSUME NEW r \in Room, Purge(r) \/ JobPurges(r) PROVE RowInv'
  <2>1. Cascade(r)
    BY <1>7 DEF Purge, JobPurges
  <2>2. ASSUME NEW a \in Att PROVE att'[a].keys \subseteq KeysOf(a) /\ (att'[a].state = "none" <=> msg'[On[a]] = "none")
    BY <1>0, <2>1, CascadeRows, KeyFacts DEF RowInv
  <2>3. ASSUME NEW n \in Message, room'[In[n]].state = "purged" PROVE msg'[n] \in {"none", "gone"}
    BY <1>0, <2>1, <2>3, CascadeRows, BlobAssumption DEF RowInv
  <2> QED
    BY <2>2, <2>3 DEF RowInv
<1> QED
  BY <1>1, <1>2, <1>3, <1>4, <1>5, <1>6, <1>7, StepKinds DEF TableStep, CallTable

LEMMA WindowStep ==
  ASSUME TypeOK, Custody, Next
  PROVE  WindowInv'
<1>0. WindowInv
  BY DEF Custody
<1>1. CASE room' = room
  BY <1>0, <1>1 DEF WindowInv, Trashed, Deadline
<1>2. ASSUME NEW r \in Room, Trash(r) PROVE WindowInv'
  <2>1. clock + Window <= MaxClock /\ room' = [room EXCEPT ![r] = [state |-> "trashed", since |-> clock]]
    BY <1>2 DEF Trash
  <2> QED
    BY <1>0, <2>1 DEF WindowInv, Trashed, Deadline, TypeOK
<1>3. ASSUME NEW r \in Room, Restore(r) PROVE WindowInv'
  BY <1>0, <1>3 DEF Restore, WindowInv, Trashed, Deadline, TypeOK
<1>4. ASSUME NEW r \in Room, Purge(r) \/ JobPurges(r) PROVE WindowInv'
  BY <1>0, <1>4 DEF Purge, JobPurges, Cascade, WindowInv, Trashed, Deadline, TypeOK
<1>5. CASE Quiet \/ BucketStep
  BY <1>1, <1>5 DEF Quiet, BucketStep, table
<1>6. CASE JobClears \/ (\E c \in Caller : CallTable(c)) \/ \E m \in Message : DeleteMessage(m)
  BY <1>1, <1>6 DEF JobClears, CallTable, Commit, RemoveMarks, MoveMarks, Queues, DeleteMessage
<1> QED
  BY <1>2, <1>3, <1>4, <1>5, <1>6, StepKinds DEF TableStep

\* What the queue says of a key whose owner, room and entry are as they were.
LEMMA SameEntry ==
  ASSUME QueueInv, NEW k \in Key, Owned(k), queue'[k] = queue[k], room'[RoomOf(AttOf(k))] = room[RoomOf(AttOf(k))],
         k \in objects' => k \in objects
  PROVE  LET r == RoomOf(AttOf(k)) IN
         \/ LiveRoom(r)' /\ queue'[k] = Never
         \/ Trashed(r)' /\ (queue'[k] = Deadline(r)' \/ (queue'[k] = Never /\ k \notin objects'))
BY DEF QueueInv, LiveRoom, Trashed, Deadline

LEMMA QueueStep ==
  ASSUME TypeOK, Custody, CopyInv, Next
  PROVE  QueueInv'
<1> DEFINE Entry(k) ==
      LET r == RoomOf(AttOf(k)) IN
      \/ LiveRoom(r)' /\ queue'[k] = Never
      \/ Trashed(r)' /\ (queue'[k] = Deadline(r)' \/ (queue'[k] = Never /\ k \notin objects'))
<1>0. RowInv /\ QueueInv /\ JobInv /\ RowsAge /\ OwnedFrom /\ BucketOK
  BY Effect DEF Custody
<1>a. SUFFICES ASSUME NEW k \in Key
               PROVE  (msg'[On[AttOf(k)]] = "none" => queue'[k] = Never) /\ (Owned(k)' => Entry(k))
  <2>1. \A k \in Key : (msg'[On[AttOf(k)]] = "none" => queue'[k] = Never) /\ (Owned(k)' => Entry(k))
    BY <1>a
  <2> QED
    BY <2>1 DEF QueueInv
<1> DEFINE a == AttOf(k)
<1>b. a \in Att /\ On[a] \in Message /\ RoomOf(a) \in Room /\ RoomOf(a) = In[On[a]]
  BY KeyFacts
<1>c. msg'[On[a]] = "none" => msg[On[a]] = "none" /\ queue[k] = Never
  BY <1>0, <1>b DEF RowsAge, QueueInv
<1>d. ASSUME Owned(k) PROVE k \in objects' => k \in objects
  BY <1>0, <1>d DEF BucketOK, Owned
<1>1. CASE Quiet \/ BucketStep
  <2>1. UNCHANGED table
    BY <1>1 DEF Quiet, BucketStep
  <2>2. Owned(k)' => Owned(k)
    BY <2>1 DEF table, Owned
  <2> QED
    BY <1>0, <1>c, <1>d, <2>1, <2>2, SameEntry DEF table
<1>2. ASSUME NEW c \in Caller, Commit(c) PROVE (msg'[On[a]] = "none" => queue'[k] = Never) /\ (Owned(k)' => Entry(k))
  <2>1. UNCHANGED <<room, queue, objects>> /\ LiveRoom(In[call[c].of]) /\ msg[call[c].of] = "none"
        /\ (On[a] # call[c].of => att'[a] = att[a] /\ msg'[On[a]] = msg[On[a]])
    <3>1. UNCHANGED <<room, queue, objects>> /\ LiveRoom(In[call[c].of]) /\ msg[call[c].of] = "none"
          /\ (On[a] # call[c].of => att'[a] = att[a]) /\ msg' = [msg EXCEPT ![call[c].of] = "posted"]
      BY <1>2, <1>b, CommitEffect
    <3> QED
      BY <1>b, <3>1 DEF TypeOK
  <2>2. CASE On[a] = call[c].of
    <3>1. queue[k] = Never /\ LiveRoom(RoomOf(a))
      BY <1>0, <1>b, <2>1, <2>2 DEF QueueInv
    <3> QED
      BY <2>1, <3>1 DEF LiveRoom
  <2>3. CASE On[a] # call[c].of
    <3>1. Owned(k)' => Owned(k)
      BY <2>1, <2>3 DEF Owned
    <3> QED
      BY <1>0, <1>c, <2>1, <3>1, SameEntry
  <2> QED
    BY <2>2, <2>3
<1>3. ASSUME NEW c \in Caller, RemoveMarks(c) \/ MoveMarks(c)
      PROVE (msg'[On[a]] = "none" => queue'[k] = Never) /\ (Owned(k)' => Entry(k))
  <2>1. UNCHANGED <<room, queue, objects, msg>>
    BY <1>3, MarkEffect
  <2>2. Owned(k)' => Owned(k)
    BY <1>0, <2>1 DEF OwnedFrom, Owned
  <2> QED
    BY <1>0, <1>c, <2>1, <2>2, SameEntry
<1>4. ASSUME NEW c \in Caller, Queues(c) PROVE (msg'[On[a]] = "none" => queue'[k] = Never) /\ (Owned(k)' => Entry(k))
  <2>1. /\ UNCHANGED <<room, objects, msg, att>> /\ \A l \in call[c].keys : ~Owned(l) /\ msg[On[AttOf(l)]] # "none"
        /\ (k \notin call[c].keys => queue'[k] = queue[k])
    BY <1>4, QueuesEffect
  <2>2. Owned(k)' => Owned(k)
    BY <2>1 DEF Owned
  <2> QED
    BY <1>0, <1>c, <2>1, <2>2, SameEntry
<1>5. CASE JobClears
  <2>1. UNCHANGED <<room, objects, msg, att>> /\ job.step = "clearing"
        /\ queue'[k] = (IF k \in job.keys THEN Never ELSE queue[k])
    BY <1>5 DEF JobClears
  <2>2. Owned(k)' => Owned(k)
    BY <2>1 DEF Owned
  <2>3. k \in job.keys => k \notin objects
    BY <1>0, <2>1 DEF JobInv
  <2> QED
    BY <1>0, <1>c, <2>1, <2>2, <2>3, SameEntry DEF QueueInv, LiveRoom, Trashed
<1>6. ASSUME NEW m \in Message, DeleteMessage(m) PROVE (msg'[On[a]] = "none" => queue'[k] = Never) /\ (Owned(k)' => Entry(k))
  <2>1. UNCHANGED <<room, objects, att>> /\ msg[m] = "posted" /\ msg'[m] = "deleted" /\ (On[a] # m => queue'[k] = queue[k])
    BY <1>6, DeleteEffect DEF TypeOK
  <2>2. Owned(k)' => Owned(k) /\ On[a] # m
    <3>1. msg[On[a]] = "none" => ~Owned(k)'
      BY <1>6, <1>b, <2>1, DeleteEffect DEF Owned, TypeOK
    <3> QED
      BY <1>0, <2>1, <3>1 DEF OwnedFrom, Owned
  <2> QED
    BY <1>0, <1>c, <2>1, <2>2, SameEntry
<1>7. ASSUME NEW r \in Room, Trash(r) PROVE (msg'[On[a]] = "none" => queue'[k] = Never) /\ (Owned(k)' => Entry(k))
  <2>1. /\ UNCHANGED <<clock, objects, msg, att>> /\ room'[r] = [state |-> "trashed", since |-> clock]
        /\ \A q \in Room \ {r} : room'[q] = room[q]
        /\ RoomOf(a) # r \/ msg[On[a]] = "none" => queue'[k] = queue[k]
        /\ RoomOf(a) = r /\ Owned(k) => queue'[k] = clock + Window
    BY <1>7, TrashEffect DEF TypeOK
  <2>2. Owned(k)' => Owned(k)
    BY <2>1 DEF Owned
  <2>3. CASE RoomOf(a) = r
    BY <1>c, <2>1, <2>2, <2>3 DEF Trashed, Deadline
  <2>4. CASE RoomOf(a) # r
    BY <1>0, <1>b, <1>c, <2>1, <2>2, <2>4, SameEntry
  <2> QED
    BY <2>3, <2>4
<1>8. ASSUME NEW r \in Room, Restore(r) PROVE (msg'[On[a]] = "none" => queue'[k] = Never) /\ (Owned(k)' => Entry(k))
  <2>1. /\ UNCHANGED <<objects, msg, att>> /\ room'[r] = [state |-> "live", since |-> 0]
        /\ \A q \in Room \ {r} : room'[q] = room[q]
        /\ queue'[k] = (IF Owned(k) /\ RoomOf(a) = r THEN Never ELSE queue[k])
    BY <1>8, RestoreEffect DEF TypeOK
  <2>2. Owned(k)' => Owned(k)
    BY <2>1 DEF Owned
  <2>3. CASE RoomOf(a) = r
    BY <1>c, <2>1, <2>2, <2>3 DEF LiveRoom
  <2>4. CASE RoomOf(a) # r
    BY <1>0, <1>b, <1>c, <2>1, <2>2, <2>4, SameEntry
  <2> QED
    BY <2>3, <2>4
<1>9. ASSUME NEW r \in Room, Purge(r) \/ JobPurges(r) PROVE (msg'[On[a]] = "none" => queue'[k] = Never) /\ (Owned(k)' => Entry(k))
  <2>1. /\ Cascade(r) /\ objects' = objects
        /\ RoomOf(a) # r \/ msg[On[a]] = "none" => queue'[k] = queue[k]
    BY <1>9, PurgeEffect DEF JobPurges
  <2>2. Owned(k)' => Owned(k) /\ RoomOf(a) # r
    BY <1>0, <1>b, <2>1, CascadeRows DEF OwnedFrom, Owned
  <2>3. RoomOf(a) # r => room'[RoomOf(a)] = room[RoomOf(a)]
    BY <1>b, <2>1, CascadeRows
  <2> QED
    BY <1>0, <1>c, <2>1, <2>2, <2>3, SameEntry
<1> QED
  BY <1>1, <1>2, <1>3, <1>4, <1>5, <1>6, <1>7, <1>8, <1>9, StepKinds DEF TableStep, CallTable

----------------------------------------------------------------------------
(* The requests. *)

\* What other actors do to the rows does not mislead a request.
LEMMA OthersKeep ==
  ASSUME TypeOK, Custody, CopyInv, Next, NEW d \in Caller, call'[d] = call[d]
  PROVE  CallOK(call[d])'
<1>0. CallOK(call[d]) /\ RowsAge /\ BucketOK
  BY Effect DEF Custody, CallInv
<1>1. CASE call[d].step \in Uploading
  <2>1. call[d].of \in Message /\ msg[call[d].of] = "none" /\ call[d].keys \subseteq FilesOf(call[d].of)
        /\ call[d].todo \subseteq FilesOf(call[d].of)
    BY <1>0, <1>1 DEF CallOK
  <2>2. msg'[call[d].of] = "none"
    <3> SUFFICES ASSUME msg'[call[d].of] # "none" PROVE FALSE
      OBVIOUS
    <3>1. PICK c \in Caller : call[c].step = "putting" /\ call[c].of = call[d].of /\ call'[c] = Idle
      BY <1>0, <2>1 DEF RowsAge
    <3>2. c = d
      BY <1>1, <3>1 DEF Custody, CallInv, Uploading
    <3> QED
      BY <1>1, <3>1, <3>2 DEF Idle, Uploading
  <2>3. ASSUME call[d].step = "putting", NEW k \in call[d].keys PROVE k \in objects'
    <3> SUFFICES ASSUME k \notin objects' PROVE FALSE
      OBVIOUS
    <3>1. k \in objects \ objects' /\ On[AttOf(k)] = call[d].of
      BY <1>0, <1>1, <2>1, <2>3 DEF CallOK, FilesOf
    <3>2. PICK c \in Caller : call[c].step = "undoing" /\ call[c].of = call[d].of
      BY <1>0, <2>1, <3>1 DEF BucketOK
    <3>3. c = d
      BY <1>1, <3>2 DEF Custody, CallInv, Uploading
    <3> QED
      BY <2>3, <3>2, <3>3
  <2> QED
    BY <1>1, <2>1, <2>2, <2>3 DEF CallOK, FilesOf, Uploading, Marking, Letting
<1>2. CASE call[d].step \in Marking
  <2>1. /\ call[d].of \in Att /\ call[d].keys \subseteq KeysOf(call[d].of) /\ att[call[d].of].state # "none"
        /\ (att[call[d].of].state = "live" => call[d].keys = att[call[d].of].keys)
    BY <1>0, <1>2 DEF CallOK
  <2>2. att'[call[d].of].state # "none" /\ (att'[call[d].of].state = "live" => att'[call[d].of] = att[call[d].of])
    BY <1>0, <2>1 DEF RowsAge
  <2> QED
    BY <1>2, <2>1, <2>2 DEF CallOK, KeysOf, Uploading, Marking, Letting
<1>3. CASE call[d].step \in Letting
  <2>1. /\ call[d].of \in Att /\ call[d].keys \subseteq KeysOf(call[d].of) /\ att[call[d].of].state \notin {"none", "live"}
    BY <1>0, <1>3 DEF CallOK
  <2>2. att'[call[d].of].state \notin {"none", "live"}
    BY <1>0, <2>1 DEF RowsAge
  <2> QED
    BY <1>3, <2>1, <2>2 DEF CallOK, KeysOf, Uploading, Marking, Letting
<1>4. CASE call[d].step = "idle"
  BY <1>4 DEF CallOK, Uploading, Marking, Letting
<1> QED
  BY <1>1, <1>2, <1>3, <1>4 DEF TypeOK, CallType

\* A request goes on with its own message, or takes one nobody has in hand.
Legit(c) ==
  /\ CallOK(call[c])'
  /\ call'[c].step \in Uploading =>
       \/ call[c].step \in Uploading /\ call'[c].of = call[c].of
       \/ \A d \in Caller : call[d].of # call'[c].of
  /\ \A d \in Caller \ {c} : call'[d] = call[d]

LEMMA IdleIsLegit ==
  ASSUME NEW c \in Caller, TypeOK, Done(c)
  PROVE  Legit(c)
<1>1. call'[c] = Idle /\ \A d \in Caller \ {c} : call'[d] = call[d]
  BY CallTypes
<1>2. call'[c].step = "idle"
  BY <1>1 DEF Idle
<1> QED
  BY <1>1, <1>2 DEF Legit, CallOK, Uploading, Marking, Letting

LEMMA AskIsLegit ==
  ASSUME TypeOK, Custody, NEW c \in Caller, Asks(c)
  PROVE  Legit(c)
<1>1. ASSUME NEW m \in Message, UploadBegins(c, m) PROVE Legit(c)
  <2>1. PICK thumbs \in SUBSET (AttsOf(m) \cap Image) :
          call' = [call EXCEPT ![c] =
            [step |-> "putting", of |-> m, keys |-> {},
             todo |-> {Original(a) : a \in AttsOf(m)} \cup {Thumb(a) : a \in thumbs}]]
    BY <1>1 DEF UploadBegins
  <2>2. {Original(a) : a \in AttsOf(m)} \cup {Thumb(a) : a \in thumbs} \subseteq FilesOf(m)
    BY KeyFacts DEF AttsOf, FilesOf
  <2>3. /\ call'[c] = [step |-> "putting", of |-> m, keys |-> {},
                       todo |-> {Original(a) : a \in AttsOf(m)} \cup {Thumb(a) : a \in thumbs}]
        /\ \A d \in Caller \ {c} : call'[d] = call[d]
    BY <2>1 DEF TypeOK
  <2>4. msg' = msg /\ msg[m] = "none" /\ objects' = objects /\ \A d \in Caller : call[d].of # m
    BY <1>1 DEF UploadBegins, table
  <2>5. CallOK(call[c])'
    BY <2>2, <2>3, <2>4 DEF CallOK, FilesOf, Uploading, Marking, Letting
  <2> QED
    BY <2>3, <2>4, <2>5 DEF Legit
<1>2. ASSUME NEW a \in Att, NEW s \in {"removing", "copying"}, Loads(c, a, s) PROVE Legit(c)
  <2>1. /\ call'[c] = [step |-> s, of |-> a, keys |-> att[a].keys, todo |-> {}]
        /\ \A d \in Caller \ {c} : call'[d] = call[d]
    BY <1>2 DEF Loads, Viewable, table, TypeOK
  <2>2. att' = att /\ att[a].state = "live" /\ att[a].keys \subseteq KeysOf(a)
    BY <1>2 DEF Loads, Viewable, table, Custody, RowInv
  <2>3. /\ call'[c].step = s /\ call'[c].of = a /\ call'[c].keys = att[a].keys
        /\ s \in Marking /\ s \notin Uploading /\ s \notin Letting
    <3>1. s \in Marking /\ s \notin Uploading /\ s \notin Letting
      BY <1>2 DEF Uploading, Marking, Letting
    <3> QED
      BY <2>1, <3>1
  <2>4. CallOK(call[c])'
    BY <2>2, <2>3 DEF CallOK, KeysOf, Uploading, Marking, Letting
  <2> QED
    BY <2>1, <2>3, <2>4 DEF Legit
<1> QED
  BY <1>1, <1>2 DEF Asks, RemoveBegins, MoveBegins

LEMMA WorkIsLegit ==
  ASSUME TypeOK, Custody, CopyInv, NEW c \in Caller, Work(c)
  PROVE  Legit(c)
<1>0. CallOK(call[c]) /\ call \in [Caller -> CallType] /\ call[c] \in CallType
  BY DEF Custody, CallInv, TypeOK
<1>1. ASSUME NEW k \in Key, Put(c, k) \/ PutFails(c, k) PROVE Legit(c)
  <2>1. /\ call[c].step = "putting" /\ call[c].of \in Message /\ msg[call[c].of] = "none" /\ msg' = msg
        /\ call[c].keys \subseteq FilesOf(call[c].of) /\ call[c].todo \subseteq FilesOf(call[c].of)
        /\ call[c].keys \subseteq objects /\ objects \subseteq objects' /\ k \in call[c].todo
    BY <1>0, <1>1 DEF Put, PutFails, Putting, CallOK, Uploading, table
  <2>2. /\ \A d \in Caller \ {c} : call'[d] = call[d]
        /\ call'[c].step \in Uploading /\ call'[c].of = call[c].of
        /\ call'[c].keys \subseteq call[c].keys \cup {k} /\ call'[c].todo \subseteq call[c].todo
        /\ (call'[c].step = "putting" => call'[c].keys \subseteq objects')
    <3>1. CASE Put(c, k)
      <4>1. call'[c] = [call[c] EXCEPT !.keys = @ \cup {k}, !.todo = @ \ {k}] /\ objects' = objects \cup {k}
            /\ \A d \in Caller \ {c} : call'[d] = call[d]
        BY <1>0, <3>1 DEF Put
      <4> QED
        BY <1>0, <2>1, <4>1 DEF CallType, Uploading
    <3>2. CASE PutFails(c, k)
      <4>1. \/ call'[c] = [call[c] EXCEPT !.todo = @ \ {k}]
            \/ call'[c] = [call[c] EXCEPT !.step = "undoing"]
        BY <1>0, <3>2 DEF PutFails, Goes
      <4>2. \A d \in Caller \ {c} : call'[d] = call[d]
        BY <1>0, <3>2 DEF PutFails, Goes
      <4> QED
        BY <1>0, <2>1, <4>1, <4>2 DEF CallType, Uploading
    <3> QED
      BY <1>1, <3>1, <3>2
  <2>3. CallOK(call[c])'
    BY <2>1, <2>2 DEF CallOK, FilesOf, Uploading, Marking, Letting
  <2> QED
    BY <2>1, <2>2, <2>3 DEF Legit, Uploading
<1>2. CASE CommitRefused(c)
  <2>1. call'[c] = [call[c] EXCEPT !.step = "undoing"] /\ (\A d \in Caller \ {c} : call'[d] = call[d])
        /\ msg' = msg /\ objects' = objects /\ call[c].step = "putting"
    BY <1>0, <1>2 DEF CommitRefused, Goes, table
  <2>2. CallOK(call[c])'
    BY <1>0, <2>1 DEF CallOK, CallType, FilesOf, Uploading, Marking, Letting
  <2> QED
    BY <1>0, <2>1, <2>2 DEF Legit, CallType, Uploading
<1>3. CASE MoveCopies(c) \/ MoveInserts(c)
  <2>1. PICK s \in {"inserting", "marking"} :
          call'[c] = [call[c] EXCEPT !.step = s] /\ (\A d \in Caller \ {c} : call'[d] = call[d])
    BY <1>0, <1>3 DEF MoveCopies, MoveInserts, Goes
  <2>2. att' = att /\ call[c].step \in Marking
    BY <1>3 DEF MoveCopies, MoveInserts, table, Marking
  <2>3. CallOK(call[c])'
    BY <1>0, <2>1, <2>2 DEF CallOK, CallType, KeysOf, Uploading, Marking, Letting
  <2> QED
    BY <1>0, <2>1, <2>3 DEF Legit, CallType, Uploading
<1>4. CASE RemoveMarks(c) \/ MoveMarks(c)
  <2>1. call[c].keys \subseteq KeysOf(call[c].of)
    BY <1>4, MarkEffect DEF Custody, RowInv
  <2>2. CallOK(call[c])'
    BY <1>4, <2>1, MarkEffect DEF CallOK, KeysOf, Uploading, Marking, Letting
  <2> QED
    BY <1>4, <2>2, MarkEffect DEF Legit, Uploading
<1>5. CASE LetGoFails(c)
  <2>1. call'[c] = [call[c] EXCEPT !.step = "queueing"] /\ (\A d \in Caller \ {c} : call'[d] = call[d])
        /\ att' = att /\ call[c].step \in Letting
    BY <1>0, <1>5 DEF LetGoFails, Goes, table, Letting
  <2>2. CallOK(call[c])'
    BY <1>0, <2>1 DEF CallOK, CallType, KeysOf, Uploading, Marking, Letting
  <2> QED
    BY <1>0, <2>1, <2>2 DEF Legit, CallType, Uploading
<1> QED
  BY <1>1, <1>2, <1>3, <1>4, <1>5, IdleIsLegit
  DEF Work, Commit, Undo, MarkRefused, MoveCopyFails, MoveInsertFails, LetsGo, Queues

LEMMA CallStep ==
  ASSUME TypeOK, Custody, CopyInv, Next
  PROVE  CallInv'
<1>0. CallInv
  BY DEF Custody
<1>1. ASSUME NEW c \in Caller, Legit(c) PROVE CallInv'
  <2>1. \A d \in Caller : CallOK(call[d])'
    <3> TAKE d \in Caller
    <3>1. CASE d = c
      BY <1>1, <3>1 DEF Legit
    <3>2. CASE d # c
      BY <1>1, <3>2, OthersKeep DEF Legit
    <3> QED
      BY <3>1, <3>2
  <2>2. ASSUME NEW d \in Caller, NEW e \in Caller, d # e,
               call'[d].step \in Uploading, call'[e].step \in Uploading, call'[d].of = call'[e].of
        PROVE  FALSE
    BY <1>0, <1>1, <2>2 DEF Legit, CallInv
  <2> QED
    BY <2>1, <2>2 DEF CallInv
<1>2. CASE call' = call
  <2>1. \A d \in Caller : CallOK(call[d])'
    BY <1>2, OthersKeep
  <2> QED
    BY <1>0, <1>2, <2>1 DEF CallInv
<1>3. CASE Crash
  BY <1>3 DEF Crash, CallInv, CallOK, Idle, Uploading, Marking, Letting
<1>4. CASE Tick \/ JobStep
  BY <1>2, <1>4 DEF Tick, JobStep, JobBegins, JobDeletes, JobDeleteFails, JobClears, JobClearFails, JobLists,
     JobPurges, JobPurgeFails
<1>5. CASE (\E m \in Message : DeleteMessage(m)) \/ \E r \in Room : Trash(r) \/ Purge(r) \/ Restore(r)
  BY <1>2, <1>5 DEF DeleteMessage, Trash, Purge, Restore
<1>6. CASE \E c \in Caller : Asks(c) \/ Work(c)
  BY <1>1, <1>6, AskIsLegit, WorkIsLegit
<1> QED
  BY <1>3, <1>4, <1>5, <1>6 DEF Next

----------------------------------------------------------------------------
(* The drain job, and what is owned. *)

LEMMA ForfeitStays ==
  ASSUME RowsAge, OwnedFrom, RoomsAge, NEW k \in Key, msg[On[AttOf(k)]] # "none", Forfeit(k)
  PROVE  msg'[On[AttOf(k)]] # "none" /\ Forfeit(k)'
<1>1. On[AttOf(k)] \in Message /\ RoomOf(AttOf(k)) \in Room
  BY KeyFacts
<1>2. Owned(k)' => Owned(k)
  BY DEF OwnedFrom
<1>3. LET r == RoomOf(AttOf(k)) IN ~Recoverable(r) \/ r \in late => ~Recoverable(r)' \/ r \in late'
  BY <1>1 DEF RoomsAge
<1> QED
  BY <1>1, <1>2, <1>3 DEF Forfeit, RowsAge

\* What is due is forfeit.
LEMMA DueIsForfeit ==
  ASSUME TypeOK, Custody, NEW k \in DueKeys
  PROVE  k \in Key /\ msg[On[AttOf(k)]] # "none" /\ Forfeit(k)
<1>1. k \in Key /\ queue[k] <= clock /\ queue[k] # Never
  <2>1. k \in Key /\ queue[k] <= clock /\ clock \in 0..MaxClock
    BY DEF DueKeys, TypeOK
  <2>2. clock < Never /\ clock \in Int /\ Never \in Int
    BY <2>1, Clocks
  <2> QED
    BY <2>1, <2>2
<1>2. msg[On[AttOf(k)]] # "none"
  BY <1>1 DEF Custody, QueueInv
<1>3. ASSUME Owned(k) PROVE ~Recoverable(RoomOf(AttOf(k)))
  BY <1>1, <1>3 DEF Custody, QueueInv, Recoverable, Overdue, LiveRoom, Trashed
<1> QED
  BY <1>1, <1>2, <1>3 DEF Forfeit

\* The keys and rooms in the job's hands stay what they were when it took them.
LEMMA HandsOff ==
  ASSUME TypeOK, Custody, CopyInv, Next
  PROVE  /\ job.step \in {"deleting", "clearing"} => \A k \in job.keys : msg'[On[AttOf(k)]] # "none" /\ Forfeit(k)'
         /\ job.step = "clearing" => job.keys \cap objects' = {}
         /\ job.step = "purging" => \A r \in job.rooms \ late' : Overdue(r)' \/ room'[r].state = "purged"
         /\ clock <= clock'
<1>0. JobInv /\ RowsAge /\ OwnedFrom /\ RoomsAge /\ BucketOK
  BY Effect DEF Custody
<1>1. job.keys \subseteq Key /\ job.rooms \subseteq Room
  BY DEF TypeOK, JobType
<1>2. ASSUME job.step \in {"deleting", "clearing"}, NEW k \in job.keys PROVE msg'[On[AttOf(k)]] # "none" /\ Forfeit(k)'
  BY <1>0, <1>1, <1>2, ForfeitStays DEF JobInv
<1>3. ASSUME job.step = "clearing", NEW k \in job.keys PROVE k \notin objects'
  BY <1>0, <1>1, <1>3 DEF JobInv, BucketOK
<1>4. ASSUME job.step = "purging", NEW r \in job.rooms \ late' PROVE Overdue(r)' \/ room'[r].state = "purged"
  <2>1. r \in Room /\ r \notin late
    BY <1>0, <1>1, <1>4 DEF RoomsAge
  <2> QED
    BY <1>0, <1>4, <2>1 DEF JobInv, RoomsAge
<1> QED
  BY <1>0, <1>2, <1>3, <1>4 DEF RoomsAge

LEMMA JobKeeps ==
  ASSUME TypeOK, Custody, CopyInv, Next
  PROVE  JobInv'
<1>0. JobInv /\ clock \in 0..MaxClock /\ clock' \in 0..MaxClock /\ clock <= clock' /\ job \in JobType
  BY TypeStep, HandsOff DEF Custody, TypeOK
<1>1. CASE job' = job
  BY <1>0, <1>1, HandsOff DEF JobInv, JobType
<1>2. CASE job' = Rest
  BY <1>0, <1>2 DEF JobInv, Rest
<1>3. CASE JobStep
  <2>1. CASE JobBegins
    <3>1. PICK B \in SUBSET DueKeys :
            job' = [step |-> IF B = {} THEN "listing" ELSE "deleting", at |-> clock, keys |-> B, rooms |-> {}]
      BY <2>1 DEF JobBegins
    <3>2. UNCHANGED <<clock, room, msg, att, late>>
      BY <2>1 DEF JobBegins, table, past
    <3>3. \A k \in B : msg'[On[AttOf(k)]] # "none" /\ Forfeit(k)'
      BY <3>2, DueIsForfeit DEF Forfeit, Owned, Recoverable, LiveRoom, Overdue, Trashed, Deadline
    <3> QED
      BY <1>0, <3>1, <3>2, <3>3 DEF JobInv
  <2>2. CASE JobDeletes
    <3>1. job.step = "deleting" /\ job' = [job EXCEPT !.step = "clearing"] /\ objects' = objects \ job.keys
      BY <2>2 DEF JobDeletes
    <3> QED
      BY <1>0, <3>1, HandsOff DEF JobInv, JobType
  <2>3. CASE JobClears
    BY <1>0, <2>3 DEF JobClears, JobInv, JobType
  <2>4. CASE JobLists
    <3>1. CASE job' # Rest
      <4>1. job' = [job EXCEPT !.step = "purging", !.rooms = {r \in Room : Expired(r)}] /\ UNCHANGED <<room, clock>>
        BY <2>4, <3>1 DEF JobLists, table
      <4>2. \A r \in Room : Expired(r) => Overdue(r)'
        <5> SUFFICES ASSUME NEW r \in Room, Expired(r) PROVE Overdue(r)'
          OBVIOUS
        <5>1. room[r].since \in Nat /\ Window \in Nat /\ job.at \in Nat /\ job.at <= clock /\ clock \in Nat
          BY <1>0, Clocks DEF TypeOK, JobInv, JobType
        <5>2. Trashed(r) /\ Deadline(r) <= clock
          BY <5>1 DEF Expired, Deadline
        <5> QED
          BY <4>1, <5>2 DEF Overdue, Trashed, Deadline
      <4> QED
        BY <1>0, <4>1, <4>2 DEF JobInv, JobType
    <3> QED
      BY <1>2, <3>1
  <2>5. ASSUME NEW r \in Room, Departs(r), job.step = "purging" PROVE JobInv'
    <3>1. job' = Rest \/ job' = [job EXCEPT !.rooms = @ \ {r}]
      BY <2>5 DEF Departs
    <3>2. CASE job' = [job EXCEPT !.rooms = @ \ {r}]
      BY <1>0, <2>5, <3>2, HandsOff DEF JobInv, JobType
    <3> QED
      BY <1>2, <3>1, <3>2
  <2> QED
    BY <1>2, <1>3, <2>1, <2>2, <2>3, <2>4, <2>5 DEF JobStep, JobDeleteFails, JobClearFails, JobPurges, JobPurgeFails
<1>4. CASE Tick \/ Crash
  BY <1>1, <1>2, <1>4 DEF Tick, Crash
<1>5. CASE (\E m \in Message : DeleteMessage(m)) \/ \E r \in Room : Trash(r) \/ Purge(r) \/ Restore(r)
  BY <1>1, <1>5 DEF DeleteMessage, Trash, Purge, Restore
<1>6. CASE \E c \in Caller : Asks(c) \/ Work(c)
  BY <1>1, <1>6 DEF Asks, UploadBegins, RemoveBegins, MoveBegins, Loads, Work, Put, PutFails, Commit, CommitRefused,
     Undo, RemoveMarks, MoveMarks, MarkRefused, MoveCopies, MoveCopyFails, MoveInserts, MoveInsertFails,
     LetsGo, LetGoFails, Queues
<1> QED
  BY <1>3, <1>4, <1>5, <1>6 DEF Next

LEMMA OwnedStays ==
  ASSUME TypeOK, Custody, OwnedIsThere, CopyInv, Next
  PROVE  OwnedIsThere'
<1>0. OwnedFrom /\ RoomsAge /\ BucketOK
  BY Effect
<1> SUFFICES ASSUME NEW k \in Key, Owned(k)', Recoverable(RoomOf(AttOf(k)))', RoomOf(AttOf(k)) \notin late'
             PROVE  k \in objects'
  BY DEF OwnedIsThere
<1>1. RoomOf(AttOf(k)) \in Room
  BY KeyFacts
<1>2. Recoverable(RoomOf(AttOf(k))) /\ RoomOf(AttOf(k)) \notin late
  BY <1>0, <1>1 DEF RoomsAge
<1>3. CASE Owned(k)
  <2>1. k \in objects /\ ~Forfeit(k)
    BY <1>2, <1>3 DEF OwnedIsThere, Forfeit
  <2> QED
    BY <1>0, <2>1 DEF BucketOK
<1>4. CASE ~Owned(k)
  BY <1>0, <1>4 DEF OwnedFrom
<1> QED
  BY <1>3, <1>4

----------------------------------------------------------------------------
(* The copies of a move. *)

\* Steps that add neither a copy's row nor a request about to insert one.
LEMMA CopySame ==
  ASSUME TypeOK, CopyInv, docs' = docs, copies' \in [Att -> Nat], \A a \in Att : copies[a] <= copies'[a],
         \A a \in Att : Inserting(a)' \subseteq Inserting(a),
         \A a \in Att : att'[a].state = "moved" => docs[a] > 0,
         \A a \in Att : \A c \in Caller : call'[c].step = "marking" /\ call'[c].of = a => docs[a] > 0
  PROVE  CopyInv'
<1> SUFFICES ASSUME NEW a \in Att
             PROVE  IsFiniteSet(Inserting(a)') /\ docs[a] + Cardinality(Inserting(a)') <= copies'[a]
  BY DEF CopyInv
<1>1. /\ IsFiniteSet(Inserting(a)') /\ Cardinality(Inserting(a)') <= Cardinality(Inserting(a))
      /\ Cardinality(Inserting(a)) \in Nat /\ Cardinality(Inserting(a)') \in Nat
  BY FS_Subset, FS_CardinalityType DEF CopyInv
<1>2. docs[a] \in Nat /\ copies[a] \in Nat /\ copies'[a] \in Nat /\ copies[a] <= copies'[a]
      /\ docs[a] + Cardinality(Inserting(a)) <= copies[a]
  BY DEF CopyInv, TypeOK
<1> QED
  BY <1>1, <1>2

\* What the others are about to insert when one request moves on.
LEMMA InsertingMoves ==
  ASSUME NEW c \in Caller, \A d \in Caller \ {c} : call'[d] = call[d], NEW b \in Att
  PROVE  Inserting(b)' = IF call'[c].step = "inserting" /\ call'[c].of = b
                         THEN Inserting(b) \cup {c} ELSE Inserting(b) \ {c}
BY DEF Inserting

LEMMA CopyStep ==
  ASSUME TypeOK, Custody, CopyInv, Next
  PROVE  CopyInv'
<1>0. TypeOK'
  BY TypeStep DEF Custody
<1>1. CASE /\ UNCHANGED <<docs, copies, call>> /\ \A a \in Att : att'[a].state = "moved" => att[a].state = "moved"
  <2>1. \A a \in Att : Inserting(a)' \subseteq Inserting(a)
    BY <1>1 DEF Inserting
  <2> QED
    BY <1>0, <1>1, <2>1, CopySame DEF CopyInv, TypeOK
<1>2. CASE Tick \/ JobStep \/ (\E m \in Message : DeleteMessage(m)) \/ \E r \in Room : Trash(r) \/ Purge(r) \/ Restore(r)
  <2>1. UNCHANGED <<docs, copies, call>> /\ (att' = att \/ \E r \in Room : Cascade(r))
    BY <1>2 DEF Tick, JobStep, JobBegins, JobDeletes, JobDeleteFails, JobClears, JobClearFails, JobLists, JobPurges,
       JobPurgeFails, DeleteMessage, Trash, Purge, Restore, table
  <2>2. \A a \in Att : att'[a].state = "moved" => att[a].state = "moved"
    BY <2>1, CascadeRows
  <2> QED
    BY <1>1, <2>1, <2>2
<1>3. CASE Crash
  <2>1. UNCHANGED <<docs, copies, att>> /\ \A c \in Caller : call'[c].step = "idle"
    BY <1>3 DEF Crash, table, Idle
  <2>2. \A a \in Att : Inserting(a)' \subseteq Inserting(a)
    BY <2>1 DEF Inserting
  <2> QED
    BY <1>0, <2>1, <2>2, CopySame DEF CopyInv, TypeOK
<1>4. ASSUME NEW c \in Caller, call'[c].step \notin {"inserting", "marking"}, docs' = docs,
             \A d \in Caller \ {c} : call'[d] = call[d], \A a \in Att : copies[a] <= copies'[a],
             \A a \in Att : att'[a].state = "moved" =>
               att[a].state = "moved" \/ (call[c].step = "marking" /\ call[c].of = a)
      PROVE  CopyInv'
  <2>1. \A a \in Att : Inserting(a)' \subseteq Inserting(a)
    BY <1>4, InsertingMoves
  <2>2. \A a \in Att : att'[a].state = "moved" => docs[a] > 0
    BY <1>4 DEF CopyInv
  <2>3. \A a \in Att : \A d \in Caller : call'[d].step = "marking" /\ call'[d].of = a => docs[a] > 0
    BY <1>4 DEF CopyInv
  <2> QED
    BY <1>0, <1>4, <2>1, <2>2, <2>3, CopySame DEF TypeOK
<1>5. ASSUME NEW c \in Caller, Asks(c) PROVE CopyInv'
  <2>1. UNCHANGED <<docs, copies, att>>
    BY <1>5 DEF Asks, UploadBegins, RemoveBegins, MoveBegins, Loads, table
  <2>2. call'[c].step \notin {"inserting", "marking"} /\ \A d \in Caller \ {c} : call'[d] = call[d]
    BY <1>5 DEF Asks, UploadBegins, RemoveBegins, MoveBegins, Loads, TypeOK
  <2> QED
    BY <1>4, <2>1, <2>2 DEF TypeOK
<1>6. ASSUME NEW c \in Caller, Work(c) PROVE CopyInv'
  <2>0. \A d \in Caller \ {c} : call'[d] = call[d]
    BY <1>6, WorkIsLegit DEF Legit
  <2>1. CASE (\E k \in Key : Put(c, k) \/ PutFails(c, k)) \/ CommitRefused(c) \/ Undo(c) \/ MarkRefused(c)
             \/ LetsGo(c) \/ LetGoFails(c) \/ Queues(c) \/ MoveCopyFails(c)
    <3>1. docs' = docs /\ att' = att
      BY <2>1 DEF Put, PutFails, CommitRefused, Undo, MarkRefused, LetsGo, LetGoFails, Queues, MoveCopyFails, table
    <3>2. call'[c].step \notin {"inserting", "marking"}
      <4>1. CASE \E k \in Key : Put(c, k) \/ PutFails(c, k)
        <5>1. PICK k \in Key : Put(c, k) \/ PutFails(c, k)
          BY <4>1
        <5>2. call[c].step = "putting" /\ call[c] \in CallType
          BY <5>1 DEF Put, PutFails, Putting, TypeOK
        <5>3. \/ call'[c] = [call[c] EXCEPT !.keys = @ \cup {k}, !.todo = @ \ {k}]
              \/ call'[c] = [call[c] EXCEPT !.todo = @ \ {k}]
              \/ call'[c] = [call[c] EXCEPT !.step = "undoing"]
          BY <5>1 DEF Put, PutFails, Goes, TypeOK
        <5> QED
          BY <5>2, <5>3 DEF CallType
      <4>2. CASE CommitRefused(c) \/ LetGoFails(c)
        <5>1. PICK s \in {"undoing", "queueing"} : Goes(c, s)
          BY <4>2 DEF CommitRefused, LetGoFails
        <5>2. call'[c] = [call[c] EXCEPT !.step = s] /\ call[c] \in CallType
          BY <5>1, CallTypes DEF Uploading, Letting, TypeOK
        <5> QED
          BY <5>2 DEF CallType
      <4>3. CASE Done(c)
        BY <4>3, CallTypes DEF Idle
      <4> QED
        BY <2>1, <4>1, <4>2, <4>3 DEF Undo, MarkRefused, LetsGo, Queues, MoveCopyFails
    <3>3. call[c].step = "copying" => call[c].of \in Att
      BY DEF Custody, CallInv, CallOK, Marking
    <3>4. \A a \in Att : copies[a] <= copies'[a]
      <4>1. CASE copies' = copies
        BY <4>1 DEF TypeOK
      <4>2. CASE MoveCopyFails(c)
        <5>1. call[c].of \in Att /\ (copies' = copies \/ copies' = [copies EXCEPT ![call[c].of] = @ + 1])
          BY <3>3, <4>2 DEF MoveCopyFails
        <5> QED
          BY <4>1, <5>1 DEF TypeOK
      <4> QED
        BY <2>1, <4>1, <4>2 DEF Put, PutFails, CommitRefused, Undo, MarkRefused, LetsGo, LetGoFails, Queues
    <3> QED
      BY <1>4, <2>0, <3>1, <3>2, <3>4
  <2>2. CASE Commit(c)
    <3>1. UNCHANGED <<docs, copies>> /\ call'[c] = Idle
      BY <2>2, CommitEffect DEF Commit
    <3>2. \A a \in Att : att'[a].state = "moved" => att[a].state = "moved"
      <4> SUFFICES ASSUME NEW a \in Att, att'[a].state = "moved" PROVE att[a].state = "moved"
        OBVIOUS
      <4>1. att'[a].state = "live" \/ att'[a] = att[a]
        <5>1. att'[a] = IF On[a] = call[c].of THEN [state |-> "live", keys |-> call[c].keys \cap KeysOf(a)] ELSE att[a]
          BY <2>2, CommitEffect
        <5> QED
          BY <5>1
      <4> QED
        BY <4>1
    <3> QED
      BY <1>4, <2>0, <3>1, <3>2 DEF Idle, TypeOK
  <2>3. CASE RemoveMarks(c) \/ MoveMarks(c)
    <3>1. \A a \in Att : att'[a].state = "moved" => att[a].state = "moved" \/ (call[c].step = "marking" /\ call[c].of = a)
      BY <2>3, MarkEffect
    <3>2. UNCHANGED <<docs, copies>> /\ call'[c].step = "letting go"
      BY <2>3, MarkEffect
    <3>3. \A a \in Att : copies[a] <= copies'[a]
      <4>1. copies' = copies /\ copies \in [Att -> Nat]
        BY <3>2 DEF TypeOK
      <4> QED
        BY <4>1
    <3> QED
      BY <1>4, <2>0, <3>1, <3>2, <3>3
  <2>4. CASE MoveCopies(c) \/ MoveInserts(c) \/ MoveInsertFails(c)
    <3> DEFINE o == call[c].of
    <3>1. o \in Att /\ call[c] \in CallType /\ att' = att
      BY <2>4 DEF MoveCopies, MoveInserts, MoveInsertFails, Custody, CallInv, CallOK, Marking, TypeOK, table
    <3>2. /\ MoveCopies(c) => call'[c].step = "inserting" /\ call'[c].of = o
          /\ MoveInserts(c) => call'[c].step = "marking" /\ call'[c].of = o
          /\ MoveInsertFails(c) => call'[c].step = "idle"
      BY <3>1 DEF MoveCopies, MoveInserts, MoveInsertFails, Goes, Done, Idle, TypeOK, CallType
    <3> SUFFICES ASSUME NEW a \in Att
                 PROVE  /\ IsFiniteSet(Inserting(a)') /\ docs'[a] + Cardinality(Inserting(a)') <= copies'[a]
                        /\ att'[a].state = "moved" => docs'[a] > 0
                        /\ \A d \in Caller : call'[d].step = "marking" /\ call'[d].of = a => docs'[a] > 0
      BY DEF CopyInv
    <3>3. IsFiniteSet(Inserting(a)) /\ Cardinality(Inserting(a)) \in Nat /\ docs[a] \in Nat /\ copies[a] \in Nat
          /\ docs[a] + Cardinality(Inserting(a)) <= copies[a]
      BY FS_CardinalityType DEF CopyInv, TypeOK
    <3>4. /\ c \in Inserting(a) <=> call[c].step = "inserting" /\ o = a
          /\ Cardinality(Inserting(a) \ {c}) = IF c \in Inserting(a) THEN Cardinality(Inserting(a)) - 1 ELSE Cardinality(Inserting(a))
          /\ Cardinality(Inserting(a) \cup {c}) = IF c \in Inserting(a) THEN Cardinality(Inserting(a)) ELSE Cardinality(Inserting(a)) + 1
          /\ IsFiniteSet(Inserting(a) \ {c}) /\ IsFiniteSet(Inserting(a) \cup {c})
      BY <3>3, FS_AddElement, FS_RemoveElement DEF Inserting
    <3>5. /\ MoveCopies(c) => call[c].step = "copying" /\ docs' = docs /\ copies'[a] = copies[a] + (IF a = o THEN 1 ELSE 0)
          /\ MoveInserts(c) => call[c].step = "inserting" /\ docs'[a] = docs[a] + (IF a = o THEN 1 ELSE 0) /\ copies' = copies
          /\ MoveInsertFails(c) => call[c].step = "inserting" /\ docs' = docs /\ copies'[a] \in Nat
               /\ copies'[a] >= copies[a] - (IF a = o THEN 1 ELSE 0)
      BY <1>0, <3>1 DEF MoveCopies, MoveInserts, MoveInsertFails, TypeOK
    <3>6. Inserting(a)' = IF MoveCopies(c) /\ o = a THEN Inserting(a) \cup {c} ELSE Inserting(a) \ {c}
      BY <2>0, <2>4, <3>2, <3>5, InsertingMoves
    <3>7. IsFiniteSet(Inserting(a)') /\ docs'[a] + Cardinality(Inserting(a)') <= copies'[a]
      <4>1. CASE MoveCopies(c)
        BY <3>3, <3>4, <3>5, <3>6, <4>1
      <4>2. CASE MoveInserts(c) /\ ~MoveCopies(c)
        BY <3>3, <3>4, <3>5, <3>6, <4>2
      <4>3. CASE MoveInsertFails(c) /\ ~MoveCopies(c)
        BY <3>3, <3>4, <3>5, <3>6, <4>3
      <4> QED
        BY <2>4, <4>1, <4>2, <4>3
    <3>8. docs[a] <= docs'[a] /\ docs'[a] \in Nat
      BY <1>0, <2>4, <3>3, <3>5 DEF TypeOK
    <3>9. att'[a].state = "moved" => docs'[a] > 0
      BY <3>1, <3>3, <3>8 DEF CopyInv
    <3>10. ASSUME NEW d \in Caller, call'[d].step = "marking", call'[d].of = a PROVE docs'[a] > 0
      <4>1. CASE d # c
        BY <2>0, <3>3, <3>8, <3>10, <4>1 DEF CopyInv
      <4>2. CASE d = c
        BY <2>4, <3>2, <3>3, <3>5, <3>10, <4>2
      <4> QED
        BY <4>1, <4>2
    <3> QED
      BY <3>7, <3>9, <3>10
  <2> QED
    BY <1>6, <2>1, <2>2, <2>3, <2>4 DEF Work
<1> QED
  BY <1>2, <1>3, <1>5, <1>6 DEF Next

----------------------------------------------------------------------------
(* Bytes whose author deleted them are due. *)

LEMMA DueStep ==
  ASSUME TypeOK, Custody, CopyInv, DeletedIsDue, Next
  PROVE  DeletedIsDue'
<1>0. TypeOK' /\ RowInv /\ QueueInv /\ JobInv /\ BucketOK /\ clock <= clock'
  BY TypeStep, Effect, HandsOff DEF Custody
<1> SUFFICES ASSUME NEW k \in objects', msg'[On[AttOf(k)]] = "deleted", att'[AttOf(k)].state = "live",
                    k \in att'[AttOf(k)].keys
             PROVE  queue'[k] <= clock'
  BY DEF DeletedIsDue
<1> DEFINE a == AttOf(k)
<1>a. k \in Key /\ a \in Att /\ On[a] \in Message /\ RoomOf(a) \in Room /\ RoomOf(a) = In[On[a]]
  BY <1>0, KeyFacts DEF TypeOK
<1>b. queue[k] \in Nat /\ queue'[k] \in Nat /\ clock \in Nat /\ clock' \in Nat
  BY <1>0, <1>a, Clocks DEF TypeOK
<1>1. ASSUME queue'[k] <= queue[k], msg[On[a]] = "deleted", att'[a] = att[a], k \in objects PROVE queue'[k] <= clock'
  BY <1>0, <1>b, <1>1 DEF DeletedIsDue
<1>2. CASE Quiet \/ BucketStep
  <2>1. UNCHANGED table
    BY <1>2 DEF Quiet, BucketStep
  <2>2. k \in objects
    BY <1>0, <2>1 DEF BucketOK, table
  <2> QED
    BY <1>1, <1>b, <2>1, <2>2 DEF table
<1>3. ASSUME NEW c \in Caller, Commit(c) PROVE queue'[k] <= clock'
  <2>1. On[a] # call[c].of
    BY <1>3, <1>a, CommitEffect DEF TypeOK
  <2>2. UNCHANGED <<queue, objects>> /\ att'[a] = att[a] /\ msg'[On[a]] = msg[On[a]]
    BY <1>3, <1>a, <2>1, CommitEffect DEF TypeOK
  <2> QED
    BY <1>1, <1>b, <2>2
<1>4. ASSUME NEW c \in Caller, RemoveMarks(c) \/ MoveMarks(c) PROVE queue'[k] <= clock'
  <2>1. UNCHANGED <<queue, objects, msg>> /\ att'[a] = att[a]
    BY <1>4, <1>a, MarkEffect
  <2> QED
    BY <1>1, <1>b, <2>1
<1>5. ASSUME NEW c \in Caller, Queues(c) PROVE queue'[k] <= clock'
  BY <1>1, <1>5, <1>a, QueuesEffect
<1>6. CASE JobClears
  <2>1. UNCHANGED <<objects, msg, att>> /\ job.step = "clearing" /\ queue'[k] = (IF k \in job.keys THEN Never ELSE queue[k])
    BY <1>6, <1>a DEF JobClears
  <2>2. k \notin job.keys
    BY <1>0, <2>1 DEF JobInv
  <2> QED
    BY <1>1, <1>b, <2>1, <2>2
<1>7. ASSUME NEW m \in Message, DeleteMessage(m) PROVE queue'[k] <= clock'
  <2>1. UNCHANGED <<clock, objects, att>> /\ msg[m] = "posted"
        /\ \A n \in Message : msg'[n] = IF n = m THEN "deleted" ELSE msg[n]
    BY <1>7, DeleteEffect DEF TypeOK
  <2>2. CASE On[a] = m
    <3>1. Owned(k)
      BY <2>1, <2>2 DEF Owned
    <3> QED
      BY <1>7, <1>a, <1>b, <2>1, <2>2, <3>1, DeleteEffect
  <2>3. CASE On[a] # m
    <3>1. queue'[k] = queue[k]
      BY <1>7, <1>a, <2>3, DeleteEffect
    <3> QED
      BY <1>1, <1>a, <1>b, <2>1, <2>3, <3>1
  <2> QED
    BY <2>2, <2>3
<1>8. ASSUME NEW r \in Room, Trash(r) \/ Restore(r) PROVE queue'[k] <= clock'
  <2>1. UNCHANGED <<objects, msg, att>>
    BY <1>8 DEF Trash, Restore
  <2>2. ~Owned(k)
    BY <2>1 DEF Owned
  <2>3. queue'[k] <= queue[k]
    BY <1>8, <1>a, <1>b, <2>2, TrashEffect, RestoreEffect
  <2> QED
    BY <1>1, <2>1, <2>3
<1>9. ASSUME NEW r \in Room, Purge(r) \/ JobPurges(r) PROVE queue'[k] <= clock'
  <2>1. Cascade(r) /\ objects' = objects /\ queue'[k] <= queue[k]
    BY <1>9, <1>a, <1>b, PurgeEffect DEF JobPurges
  <2>2. RoomOf(a) # r
    BY <1>a, <2>1, CascadeRows
  <2>3. att'[a] = att[a] /\ msg'[On[a]] = msg[On[a]]
    BY <1>a, <2>1, <2>2, CascadeRows
  <2> QED
    BY <1>1, <2>1, <2>3
<1> QED
  BY <1>2, <1>3, <1>4, <1>5, <1>6, <1>7, <1>8, <1>9, StepKinds DEF TableStep, CallTable

----------------------------------------------------------------------------
(* No object is merely forgotten. *)

\* Who remembers an object.
Kept(k) ==
  \/ Owned(k) \/ queue[k] # Never
  \/ \E c \in Caller : InHand(c) /\ k \in call[c].keys
  \/ k \in lost \/ RoomOf(AttOf(k)) \in robbed

LEMMA HeldOn ==
  ASSUME NEW k, NEW c \in Caller, InHand(c), k \in call[c].keys, InHand(c)', k \in call'[c].keys
  PROVE  Kept(k)'
BY DEF Kept

\* An object that is kept stays so when the tables do, and the others' requests, and the
\* request of c holds it still if it held it before.
LEMMA KeptBy ==
  ASSUME NEW k, Kept(k), Owned(k) => Owned(k)', queue[k] # Never => queue'[k] # Never,
         lost \subseteq lost', robbed \subseteq robbed', NEW c \in Caller,
         \A d \in Caller \ {c} : call'[d] = call[d],
         InHand(c) /\ k \in call[c].keys => Kept(k)'
  PROVE  Kept(k)'
<1>1. ASSUME NEW d \in Caller, InHand(d), k \in call[d].keys PROVE Kept(k)'
  <2>1. CASE d = c
    BY <1>1, <2>1
  <2>2. CASE d # c
    BY <1>1, <2>2 DEF InHand, Kept
  <2> QED
    BY <2>1, <2>2
<1> QED
  BY <1>1 DEF Kept

LEMMA KeptAlone ==
  ASSUME NEW k, Kept(k), Owned(k) => Kept(k)', queue[k] # Never => queue'[k] # Never,
         lost \subseteq lost', robbed \subseteq robbed', call' = call
  PROVE  Kept(k)'
BY DEF Kept, InHand

LEMMA OrphanWork ==
  ASSUME TypeOK, Custody, CopyInv, NoSilentOrphan, NEW c \in Caller, Work(c), NEW k \in objects'
  PROVE  Kept(k)'
<1>0. Next
  BY DEF Next
<1>1. TypeOK' /\ TypeOK /\ RowInv /\ (\A d \in Caller \ {c} : call'[d] = call[d]) /\ robbed' = robbed
  BY <1>0, TypeStep, WorkIsLegit DEF Custody, Legit, Work, Put, PutFails, Commit, CommitRefused, Undo, RemoveMarks,
     MoveMarks, MarkRefused, MoveCopies, MoveCopyFails, MoveInserts, MoveInsertFails, LetsGo, LetGoFails, Queues, past
<1>2. k \in Key /\ AttOf(k) \in Att /\ On[AttOf(k)] \in Message /\ call[c] \in CallType
  BY <1>1, KeyFacts DEF TypeOK
<1>3. k \in objects => Kept(k)
  BY DEF NoSilentOrphan, Kept
<1>4. ASSUME NEW l \in Key, Put(c, l) PROVE Kept(k)'
  <2>1. /\ call'[c] = [call[c] EXCEPT !.keys = @ \cup {l}, !.todo = @ \ {l}] /\ call[c].step = "putting"
        /\ objects' = objects \cup {l} /\ UNCHANGED <<table, lost>>
    BY <1>4, <1>1 DEF Put, Putting, TypeOK
  <2>2. InHand(c)' /\ call[c].keys \subseteq call'[c].keys /\ l \in call'[c].keys
    BY <1>2, <2>1 DEF InHand, CallType
  <2>3. CASE k = l
    BY <2>2, <2>3 DEF Kept
  <2>4. CASE k # l
    <3>1. Kept(k) /\ (InHand(c) /\ k \in call[c].keys => Kept(k)')
      BY <1>3, <2>1, <2>2, <2>4 DEF Kept
    <3> QED
      BY <1>1, <2>1, <3>1, KeptBy DEF table, Owned
  <2> QED
    BY <2>3, <2>4
<1>5. ASSUME NEW l \in Key, PutFails(c, l) PROVE Kept(k)'
  <2>1. PICK landed \in SUBSET {l} : objects' = objects \cup landed /\ lost' = lost \cup landed
    BY <1>5 DEF PutFails
  <2>2. /\ \/ call'[c] = [call[c] EXCEPT !.todo = @ \ {l}]
           \/ call'[c] = [call[c] EXCEPT !.step = "undoing"]
        /\ call[c].step = "putting" /\ UNCHANGED table
    BY <1>5, <1>1 DEF PutFails, Putting, Goes, TypeOK
  <2>3. InHand(c)' /\ call'[c].keys = call[c].keys
    BY <1>2, <2>2 DEF InHand, CallType
  <2>4. CASE k \in landed
    BY <2>1, <2>4 DEF Kept
  <2>5. CASE k \notin landed
    <3>1. Kept(k) /\ (InHand(c) /\ k \in call[c].keys => Kept(k)')
      BY <1>3, <2>1, <2>3, <2>5 DEF Kept
    <3> QED
      BY <1>1, <2>1, <2>2, <3>1, KeptBy DEF table, Owned
  <2> QED
    BY <2>4, <2>5
<1>6. CASE Commit(c)
  <2>1. k \in call[c].keys => Owned(k)'
    <3> SUFFICES ASSUME k \in call[c].keys PROVE Owned(k)'
      OBVIOUS
    <3>1. On[AttOf(k)] = call[c].of /\ k \in KeysOf(AttOf(k))
      BY <1>2, <1>6, CommitEffect DEF FilesOf, KeysOf
    <3>2. att'[AttOf(k)] = [state |-> "live", keys |-> call[c].keys \cap KeysOf(AttOf(k))] /\ msg'[On[AttOf(k)]] = "posted"
      BY <1>1, <1>2, <1>6, <3>1, CommitEffect DEF TypeOK
    <3> QED
      BY <3>1, <3>2 DEF Owned
  <2>2. Owned(k) => Owned(k)'
    BY <1>1, <1>2, <1>6, CommitEffect DEF Owned, TypeOK
  <2> QED
    BY <1>1, <1>3, <1>6, <2>1, <2>2, CommitEffect, KeptBy DEF Kept
<1>7. CASE CommitRefused(c)
  <2>1. call'[c] = [call[c] EXCEPT !.step = "undoing"] /\ UNCHANGED <<table, objects, lost>>
    BY <1>1, <1>7 DEF CommitRefused, Goes, TypeOK
  <2>2. InHand(c)' /\ call'[c].keys = call[c].keys
    BY <1>2, <2>1 DEF InHand, CallType
  <2> QED
    BY <1>1, <1>3, <2>1, <2>2, KeptBy DEF table, Owned, Kept
<1>8. CASE Undo(c)
  <2>1. PICK deleted \in SUBSET call[c].keys :
          objects' = objects \ deleted /\ lost' = lost \cup (call[c].keys \ deleted)
    BY <1>8 DEF Undo
  <2>2. UNCHANGED table /\ (k \in call[c].keys => k \in lost')
    BY <1>8, <2>1 DEF Undo
  <2> QED
    BY <1>1, <1>3, <2>1, <2>2, KeptBy DEF table, Owned, Kept
<1>9. CASE RemoveMarks(c) \/ MoveMarks(c)
  <2>1. call[c].keys = att[call[c].of].keys /\ InHand(c)' /\ call'[c].keys = call[c].keys /\ objects' = objects
        /\ UNCHANGED <<msg, queue, lost>> /\ ~InHand(c)
    BY <1>9, MarkEffect DEF InHand, RemoveMarks, MoveMarks
  <2>2. CASE Owned(k) /\ AttOf(k) = call[c].of
    BY <2>1, <2>2 DEF Owned, Kept
  <2>3. CASE ~(Owned(k) /\ AttOf(k) = call[c].of)
    <3>1. Owned(k) => Owned(k)'
      BY <1>2, <1>9, <2>1, <2>3, MarkEffect DEF Owned
    <3> QED
      BY <1>1, <1>3, <2>1, <3>1, KeptBy
  <2> QED
    BY <2>2, <2>3
<1>10. CASE MarkRefused(c) \/ MoveCopies(c) \/ MoveCopyFails(c) \/ MoveInserts(c) \/ MoveInsertFails(c)
  <2>1. ~InHand(c) /\ UNCHANGED <<table, objects, lost>>
    BY <1>10 DEF MarkRefused, MoveCopies, MoveCopyFails, MoveInserts, MoveInsertFails, InHand
  <2> QED
    BY <1>1, <1>3, <2>1, KeptBy DEF table, Owned
<1>11. CASE LetsGo(c)
  <2>1. k \in objects /\ k \notin call[c].keys /\ UNCHANGED <<table, lost>>
    BY <1>11 DEF LetsGo
  <2> QED
    BY <1>1, <1>3, <2>1, KeptBy DEF table, Owned
<1>12. CASE LetGoFails(c)
  <2>1. k \in objects /\ call'[c] = [call[c] EXCEPT !.step = "queueing"] /\ UNCHANGED <<table, lost>>
    BY <1>1, <1>12 DEF LetGoFails, Goes, TypeOK
  <2>2. InHand(c)' /\ call'[c].keys = call[c].keys
    BY <1>2, <2>1 DEF InHand, CallType
  <2> QED
    BY <1>1, <1>3, <2>1, <2>2, KeptBy DEF table, Owned, Kept
<1>13. CASE Queues(c)
  <2>1. PICK queued \in SUBSET call[c].keys :
          queue' = Promise(queued, clock) /\ lost' = lost \cup (objects \cap (call[c].keys \ queued))
    BY <1>13, QueuesEffect
  <2>2. UNCHANGED <<objects, msg, att>> /\ call[c].keys \subseteq Key /\ queue'[k] <= queue[k]
    BY <1>2, <1>13, QueuesEffect
  <2>3. clock \in 0..MaxClock /\ queued \in SUBSET Key
    BY <1>1, <2>2 DEF TypeOK
  <2>4. k \in queued => queue'[k] # Never
    <3> SUFFICES ASSUME k \in queued PROVE queue'[k] # Never
      OBVIOUS
    <3>1. queue'[k] <= clock
      BY <1>1, <2>1, <2>3, Promises
    <3>2. clock < Never /\ clock \in Int /\ Never \in Int
      BY <2>3, Clocks
    <3> QED
      BY <3>1, <3>2
  <2>5. queue[k] # Never => queue'[k] # Never
    <3>1. queue[k] \in 0..Never /\ queue'[k] \in 0..Never /\ queue'[k] <= queue[k]
      BY <1>1, <1>2, <2>2 DEF TypeOK
    <3> QED
      BY <3>1, Clocks
  <2>6. k \in call[c].keys => Kept(k)'
    BY <2>1, <2>2, <2>4 DEF Kept
  <2> QED
    BY <1>1, <1>3, <2>1, <2>2, <2>5, <2>6, KeptBy DEF Owned
<1> QED
  BY <1>4, <1>5, <1>6, <1>7, <1>8, <1>9, <1>10, <1>11, <1>12, <1>13 DEF Work

LEMMA OrphanStep ==
  ASSUME TypeOK, Custody, CopyInv, NoSilentOrphan, DeletedIsDue, Next
  PROVE  NoSilentOrphan'
<1>0. TypeOK' /\ RowInv /\ WindowInv /\ QueueInv /\ JobInv
  BY TypeStep DEF Custody
<1> SUFFICES ASSUME NEW k \in objects' PROVE Kept(k)'
  BY DEF NoSilentOrphan, Kept
<1> DEFINE a == AttOf(k)
<1>a. k \in Key /\ a \in Att /\ On[a] \in Message /\ RoomOf(a) \in Room /\ RoomOf(a) = In[On[a]]
  BY <1>0, KeyFacts DEF TypeOK
<1>b. queue[k] \in 0..Never /\ queue'[k] \in 0..Never /\ clock < Never
  BY <1>0, <1>a, Clocks DEF TypeOK
<1>c. k \in objects => Kept(k)
  BY DEF NoSilentOrphan, Kept
<1>1. ASSUME objects' \subseteq objects, UNCHANGED <<table, call, lost, robbed>> PROVE Kept(k)'
  <2>1. Owned(k) => Kept(k)'
    BY <1>1 DEF table, Owned, Kept
  <2> QED
    BY <1>1, <1>c, <2>1, KeptAlone DEF table
<1>2. CASE Tick \/ JobBegins \/ JobDeletes \/ JobDeleteFails \/ JobClearFails \/ JobLists \/ \E r \in Room : JobPurgeFails(r)
  BY <1>1, <1>2 DEF Tick, JobBegins, JobDeletes, JobDeleteFails, JobClearFails, JobLists, JobPurgeFails, past
<1>3. CASE JobClears
  <2>1. UNCHANGED <<objects, msg, att, call, lost, robbed>> /\ job.step = "clearing"
        /\ queue'[k] = (IF k \in job.keys THEN Never ELSE queue[k])
    BY <1>3, <1>a DEF JobClears, past
  <2>2. k \notin job.keys
    BY <1>0, <2>1 DEF JobInv
  <2>3. Owned(k) => Kept(k)'
    BY <2>1 DEF Owned, Kept
  <2> QED
    BY <1>c, <2>1, <2>2, <2>3, KeptAlone
<1>4. CASE Crash
  <2>1. UNCHANGED <<table, objects, robbed>>
        /\ lost' = lost \cup (objects \cap UNION {call[c].keys : c \in {d \in Caller : InHand(d)}})
    BY <1>4 DEF Crash
  <2>2. ASSUME NEW c \in Caller, InHand(c), k \in call[c].keys PROVE k \in lost'
    BY <2>1, <2>2
  <2> QED
    BY <1>c, <2>1, <2>2 DEF Kept, Owned, table
<1>5. ASSUME NEW r \in Room, JobPurges(r) PROVE Kept(k)'
  <2>1. /\ UNCHANGED <<queue, objects, call, lost>> /\ Cascade(r) /\ robbed \subseteq robbed'
        /\ (~Trashed(r) /\ room[r].state # "purged" => r \in robbed')
    BY <1>5 DEF JobPurges
  <2>2. ASSUME Owned(k) PROVE Kept(k)'
    <3>1. CASE RoomOf(a) # r
      BY <1>a, <2>1, <2>2, <3>1, CascadeRows DEF Owned, Kept
    <3>2. CASE RoomOf(a) = r /\ Trashed(r)
      <4>1. queue[k] # Never
        BY <1>0, <1>a, <2>1, <2>2, <3>2, Clocks DEF QueueInv, WindowInv, LiveRoom, Trashed
      <4> QED
        BY <2>1, <4>1 DEF Kept
    <3>3. CASE RoomOf(a) = r /\ ~Trashed(r)
      <4>1. room[r].state # "purged"
        BY <1>0, <1>a, <2>2, <3>3 DEF RowInv, Owned
      <4> QED
        BY <2>1, <3>3, <4>1 DEF Kept
    <3> QED
      BY <3>1, <3>2, <3>3
  <2> QED
    BY <1>c, <2>1, <2>2, KeptAlone
<1>6. ASSUME NEW c \in Caller, Asks(c) PROVE Kept(k)'
  <2>1. UNCHANGED <<table, objects, lost, robbed>> /\ call[c] = Idle
    BY <1>6 DEF Asks, UploadBegins, RemoveBegins, MoveBegins, Loads, past
  <2>2. ~InHand(c) /\ \A d \in Caller \ {c} : call'[d] = call[d]
    BY <1>6, <2>1, AskIsLegit DEF InHand, Idle, Legit
  <2> QED
    BY <1>c, <2>1, <2>2, KeptBy DEF table, Owned
<1>7. ASSUME NEW c \in Caller, Work(c) PROVE Kept(k)'
  BY <1>7, OrphanWork
<1>8. ASSUME NEW m \in Message, DeleteMessage(m) PROVE Kept(k)'
  <2>1. /\ UNCHANGED <<objects, att, call, lost, robbed>> /\ (queue'[k] = queue[k] \/ queue'[k] = clock)
        /\ (On[a] = m /\ Owned(k) => queue'[k] = clock) /\ (On[a] # m => msg'[On[a]] = msg[On[a]])
    BY <1>8, <1>a, DeleteEffect DEF TypeOK
  <2>2. Owned(k) => Kept(k)'
    BY <1>b, <2>1 DEF Owned, Kept
  <2> QED
    BY <1>b, <1>c, <2>1, <2>2, KeptAlone
<1>9. ASSUME NEW r \in Room, Trash(r) PROVE Kept(k)'
  <2>1. UNCHANGED <<objects, msg, att, call, lost, robbed>> /\ queue'[k] <= queue[k]
    BY <1>9, <1>a, TrashEffect
  <2>2. Owned(k) => Kept(k)'
    BY <2>1 DEF Owned, Kept
  <2> QED
    BY <1>b, <1>c, <2>1, <2>2, Clocks, KeptAlone
<1>10. ASSUME NEW r \in Room, Purge(r) PROVE Kept(k)'
  <2>1. UNCHANGED <<clock, objects, call, lost, robbed>> /\ Cascade(r) /\ queue'[k] <= queue[k]
        /\ (RoomOf(a) = r /\ Owned(k) => queue'[k] <= clock)
    BY <1>10, <1>a, PurgeEffect
  <2>2. Owned(k) => Kept(k)'
    <3>1. CASE RoomOf(a) = r
      <4>1. clock \in Nat
        BY DEF TypeOK
      <4>2. Owned(k) => queue'[k] # Never
        BY <1>b, <2>1, <3>1, <4>1, Clocks
      <4> QED
        BY <4>2 DEF Kept
    <3>2. CASE RoomOf(a) # r
      BY <1>a, <2>1, <3>2, CascadeRows DEF Owned, Kept
    <3> QED
      BY <3>1, <3>2
  <2> QED
    BY <1>b, <1>c, <2>1, <2>2, Clocks, KeptAlone
<1>11. ASSUME NEW r \in Room, Restore(r) PROVE Kept(k)'
  <2>1. UNCHANGED <<objects, msg, att, call, lost, robbed>> /\ (~Owned(k) => queue'[k] = queue[k])
    BY <1>11, <1>a, RestoreEffect
  <2>2. Owned(k) => Kept(k)'
    BY <2>1 DEF Owned, Kept
  <2> QED
    BY <1>c, <2>1, <2>2 DEF Kept, InHand
<1> QED
  BY <1>2, <1>3, <1>4, <1>5, <1>6, <1>7, <1>8, <1>9, <1>10, <1>11 DEF Next, JobStep

----------------------------------------------------------------------------
(* The theorems. *)

LEMMA Inductive == Spec => []IInv
<1>1. ASSUME IInv, [Next]_vars PROVE IInv'
  <2>1. CASE Next
    <3>1. TypeOK /\ Custody /\ CopyInv /\ RowInv /\ CallInv
      BY <1>1 DEF IInv, Custody
    <3>2. TypeOK' /\ Custody' /\ CopyInv'
      BY <2>1, <3>1, TypeStep, RowStep, WindowStep, QueueStep, CallStep, JobKeeps, CopyStep DEF Custody
    <3> QED
      BY <1>1, <2>1, <3>1, <3>2, OwnedStays, OrphanStep, DueStep DEF IInv
  <2>2. CASE UNCHANGED vars
    <3> USE <1>1, <2>2 DEF vars, table, past, IInv
    <3>1. TypeOK'
      BY DEF TypeOK
    <3>2. RowInv' /\ WindowInv' /\ QueueInv'
      BY DEF Custody, RowInv, WindowInv, QueueInv, Owned, LiveRoom, Trashed, Deadline
    <3>3. CallInv'
      BY DEF Custody, CallInv, CallOK
    <3>4. JobInv'
      BY DEF Custody, JobInv, Forfeit, Owned, Recoverable, Overdue, LiveRoom, Trashed, Deadline
    <3>5. CopyInv'
      BY DEF CopyInv, Inserting
    <3>6. OwnedIsThere'
      BY DEF OwnedIsThere, Owned, Recoverable, Overdue, LiveRoom, Trashed, Deadline
    <3>7. NoSilentOrphan' /\ DeletedIsDue'
      BY DEF NoSilentOrphan, Owned, InHand, DeletedIsDue
    <3> QED
      BY <3>1, <3>2, <3>3, <3>4, <3>5, <3>6, <3>7 DEF Custody
  <2> QED
    BY <1>1, <2>1, <2>2
<1> QED
  BY <1>1, InitHolds, PTL DEF Spec

\* Every variable keeps its type: no deadline beyond the horizon, no document without a copy to count.
THEOREM BlobsTypeCorrect == Spec => []TypeOK
<1>1. IInv => TypeOK
  BY DEF IInv
<1> QED
  BY <1>1, Inductive, PTL

\* Every object a row vouches for is in the bucket while its room can be read or restored
\* in time, the clean-up's and the job's deletions notwithstanding, and every moved
\* attachment has a document with bytes of its own.
THEOREM BytesAreKept == Spec => []NothingIsLost
<1>1. IInv => NothingIsLost
  <2> SUFFICES ASSUME IInv PROVE NothingIsLost
    OBVIOUS
  <2>1. ASSUME NEW a \in Att PROVE docs[a] <= copies[a]
    BY FS_CardinalityType DEF IInv, CopyInv, TypeOK
  <2> QED
    BY <2>1 DEF IInv, OwnedIsThere, CopyInv, NothingIsLost
<1> QED
  BY <1>1, Inductive, PTL

\* An object is owned by a row, queued, or in a request's hands, or one of the losses the
\* code accepts explains it.
THEOREM OrphansAreKnown == Spec => []NoSilentOrphan
<1>1. IInv => NoSilentOrphan
  BY DEF IInv
<1> QED
  BY <1>1, Inductive, PTL

\* Every step leaves the bytes of deleted messages due, and the job takes no room whose
\* window is open, save one that was restored after its window.
THEOREM DeletionsComeInTime == Spec => DeletionsAreTimely
<1>1. ASSUME IInv, IInv', [Next]_vars
      PROVE  [/\ DeletedIsDue'
              /\ \A r \in Room \ late : JobPurges(r) /\ room[r].state # "purged" => Overdue(r)]_vars
  <2>1. DeletedIsDue'
    BY <1>1 DEF IInv
  <2>2. ASSUME NEW r \in Room \ late, JobPurges(r), room[r].state # "purged" PROVE Overdue(r)
    BY <1>1, <2>2 DEF IInv, Custody, JobInv, JobPurges
  <2> QED
    BY <2>1, <2>2
<1> QED
  BY <1>1, Inductive, PTL DEF Spec, DeletionsAreTimely
=============================================================================

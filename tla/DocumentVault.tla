---------------------------- MODULE DocumentVault ----------------------------
(* The bytes of the documents: uploads that store an object before its row,   *)
(* the worker pool that derives previews and thumbnails, and the daily pass   *)
(* that removes objects no row claims (modules/documents/upload.go,           *)
(* preview.go, mirror.go).  A key is a document and a part, so a part derived *)
(* again overwrites the earlier one.                                          *)
EXTENDS Integers, Sequences, FiniteSets

CONSTANTS Docs,         \* document ids
          Workers,      \* the preview pool
          QueueSize,    \* room in the preview queue
          Floor,        \* orphans a sweep may always remove if as many are claimed
          ShareLimit    \* a sweep takes at most one object in ShareLimit

VARIABLES row,          \* the documents' rows
          stage,        \* how far each document's upload or purge has come
          objects, old, \* the bucket, and what in it is older than the grace
          queue, inFlight, job,   \* the pool
          conf, phase, todo,      \* this boot: configuration, start-up sweep, its list
          deferred,     \* left for the next boot, with a reason
          pass          \* the reconciliation pass under way

bucket == <<objects, old>>
pool == <<queue, inFlight, job, deferred>>
boot == <<conf, phase, todo>>
vaultVars == <<row, stage, bucket, pool, boot, pass>>

Types == {"office", "picture", "plain"}
Derived == {"preview", "thumb"}
Statuses == {"none", "pending", "ready", "failed"}
NoDocument == [type |-> "none"]
Rows == [type: Types, preview: Statuses, thumb: Statuses, keys: SUBSET Derived]
Idle == [at |-> "idle"]
HasRow(d) == row[d] # NoDocument

NeedsDerivedObject(type) == type \in {"office", "picture"}
PreviewPlan(type, enabled) ==
    CASE type = "picture" -> "ready"
      [] type = "office" /\ enabled -> "pending"
      [] OTHER -> "none"
ThumbnailPlan(type, enabled) == IF enabled /\ NeedsDerivedObject(type) THEN "pending" ELSE "none"

ObjectKeysOf(d) == {<<d, part>> : part \in {"original"} \cup row[d].keys}
ExpectedObjects == UNION {ObjectKeysOf(d) : d \in {x \in Docs : HasRow(x)}}

VaultInit ==
    /\ row = [d \in Docs |-> NoDocument] /\ stage = [d \in Docs |-> "new"]
    /\ objects = {} /\ old = {}
    /\ queue = <<>> /\ inFlight = {} /\ job = [w \in Workers |-> Idle]
    /\ conf = [enabled |-> FALSE, converter |-> FALSE] /\ phase = "down"
    /\ todo = {} /\ deferred = {} /\ pass = Idle

Put(key) == objects' = objects \cup {key} /\ old' = old \ {key}
Remove(keys) == objects' = objects \ keys /\ old' = old \ keys

----------------------------------------------------------------------------
\* The queue

Enqueue(d) ==
    LET fits == d \notin inFlight /\ Len(queue) < QueueSize
    IN /\ queue' = IF fits THEN Append(queue, d) ELSE queue
       /\ inFlight' = IF fits THEN inFlight \cup {d} ELSE inFlight
       /\ deferred' = IF fits \/ d \in inFlight THEN deferred ELSE deferred \cup {d}

\* What SetPreviewResult records: statuses as given, keys only ever added.
SetPreviewResult(d, preview, thumb, keys) ==
    row' = IF HasRow(d)
           THEN [row EXCEPT ![d].preview = preview, ![d].thumb = thumb, ![d].keys = @ \cup keys]
           ELSE row

----------------------------------------------------------------------------
\* Requests

UploadPut(d) ==
    /\ phase # "down" /\ stage[d] = "new" /\ Put(<<d, "original">>)
    /\ stage' = [stage EXCEPT ![d] = "sent"]
    /\ UNCHANGED <<row, pool, boot, pass>>

UploadInsert(d, type) ==
    /\ stage[d] = "sent"
    /\ row' = [row EXCEPT ![d] = [type |-> type, preview |-> PreviewPlan(type, conf.enabled),
                                  thumb |-> ThumbnailPlan(type, conf.enabled), keys |-> {}]]
    /\ stage' = [stage EXCEPT ![d] = "committed"]
    /\ UNCHANGED <<bucket, pool, boot, pass>>

\* The row was refused: the object is taken back, if the store lets it.
UploadRefused(d) ==
    /\ stage[d] = "sent"
    /\ Remove({<<d, "original">>}) \/ UNCHANGED bucket
    /\ stage' = [stage EXCEPT ![d] = "gone"]
    /\ UNCHANGED <<row, pool, boot, pass>>

UploadEnqueue(d) ==
    /\ stage[d] = "committed"
    /\ stage' = [stage EXCEPT ![d] = "kept"]
    /\ IF HasRow(d) /\ conf.enabled /\ NeedsDerivedObject(row[d].type)
       THEN Enqueue(d) ELSE UNCHANGED <<queue, inFlight, deferred>>
    /\ UNCHANGED <<row, bucket, job, boot, pass>>

\* The row goes in the transaction, the objects it named after it, if they can.
DeleteDocument(d) ==
    /\ phase # "down" /\ stage[d] = "kept" /\ HasRow(d)
    /\ row' = [row EXCEPT ![d] = NoDocument]
    /\ stage' = [stage EXCEPT ![d] = "gone"]
    /\ Remove(ObjectKeysOf(d)) \/ UNCHANGED bucket
    /\ UNCHANGED <<pool, boot, pass>>

----------------------------------------------------------------------------
\* The pool

Take(w) ==
    /\ phase # "down" /\ job[w] = Idle /\ queue # <<>>
    /\ job' = [job EXCEPT ![w] = [doc |-> Head(queue),
                                  at |-> IF HasRow(Head(queue)) THEN "deriving" ELSE "leaving"]]
    /\ queue' = Tail(queue)
    /\ UNCHANGED <<row, stage, bucket, inFlight, deferred, boot, pass>>

\* The original cannot be read, the converter not be reached, or the store
\* refuses the preview: the row stays pending until the next boot.
Transient(w) ==
    /\ job[w].at = "deriving"
    /\ job' = [job EXCEPT ![w].at = "leaving"]
    /\ deferred' = deferred \cup {job[w].doc}
    /\ UNCHANGED <<row, stage, bucket, queue, inFlight, boot, pass>>

Finishing(w, preview, thumb, keys) ==
    job' = [job EXCEPT ![w] = [doc |-> job[w].doc, at |-> "finishing",
                               preview |-> preview, thumb |-> thumb, keys |-> keys]]

TypeOf(w) == IF HasRow(job[w].doc) THEN row[job[w].doc].type ELSE "plain"

DeriveOfficePreview(w) ==
    /\ job[w].at = "deriving" /\ TypeOf(w) = "office"
    /\ \/ ~conf.converter /\ Finishing(w, "none", "none", {}) /\ UNCHANGED bucket
       \/ conf.converter /\ Finishing(w, "failed", "failed", {}) /\ UNCHANGED bucket
       \/ /\ conf.converter /\ Put(<<job[w].doc, "preview">>)
          /\ job' = [job EXCEPT ![w].at = "rastering"]
    /\ UNCHANGED <<row, stage, queue, inFlight, deferred, boot, pass>>

\* The thumbnail, of a preview just stored or of the original itself.
EncodeAndStoreThumb(w) ==
    LET d == job[w].doc
        made == IF job[w].at = "rastering" THEN {"preview"} ELSE {}
    IN /\ \/ job[w].at = "rastering"
          \/ job[w].at = "deriving" /\ TypeOf(w) = "picture"
       /\ \/ Finishing(w, "ready", "failed", made) /\ UNCHANGED bucket
          \/ Finishing(w, "ready", "pending", made) /\ UNCHANGED bucket
          \/ Finishing(w, "ready", "ready", made \cup {"thumb"}) /\ Put(<<d, "thumb">>)
       /\ UNCHANGED <<row, stage, queue, inFlight, deferred, boot, pass>>

\* A decoder panics: the job settles its document as failed.
SettlePanicked(w) ==
    /\ job[w].at \in {"deriving", "rastering"}
    /\ LET d == job[w].doc
       IN IF HasRow(d)
          THEN Finishing(w, IF row[d].preview = "pending" THEN "failed" ELSE row[d].preview, "failed", {})
          ELSE job' = [job EXCEPT ![w].at = "leaving"]
    /\ UNCHANGED <<row, stage, bucket, queue, inFlight, deferred, boot, pass>>

Finish(w) ==
    LET d == job[w].doc
    IN /\ job[w].at = "finishing"
       /\ \/ /\ SetPreviewResult(d, job[w].preview, job[w].thumb, job[w].keys)
             /\ deferred' = IF job[w].thumb = "pending" THEN deferred \cup {d} ELSE deferred
          \/ UNCHANGED row /\ deferred' = deferred \cup {d}     \* the write fails
       /\ job' = [job EXCEPT ![w] = [doc |-> d, at |-> "leaving"]]
       /\ UNCHANGED <<stage, bucket, queue, inFlight, boot, pass>>

Leave(w) ==
    /\ job[w].at = "leaving"
    /\ inFlight' = inFlight \ {job[w].doc}
    /\ job' = [job EXCEPT ![w] = Idle]
    /\ UNCHANGED <<row, stage, bucket, queue, deferred, boot, pass>>

----------------------------------------------------------------------------
\* Start-up: rows written off while derivation was off are re-opened, then
\* whatever is pending is queued; without the pool what is pending is settled.

\* A slip: a thumbnail alone outstanding is not looked for.
PendingPreviewsOnly == {d \in Docs : HasRow(d) /\ row[d].preview = "pending"}

PendingPreviewIDs ==
    {d \in Docs : HasRow(d) /\ "pending" \in {row[d].preview, row[d].thumb}}

Reopened(d) ==
    [preview |-> IF row[d].preview = "none" /\ "preview" \notin row[d].keys
                 THEN PreviewPlan(row[d].type, TRUE) ELSE row[d].preview,
     thumb |-> IF row[d].thumb = "none" /\ "thumb" \notin row[d].keys
               THEN "pending" ELSE row[d].thumb]

SettledWithoutDerivation(converter) ==
    {d \in Docs : /\ HasRow(d) /\ NeedsDerivedObject(row[d].type)
                  /\ row[d].type = "office" => converter
                  /\ Reopened(d) # [preview |-> row[d].preview, thumb |-> row[d].thumb]}

Start(enabled, converter) ==
    /\ phase = "down"
    /\ conf' = [enabled |-> enabled, converter |-> converter]
    /\ phase' = IF enabled THEN "backfill" ELSE "settle"
    /\ todo' = IF enabled THEN SettledWithoutDerivation(converter) ELSE PendingPreviewIDs
    /\ UNCHANGED <<row, stage, bucket, pool, pass>>

BackfillSettled(d) ==
    /\ phase = "backfill" /\ d \in todo
    /\ todo' = todo \ {d}
    /\ IF HasRow(d)
       THEN SetPreviewResult(d, Reopened(d).preview, Reopened(d).thumb, {}) ELSE UNCHANGED row
    /\ Enqueue(d)
    /\ UNCHANGED <<stage, bucket, job, conf, phase, pass>>

ListPending ==
    /\ phase = "backfill" /\ todo = {}
    /\ \/ phase' = "requeue" /\ todo' = PendingPreviewIDs /\ UNCHANGED deferred
       \/ phase' = "up" /\ UNCHANGED todo             \* the query fails
          /\ deferred' = deferred \cup PendingPreviewIDs
    /\ UNCHANGED <<row, stage, bucket, queue, inFlight, job, conf, pass>>

RequeuePending(d) ==
    /\ phase = "requeue" /\ d \in todo
    /\ todo' = todo \ {d} /\ Enqueue(d)
    /\ UNCHANGED <<row, stage, bucket, job, conf, phase, pass>>

SettlePending(d) ==
    /\ phase = "settle" /\ d \in todo
    /\ todo' = todo \ {d}
    /\ IF HasRow(d)
       THEN SetPreviewResult(d, IF row[d].preview = "pending" THEN PreviewPlan(row[d].type, FALSE)
                                                              ELSE row[d].preview, "none", {})
       ELSE UNCHANGED row
    /\ UNCHANGED <<stage, bucket, pool, conf, phase, pass>>

StartDone ==
    /\ phase \in {"requeue", "settle"} /\ todo = {} /\ phase' = "up"
    /\ UNCHANGED <<row, stage, bucket, pool, conf, todo, pass>>

\* The process ends, in whatever it was doing; a restart reads the rows anew.
Stop ==
    /\ phase # "down" /\ phase' = "down"
    /\ stage' = [d \in Docs |-> CASE stage[d] = "sent" -> "gone"
                                  [] stage[d] = "committed" -> "kept"
                                  [] OTHER -> stage[d]]
    /\ queue' = <<>> /\ inFlight' = {} /\ job' = [w \in Workers |-> Idle]
    /\ deferred' = {} /\ todo' = {} /\ pass' = Idle
    /\ UNCHANGED <<row, bucket, conf>>

----------------------------------------------------------------------------
\* The daily pass: the bucket is listed, then the rows are read, and what no
\* row claimed is removed if it was old.

SafeToDelete(orphans, ours, claimed, claimedPresent) ==
    /\ claimed > 0
    /\ \/ orphans <= Floor /\ orphans <= claimedPresent
       \/ orphans * ShareLimit <= ours

ListObjects ==
    /\ phase # "down" /\ pass = Idle
    /\ pass' = [at |-> "listed", present |-> objects, aged |-> old]
    /\ UNCHANGED <<row, stage, bucket, pool, boot>>

ReadClaims ==
    /\ pass.at = "listed"
    /\ pass' = [at |-> "read", present |-> pass.present, aged |-> pass.aged,
                claimed |-> ExpectedObjects]
    /\ UNCHANGED <<row, stage, bucket, pool, boot>>

\* A slip: uploads under way are not told from what they leave behind.
DeletableAtAnyAge == pass.present \ pass.claimed

\* The listed objects of a pass that no row claimed and that are past the grace.
Deletable == pass.aged \ pass.claimed

Reconcile ==
    /\ pass.at = "read" /\ pass' = Idle
    /\ \/ /\ SafeToDelete(Cardinality(Deletable), Cardinality(pass.present),
                          Cardinality(pass.claimed),
                          Cardinality(pass.present \cap pass.claimed))
          /\ Remove(Deletable)
       \/ UNCHANGED bucket                       \* refused, or the delete fails
    /\ UNCHANGED <<row, stage, pool, boot>>

\* The grace is far longer than a request, a job or a pass.
Age == /\ pass = Idle /\ \A d \in Docs : stage[d] # "sent"
       /\ \A w \in Workers : job[w].at \notin {"rastering", "finishing"}
       /\ old # objects /\ old' = objects
       /\ UNCHANGED <<row, stage, objects, pool, boot, pass>>

----------------------------------------------------------------------------

VaultNext ==
    \/ \E d \in Docs :
          \/ UploadPut(d) \/ UploadRefused(d) \/ UploadEnqueue(d) \/ DeleteDocument(d)
          \/ \E type \in Types : UploadInsert(d, type)
          \/ BackfillSettled(d) \/ RequeuePending(d) \/ SettlePending(d)
    \/ \E w \in Workers :
          \/ Take(w) \/ Transient(w) \/ DeriveOfficePreview(w) \/ EncodeAndStoreThumb(w)
          \/ SettlePanicked(w) \/ Finish(w) \/ Leave(w)
    \/ \E enabled, converter \in BOOLEAN : Start(enabled, converter)
    \/ ListPending \/ StartDone \/ Stop
    \/ ListObjects \/ ReadClaims \/ Reconcile \/ Age

VaultSpec == VaultInit /\ [][VaultNext]_vaultVars

----------------------------------------------------------------------------

VaultTypeOK ==
    /\ row \in [Docs -> Rows \cup {NoDocument}]
    /\ stage \in [Docs -> {"new", "sent", "committed", "kept", "gone"}]
    /\ objects \subseteq Docs \X ({"original"} \cup Derived) /\ old \subseteq objects
    /\ Len(queue) <= QueueSize /\ inFlight \subseteq Docs /\ deferred \subseteq Docs
    /\ phase \in {"down", "backfill", "requeue", "settle", "up"}

\* Whatever fails, crashes or is swept meanwhile, a document that has a row has
\* the bytes it was uploaded with: they are stored before the row and removed
\* after it, and a pass that lists them before the row is written spares them.
OriginalsStay == \A d \in Docs : HasRow(d) => <<d, "original">> \in objects

\* Once start-up is over, a preview or thumbnail that is pending is queued, in
\* a worker's hands, or was put off to the next boot for a reason of its own:
\* no restart, full queue or finished job strands it.
PendingIsWorkedOn ==
    phase = "up" /\ conf.enabled =>
        \A d \in {x \in Docs : HasRow(x) /\ (row[x].preview = "pending" \/ row[x].thumb = "pending")} :
            \/ stage[d] = "committed" \/ d \in deferred
            \/ \E i \in DOMAIN queue : queue[i] = d
            \/ \E w \in Workers : job[w] # Idle /\ job[w].doc = d

\* A converted preview that can be opened is not written off while its document
\* stays.
PreviewServed(d) == row[d].preview = "ready" /\ "preview" \in row[d].keys
AReadyPreviewStays ==
    [][\A d \in Docs : HasRow(d) /\ PreviewServed(d) => (HasRow(d) => PreviewServed(d))']_vaultVars
=============================================================================

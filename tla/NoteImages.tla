----------------------------- MODULE NoteImages -----------------------------
(* The images of the notes: uploads, the collection that follows every save  *)
(* of a body, hard deletes, and the daily pass (modules/notes/images.go,     *)
(* service.go gcNoteImages and DeleteNote, mirror.go).  A body is the set of *)
(* images it embeds; the same image may be embedded by several notes.        *)
EXTENDS Integers, FiniteSets

CONSTANTS Notes, Images, None,
          ImageFloor, ImageShareLimit,  \* how much a daily pass may remove
          MaxSaves                      \* collections under way at a time

VARIABLES body,      \* what each note embeds; None: the note is gone
          owner,     \* note_images.note_id; None: there is no row
          uploading, \* the note an upload under way is for
          used,      \* image ids given out
          bytes,     \* image objects in the bucket
          settled, aged, \* rows and objects older than the GC grace, the orphan grace
          unrefSince,    \* the undo-window clocks: off, running, over
          saves,         \* collections due, each after a save that committed
          sweep          \* the daily pass under way

store == <<body, owner>>
uploads == <<uploading, used, bytes>>
time == <<settled, aged, unrefSince>>
imageVars == <<store, uploads, time, saves, sweep>>

NoPass == [at |-> "idle"]
Here(n) == body[n] # None
Bodies(except) == {n \in Notes \ except : Here(n)}
ImageRows == {i \in Images : owner[i] # None}
NoteImagesFor(n) == {i \in Images : owner[i] = n}
NotesReferencingAnyImage(i, except) == {n \in Bodies(except) : i \in body[n]}
OtherNotesImageRefs(n) == UNION {body[m] : m \in Bodies({n})}

ImageInit ==
    /\ body = [n \in Notes |-> {}] /\ owner = [i \in Images |-> None]
    /\ uploading = [i \in Images |-> None] /\ used = {} /\ bytes = {}
    /\ settled = {} /\ aged = {} /\ unrefSince = [i \in Images |-> "off"]
    /\ saves = {} /\ sweep = NoPass

DeleteNoteImages(gone) == owner' = [i \in Images |-> IF i \in gone THEN None ELSE owner[i]]

\* Objects go after the rows, if the store lets them.
PurgeImageObjects(gone) == bytes' = bytes \ gone \/ bytes' = bytes

----------------------------------------------------------------------------

\* The note is read, then the object is stored; the row comes after.
UploadImage(n, i) ==
    /\ i \notin used /\ Here(n)
    /\ used' = used \cup {i} /\ bytes' = bytes \cup {i}
    /\ uploading' = [uploading EXCEPT ![i] = n]
    /\ UNCHANGED <<store, time, saves, sweep>>

InsertNoteImage(i) ==
    /\ uploading[i] # None
    /\ uploading' = [uploading EXCEPT ![i] = None]
    /\ \/ Here(uploading[i]) /\ owner' = [owner EXCEPT ![i] = uploading[i]] /\ UNCHANGED bytes
       \/ UNCHANGED owner /\ PurgeImageObjects({i})
    /\ UNCHANGED <<body, used, time, saves, sweep>>

\* A save of a body commits; its collection follows in the same request.
SaveBody(n, new) ==
    /\ Here(n) /\ new # body[n] /\ Cardinality(saves) < MaxSaves
    /\ body' = [body EXCEPT ![n] = new]
    /\ saves' = saves \cup {[note |-> n, before |-> body[n], after |-> new]}
    /\ UNCHANGED <<owner, uploads, time, sweep>>

\* A slip: it goes by the body of its own save.
OwnBody(save) == save.after

\* The body the collection goes by is read again in its transaction.
CurrentBody(save) == IF Here(save.note) THEN body[save.note] ELSE save.after

\* Images this note owns and no longer embeds, past the grace of an upload, and
\* references the save dropped, unless another note embeds them.
Candidates(save) ==
    LET now == CurrentBody(save)
        owned == NoteImagesFor(save.note) \ now
    IN ((owned \cap settled) \cup ((save.before \ now) \ owned)) \ OtherNotesImageRefs(save.note)

GcNoteImages(save) ==
    LET now == CurrentBody(save)
        clock == [i \in Images |->
                     CASE i \in now -> "off"
                       [] i \in Candidates(save) /\ i \in save.before /\ unrefSince[i] = "off" -> "running"
                       [] OTHER -> unrefSince[i]]
        due == {i \in Candidates(save) : clock[i] # "running"}
    IN /\ save \in saves /\ saves' = saves \ {save}
       /\ unrefSince' = [i \in Images |-> IF i \in due THEN "off" ELSE clock[i]]
       /\ DeleteNoteImages(due) /\ PurgeImageObjects(due)
       /\ UNCHANGED <<body, uploading, used, settled, aged, sweep>>

\* An admin's hard delete of one note: its images that other notes embed pass
\* to one of those notes, the others go, and so do the images of others that
\* only this note still embedded.
DeleteNote(n) ==
    LET owned == NoteImagesFor(n)
        kept == OtherNotesImageRefs(n)
        purge == (owned \cup body[n]) \ kept
    IN /\ Here(n)
       /\ \E heir \in [Images -> Notes] :
             /\ \A i \in owned \cap kept : heir[i] \in NotesReferencingAnyImage(i, {n})
             /\ owner' = [i \in Images |-> CASE i \in purge -> None
                                             [] i \in owned \cap kept -> heir[i]
                                             [] OTHER -> owner[i]]
       /\ body' = [body EXCEPT ![n] = None]
       /\ PurgeImageObjects(purge)
       /\ UNCHANGED <<uploading, used, time, saves, sweep>>

\* An admin's hard delete of a folder takes its notes and, by the foreign key,
\* the rows of every image they own.
DeleteNotesFolder(notes) ==
    /\ notes # {} /\ \A n \in notes : Here(n)
    /\ body' = [n \in Notes |-> IF n \in notes THEN None ELSE body[n]]
    /\ DeleteNoteImages({i \in ImageRows : owner[i] \in notes})
    /\ UNCHANGED <<uploads, time, saves, sweep>>

----------------------------------------------------------------------------
\* The daily pass

ExpectedImageObjects ==
    /\ sweep = NoPass
    /\ sweep' = [at |-> "read", expected |-> ImageRows, ids |-> {}]
    /\ UNCHANGED <<store, uploads, time, saves>>

UnreferencedImageIDs == {i \in ImageRows \cap aged : NotesReferencingAnyImage(i, {}) = {}}

ScanUnreferenced ==
    LET ids == UnreferencedImageIDs
        total == Cardinality(sweep.expected)
        allowed == /\ total > 0 /\ Bodies({}) # {}
                   /\ \/ Cardinality(ids) <= ImageFloor
                      \/ Cardinality(ids) * ImageShareLimit <= total
    IN /\ sweep.at = "read"
       /\ sweep' = [sweep EXCEPT !.at = "scanned", !.ids = IF allowed THEN ids ELSE {}]
       /\ UNCHANGED <<store, uploads, time, saves>>

\* The rows found go in a statement of their own.
SweepUnreferencedRows ==
    /\ sweep.at = "scanned"
    /\ DeleteNoteImages(sweep.ids) /\ PurgeImageObjects(sweep.ids)
    /\ sweep' = [sweep EXCEPT !.at = "swept", !.expected = @ \ sweep.ids]
    /\ UNCHANGED <<body, uploading, used, time, saves>>

\* The bucket is listed after the rows were read, and what no row claimed is
\* removed once it is old.
ReconcileImages ==
    LET deletable == (bytes \cap aged) \ sweep.expected
        present == bytes \cap sweep.expected
    IN /\ sweep.at = "swept" /\ sweep' = NoPass
       /\ \/ /\ sweep.expected # {}
             /\ \/ /\ Cardinality(deletable) <= ImageFloor
                   /\ Cardinality(deletable) <= Cardinality(present)
                \/ Cardinality(deletable) * ImageShareLimit <= Cardinality(bytes)
             /\ bytes' = bytes \ deletable
          \/ UNCHANGED bytes
       /\ UNCHANGED <<store, uploading, used, time, saves>>

----------------------------------------------------------------------------

\* The graces are far longer than a request; the longer one than a pass.
Elapse(long) ==
    /\ \A i \in Images : uploading[i] = None
    /\ saves = {} /\ (long => sweep = NoPass)
    /\ settled' = used /\ aged' = IF long THEN used ELSE aged
    /\ unrefSince' = [i \in Images |-> IF unrefSince[i] = "off" THEN "off" ELSE "over"]
    /\ <<settled, aged, unrefSince>> # <<settled', aged', unrefSince'>>
    /\ UNCHANGED <<store, uploads, saves, sweep>>

\* The clocks, the requests and the pass are in memory only.
Restart ==
    /\ uploading' = [i \in Images |-> None]
    /\ unrefSince' = [i \in Images |-> "off"]
    /\ saves' = {} /\ sweep' = NoPass
    /\ UNCHANGED <<store, used, bytes, settled, aged>>

ImageNext ==
    \/ \E n \in Notes, i \in Images :
          \/ UploadImage(n, i)
          \/ i \in ImageRows /\ Here(n) /\ (SaveBody(n, body[n] \cup {i}) \/ SaveBody(n, body[n] \ {i}))
    \/ \E i \in Images : InsertNoteImage(i)
    \/ \E save \in saves : GcNoteImages(save)
    \/ \E n \in Notes : DeleteNote(n)
    \/ \E notes \in SUBSET Notes : DeleteNotesFolder(notes)
    \/ ExpectedImageObjects \/ ScanUnreferenced \/ SweepUnreferencedRows \/ ReconcileImages
    \/ \E long \in BOOLEAN : Elapse(long)
    \/ Restart

ImageSpec == ImageInit /\ [][ImageNext]_imageVars

----------------------------------------------------------------------------

Embedded(i) == NotesReferencingAnyImage(i, {}) # {}

\* A row never outlives its bytes: whatever is purged, collected or swept, the
\* rows go first, and an object whose row is still to come is spared.
RowsHaveBytes == \A i \in ImageRows : i \in bytes

\* A collection goes by what the notes embed now, however its save is
\* overtaken by other saves, and a deleted note hands its images on: an image
\* some note still embeds loses its row only with its owner's whole folder, or
\* between the daily pass's scan and its delete.
GcSparesEmbedded ==
    [][\A i \in ImageRows : Embedded(i)' /\ owner'[i] = None =>
          (\E notes \in SUBSET Notes : DeleteNotesFolder(notes)) \/ SweepUnreferencedRows]_imageVars

\* An image some note embeds and that had a row keeps it.
EmbeddedStays == [][\A i \in ImageRows : Embedded(i)' => owner'[i] # None]_imageVars
=============================================================================

----------------------------- MODULE MCRecords -----------------------------
(***************************************************************************)
(* Instances for TLC of the modules that keep records and their bytes.     *)
(* The scenes share no state; a behaviour moves the variables of one.  x1  *)
(* and x2 are the two interchangeable things of each scene: folders,       *)
(* documents, images, callers.                                             *)
(***************************************************************************)
EXTENDS DocumentTree, DocumentVault, NoteImages, TLC

CONSTANTS x1, x2, n1, n2, w1,
          Scenes   \* the scenes a run plays

VARIABLES scene,
          clock, room, msg, att, stored, promised, call, drain, copies, docs,
          crashes, late, robbed, lost

chatVars  == <<clock, room, msg, att, stored, promised, call, drain, copies, docs,
               crashes, late, robbed, lost>>
recordVars == <<vars, vaultVars, imageVars, chatVars>>

OneTitle == {<<0>>}
OneReserved == <<0>>

NotesTree == INSTANCE NoteTree
ChatFiles == INSTANCE ChatBlobs WITH
               Room <- {"room"}, Message <- {"msg"}, Att <- {"file"}, Caller <- {x1, x2},
               In <- [m \in {"msg"} |-> "room"], On <- [a \in {"file"} |-> "msg"],
               Image <- {"file"}, Window <- 1, Batch <- 2,
               Kinds <- {"upload", "remove", "move"}, MaxClock <- 1, MaxCopies <- 2, MaxCrash <- 1,
               objects <- stored, queue <- promised, job <- drain

RecordsInit ==
  /\ scene \in Scenes
  /\ Init /\ VaultInit /\ ImageInit /\ ChatFiles!Init
RecordsNext ==
  /\ UNCHANGED scene
  /\ \/ scene = "documents" /\ UNCHANGED <<vaultVars, imageVars, chatVars>> /\ Next
     \/ scene = "notes" /\ UNCHANGED <<accepting, slipped, vaultVars, imageVars, chatVars>>
                        /\ NotesTree!Next
     \/ scene = "vault" /\ UNCHANGED <<vars, imageVars, chatVars>> /\ VaultNext
     \/ scene = "images" /\ UNCHANGED <<vars, vaultVars, chatVars>> /\ ImageNext
     \/ scene = "chat" /\ UNCHANGED <<vars, vaultVars, imageVars>> /\ ChatFiles!Next
RecordsSpec == RecordsInit /\ [][RecordsNext]_<<scene, recordVars>>

\* What is left out of a state: the variables of the other scenes, and who took
\* the last step in a tree, which is read by the properties of a step only.
RecordsView ==
  CASE scene \in {"documents", "notes"} ->
         <<scene, items, household, personal, pinning, accepting, slipped>>
    [] scene = "vault" -> vaultVars
    [] scene = "images" -> imageVars
    [] scene = "chat" -> chatVars

(***************************************************************************)
(* Bounds.  In a tree, pins with one folder, or hand-overs without pins.   *)
(* In the vault, one of two documents while the daily pass is under way or *)
(* has anything to remove.  In the images, one image while a pass is under *)
(* way.                                                                    *)
(***************************************************************************)
OneThing ==
  CASE scene \in {"documents", "notes"} ->
         \/ household = {} /\ personal = {} /\ pinning = {}
         \/ slipped = {} /\ accepting = {} /\ \E f \in Folders : items[f].state = "new"
    [] scene = "vault" ->
         \/ pass = Idle /\ old = {}
         \/ phase # "down" /\ ~conf.enabled
         \/ \E d \in {x1, x2} : stage[d] = "new"
    [] scene = "images" -> sweep # NoPass => \E i \in {x1, x2} : i \notin used
    [] scene = "chat" -> crashes = 0 \/ \E c \in {x1, x2} : call[c] = ChatFiles!Idle
    [] OTHER -> TRUE

Alike == Permutations({x1, x2})

-----------------------------------------------------------------------------

\* Whatever fails, crashes or is swept meanwhile, what has a row has its bytes:
\* a document its original, an image of a note its object, a file of a chat message
\* its bytes and its thumbnail; and an object of the chat has its row, a promise to
\* delete it or a request that minds it (NoSilentOrphan).
BytesStay ==
  CASE scene = "vault" -> OriginalsStay
    [] scene = "images" -> RowsHaveBytes
    [] scene = "chat" -> ChatFiles!NothingIsLost /\ ChatFiles!NoSilentOrphan
    [] OTHER -> TRUE
=============================================================================

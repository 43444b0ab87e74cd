----------------------------- MODULE ChatThread -----------------------------
(***************************************************************************)
(* A conversation of the chat (backend/internal/modules/chat) and the tabs *)
(* that follow it (frontend/src/modules/chat/api/hooks.ts): who is in it   *)
(* and from which message on, the messages with their edits, tombstones    *)
(* and reactions, the frames a change publishes after its commit, and the  *)
(* page of the thread a tab holds, patched by frames and answers and       *)
(* fetched again when a gap shows.                                         *)
(*                                                                         *)
(* Text is a version number, the palette one emoji, and every member has   *)
(* one tab.  Attachments are ChatBlobs'.                                   *)
(***************************************************************************)
EXTENDS Integers, Sequences, FiniteSets, FiniteSetsExt

CONSTANTS
  Members,
  Watchers,     \* of the members, who have a tab
  Admins,       \* of the members, who may act on a room they are not in
  Calls,        \* requests under way at a time
  None,
  MaxMessages,  \* a bound: messages ever sent
  MaxBody,      \* a bound: versions of a message's text
  MaxInbox,     \* a bound: frames a socket holds
  PageSize,     \* THREAD_PAGE
  PageMax       \* THREAD_MAX

VARIABLES
  room,      \* chat_conversations: its kind and whether it is live
  members,   \* chat_members: [floor, read, joined, marked] or None
  thread,    \* chat_messages in the order of their commits
  calls,     \* a request and what is left of it to do
  inbox,     \* the frames on a member's socket
  tabs,      \* the thread a member's tab caches, or None
  paging     \* the older page a member's tab asked for

chatVars == <<room, members, thread, calls, inbox, tabs, paging>>

----------------------------------------------------------------------------
(* What is kept, and what the proofs take of the constants. *)

Views == [id : Nat, author : Members, body : Nat, deleted : BOOLEAN, reactions : SUBSET Members, quote : BOOLEAN]
Rows == [id : Nat, author : Members, reply : Nat, body : Nat, deleted : BOOLEAN, reactions : SUBSET Members]
Pages == [items : Seq(Views), more : Nat]
TabType == [items : Seq(Views) \cup {None}, more : Nat, fetch : {"asked", "read", "no"}, limit : Nat \ {0},
            page : Pages, seams : SUBSET Nat]
PagingType == [cursor : Nat, read : BOOLEAN, page : Pages]
Memberships == [floor : Nat, read : Nat, joined : Nat, marked : Nat]
Frames == [kind : {"none", "created", "changed", "gone"}, origin : Members, prev : Nat, message : Views \cup {None}]
CallType ==
  [op : {"send", "edit", "delete", "react", "leave"}, actor : Members, target : Nat, on : BOOLEAN, applied : BOOLEAN,
   step : {"asked", "quote", "publish", "answer", "failed"}, floor : Nat, soon : Nat, frame : Frames,
   to : SUBSET [member : Members, joined : Nat]]

ChatConstants ==
  /\ IsFiniteSet(Members) /\ Watchers \subseteq Members
  /\ PageSize \in Nat \ {0} /\ PageMax \in Nat \ {0}
  /\ None \notin Views \cup Seq(Views) \cup TabType \cup PagingType \cup Memberships \cup CallType

----------------------------------------------------------------------------
(* Reading.  joined and marked are places in the thread, kept for the      *)
(* properties only; the code knows ids.                                    *)

Places == 1..Len(thread)
InRoom(m) == room.state = "live" /\ members[m] # None
MemberIDs == {m \in Members : members[m] # None}
\* Slip: everyone in the room, whatever they may read.
MemberIDsAll(id) == MemberIDs
MemberIDsAbove(id) == {m \in MemberIDs : id > members[m].floor}
Newest == Max({thread[k].id : k \in Places} \cup {0})

Above(floor) == {k \in Places : thread[k].id > floor}
MessageByID(floor, id) == \E k \in Above(floor) : thread[k].id = id
PlaceOf(id) == CHOOSE k \in Places : thread[k].id = id

\* Quote: whether a reply's parent is shown; one the reader may not see is only said to
\* be out of reach.
Quote(floor, parent) == parent # 0 /\ MessageByID(floor, parent)
Rendered(floor, row) ==
  [id |-> row.id, author |-> row.author, body |-> row.body, deleted |-> row.deleted,
   reactions |-> row.reactions, quote |-> Quote(floor, row.reply)]

NewestFirst(ids) ==
  CHOOSE s \in [1..Cardinality(ids) -> ids] :
    {s[i] : i \in DOMAIN s} = ids /\ \A i, j \in DOMAIN s : i < j => s[i] > s[j]

\* Thread, backward: the newest below a cursor, and a cursor when there are more.
Page(floor, before, limit) ==
  LET ids == NewestFirst({thread[k].id : k \in {l \in Above(floor) : before = 0 \/ thread[l].id < before}})
      most == IF Len(ids) > limit THEN limit ELSE Len(ids)
  IN [items |-> [i \in 1..most |-> Rendered(floor, thread[PlaceOf(ids[i])])],
      more |-> IF Len(ids) > limit THEN ids[limit] ELSE 0]

UnreadCount(m) ==
  Cardinality({k \in Above(members[m].floor) : /\ ~thread[k].deleted /\ thread[k].author # m
                                               /\ thread[k].id > members[m].read})
\* Search, for a text every message holds.
Search(m) == {k \in Above(members[m].floor) : ~thread[k].deleted}
\* The message a listing previews.
LastMessage(m) == Max({thread[k].id : k \in Above(members[m].floor)} \cup {0})

----------------------------------------------------------------------------
(* The cache of a tab (hooks.ts). *)

Fresh == [items |-> None, more |-> 0, fetch |-> "asked", limit |-> PageSize,
          page |-> [items |-> <<>>, more |-> 0], seams |-> {}]
Items(t) == IF t = None THEN <<>> ELSE IF t.items = None THEN <<>> ELSE t.items
Cached(t) == IF t = None THEN FALSE ELSE t.items # None
Ids(items) == {items[i].id : i \in DOMAIN items}
Shows(t, id) == id \in Ids(Items(t))
NewestInCache(t) == IF Items(t) = <<>> THEN 0 ELSE Items(t)[1].id

\* useMessages: a refetch asks for what the tab holds, from a page to the most allowed.
Invalidated(t) ==
  IF t = None THEN None
  ELSE LET held == Len(Items(t))
           limit == IF held < PageSize THEN PageSize ELSE IF held > PageMax THEN PageMax ELSE held
       IN [t EXCEPT !.fetch = "asked", !.limit = limit, !.page = Fresh.page]
Appended(t, v) ==
  IF ~Cached(t) THEN t ELSE IF Shows(t, v.id) THEN t ELSE [t EXCEPT !.items = <<v>> \o @]
Replaced(t, v) ==
  IF ~Cached(t) THEN t
  ELSE [t EXCEPT !.items = [i \in DOMAIN @ |-> IF @[i].id = v.id THEN v ELSE @[i]]]

CachedIn(items, id) == items[CHOOSE i \in DOMAIN items : items[i].id = id]
CachedMessage(t, id) == CachedIn(Items(t), id)
ApplyReaction(v, m, on) == [v EXCEPT !.reactions = IF on THEN @ \cup {m} ELSE @ \ {m}]

\* Slip: a frame is appended whatever came before it.
IsGapNever(t, m, f) == FALSE
\* A frame of someone else's message whose predecessor is not the newest held.
IsGap(t, m, f) == f.origin # m /\ f.prev # 0 /\ f.prev # NewestInCache(t)
ApplyChatFrame(t, m, f) ==
  CASE f.kind = "gone" -> None
    [] f.kind = "created" -> IF IsGap(t, m, f) THEN Invalidated(t) ELSE Appended(t, f.message)
    [] f.kind = "changed" -> Replaced(t, f.message)

Opens(m) ==
  /\ InRoom(m)
  /\ tabs' = [tabs EXCEPT ![m] = IF @ = None THEN Fresh ELSE Invalidated(@)]
  /\ UNCHANGED <<room, members, thread, calls, inbox, paging>>
Asking(m) == IF tabs[m] = None THEN FALSE ELSE tabs[m].fetch = "asked"
FetchIsRead(m) ==
  /\ Asking(m)
  /\ tabs' = [tabs EXCEPT ![m] = IF InRoom(m) THEN [@ EXCEPT !.fetch = "read", !.page = Page(members[m].floor, 0, tabs[m].limit)]
                                 ELSE [@ EXCEPT !.fetch = "no"]]
  /\ UNCHANGED <<room, members, thread, calls, inbox, paging>>
FetchLands(m) ==
  /\ IF tabs[m] = None THEN FALSE ELSE tabs[m].fetch = "read"
  /\ tabs' = [tabs EXCEPT ![m] = [@ EXCEPT !.items = tabs[m].page.items, !.more = tabs[m].page.more, !.fetch = "no",
                                           !.page = Fresh.page, !.seams = {}]]
  /\ UNCHANGED <<room, members, thread, calls, inbox, paging>>

\* useLoadOlderMessages: one page below the cursor, joined to whatever is held when it comes.
AsksOlder(m) ==
  /\ Cached(tabs[m]) /\ paging[m] = None /\ tabs[m].more # 0
  /\ paging' = [paging EXCEPT ![m] = [cursor |-> tabs[m].more, read |-> FALSE, page |-> Fresh.page]]
  /\ UNCHANGED <<room, members, thread, calls, inbox, tabs>>
NotShown(t, page) ==
  LET ids == NewestFirst(Ids(page.items) \ Ids(t.items)) IN [i \in DOMAIN ids |-> CachedIn(page.items, ids[i])]
Joined(t, page) ==
  LET older == NotShown(t, page)
  IN [t EXCEPT !.items = @ \o older, !.more = page.more,
               !.seams = IF older = <<>> THEN @ ELSE @ \cup {older[1].id}]
OlderIsRead(m) ==
  /\ IF paging[m] = None THEN FALSE ELSE ~paging[m].read
  /\ paging' = [paging EXCEPT ![m] =
       IF InRoom(m) THEN [@ EXCEPT !.read = TRUE, !.page = Page(members[m].floor, paging[m].cursor, PageSize)] ELSE None]
  /\ UNCHANGED <<room, members, thread, calls, inbox, tabs>>
OlderLands(m) ==
  /\ IF paging[m] = None THEN FALSE ELSE paging[m].read
  /\ tabs' = [tabs EXCEPT ![m] = IF Cached(@) THEN Joined(@, paging[m].page) ELSE @]
  /\ paging' = [paging EXCEPT ![m] = None]
  /\ UNCHANGED <<room, members, thread, calls, inbox>>

\* A frame comes in, or the hub had dropped it.
Receives(m) ==
  /\ inbox[m] # <<>>
  /\ tabs' = [tabs EXCEPT ![m] = IF @ = None THEN None ELSE ApplyChatFrame(@, m, Head(inbox[m]))]
  /\ inbox' = [inbox EXCEPT ![m] = Tail(@)]
  /\ UNCHANGED <<room, members, thread, calls, paging>>

----------------------------------------------------------------------------
(* Writing: a request, its transaction, the frame after it, the answer.    *)

\* An id between those minted up to now and the next.
Soon == 2 * Len(thread) + 1
\* Slip: the id is minted when the request comes in.
MintedBefore(c) == calls[c].soon
\* The id, minted inside the transaction.
Minted(c) == 2 * (Len(thread) + 1)

Request(op, m, target, on) ==
  [op |-> op, actor |-> m, target |-> target, on |-> on, applied |-> FALSE, step |-> "asked",
   floor |-> 0, soon |-> IF op = "send" THEN Soon ELSE 0,
   frame |-> [kind |-> "none", origin |-> m, prev |-> 0, message |-> None], to |-> {}]
Starts(c, request) == calls[c] = None /\ calls' = [calls EXCEPT ![c] = request]

AsksToSend(c, m, reply) ==
  /\ Starts(c, Request("send", m, reply, TRUE))
  /\ UNCHANGED <<room, members, thread, inbox, tabs, paging>>
AsksToChange(c, op, m, id) ==
  /\ op \in {"edit", "delete"} /\ Starts(c, Request(op, m, id, TRUE))
  /\ UNCHANGED <<room, members, thread, inbox, tabs, paging>>
\* useSetReaction shows the mark at once, if the tab does not show it already.
AsksToReact(c, m, id, on) ==
  LET shown == IF Shows(tabs[m], id) THEN (m \in CachedMessage(tabs[m], id).reactions) # on ELSE FALSE
  IN /\ Starts(c, [Request("react", m, id, on) EXCEPT !.applied = shown])
     /\ tabs' = [tabs EXCEPT ![m] =
          IF shown THEN Replaced(@, ApplyReaction(CachedMessage(@, id), m, on)) ELSE @]
     /\ UNCHANGED <<room, members, thread, inbox, paging>>

Commits(c, frame, to, step) ==
  calls' = [calls EXCEPT ![c] = [@ EXCEPT !.step = step, !.frame = frame, !.to = to,
                                          !.floor = members[calls[c].actor].floor]]
\* The audience, each with the place the membership began at.
Since(audience) == {[member |-> m, joined |-> members[m].joined] : m \in audience}
Refused(c) ==
  /\ calls' = [calls EXCEPT ![c] = [@ EXCEPT !.step = "failed"]]
  /\ UNCHANGED <<room, members, thread, inbox, tabs, paging>>
At(c, op, step) == IF calls[c] = None THEN FALSE ELSE calls[c].op = op /\ calls[c].step = step

SendMessage(c) ==
  /\ At(c, "send", "asked")
  /\ LET m == calls[c].actor
         reply == calls[c].target
         row == [id |-> Minted(c), author |-> m, reply |-> reply, body |-> 1, deleted |-> FALSE, reactions |-> {}]
         sent == [id |-> row.id, author |-> m, body |-> 1, deleted |-> FALSE, reactions |-> {}, quote |-> FALSE]
     IN IF ~InRoom(m) THEN Refused(c)
        ELSE IF reply # 0 /\ ~MessageByID(members[m].floor, reply) THEN Refused(c)
        ELSE /\ thread' = Append(thread, row)
             /\ Commits(c, [kind |-> "created", origin |-> m, prev |-> Newest, message |-> sent],
                        Since(MemberIDs), IF reply = 0 THEN "publish" ELSE "quote")
             /\ UNCHANGED <<room, members, inbox, tabs, paging>>
\* The quote of a reply is read after the commit, as its author could then.
QuoteIsRead(c) ==
  /\ At(c, "send", "quote")
  /\ calls' = [calls EXCEPT ![c] = [@ EXCEPT !.step = "publish",
                                             !.frame.message.quote = Quote(calls[c].floor, calls[c].target)]]
  /\ UNCHANGED <<room, members, thread, inbox, tabs, paging>>

\* What a change to a message commits: the row, and the frame with the row as the one
\* who changed it reads it.
Changes(c, row, shown) ==
  LET m == calls[c].actor
      k == PlaceOf(calls[c].target)
  IN /\ thread' = [thread EXCEPT ![k] = row]
     /\ Commits(c, [kind |-> "changed", origin |-> m, prev |-> 0, message |-> Rendered(members[m].floor, shown)],
                Since(MemberIDsAbove(row.id)), "publish")
     /\ UNCHANGED <<room, members, inbox, tabs, paging>>
ScopeForMessage(m, id) == InRoom(m) /\ MessageByID(members[m].floor, id)
Own(m, id) == thread[PlaceOf(id)].author = m /\ ~thread[PlaceOf(id)].deleted

\* Within the bound on versions.
EditMessage(c) ==
  /\ At(c, "edit", "asked")
  /\ LET m == calls[c].actor  id == calls[c].target
     IN IF ~ScopeForMessage(m, id) THEN Refused(c)
        ELSE IF ~Own(m, id) THEN Refused(c)
        ELSE /\ thread[PlaceOf(id)].body < MaxBody
             /\ LET row == [thread[PlaceOf(id)] EXCEPT !.body = @ + 1] IN Changes(c, row, row)
DeleteMessage(c) ==
  /\ At(c, "delete", "asked")
  /\ LET m == calls[c].actor  id == calls[c].target
     IN IF ~ScopeForMessage(m, id) THEN Refused(c)
        ELSE IF ~Own(m, id) THEN Refused(c)
        ELSE LET row == [thread[PlaceOf(id)] EXCEPT !.body = 0, !.deleted = TRUE, !.reactions = {}]
             IN Changes(c, row, [row EXCEPT !.reply = 0])
SetReaction(c) ==
  /\ At(c, "react", "asked")
  /\ LET m == calls[c].actor  id == calls[c].target
     IN IF ~ScopeForMessage(m, id) THEN Refused(c)
        ELSE IF thread[PlaceOf(id)].deleted THEN Refused(c)
        ELSE LET row == [thread[PlaceOf(id)] EXCEPT !.reactions = IF calls[c].on THEN @ \cup {m} ELSE @ \ {m}]
             IN Changes(c, row, row)

\* notifyTo: the frame goes to the sockets of the audience, or is dropped at a full one.
Publishes(c, reached) ==
  /\ IF calls[c] = None THEN FALSE ELSE calls[c].step = "publish"
  /\ LET call == calls[c]
     IN /\ reached \subseteq {to.member : to \in call.to}
        /\ \A m \in reached : Len(inbox[m]) < MaxInbox
        /\ inbox' = [m \in Members |-> IF m \in reached THEN Append(inbox[m], call.frame) ELSE inbox[m]]
        /\ calls' = [calls EXCEPT ![c] = IF call.op = "leave" THEN None ELSE [@ EXCEPT !.step = "answer"]]
  /\ UNCHANGED <<room, members, thread, tabs, paging>>

\* The answer reaches the tab that asked.
AnswerLands(c) ==
  /\ IF calls[c] = None THEN FALSE ELSE calls[c].step \in {"answer", "failed"}
  /\ LET call == calls[c]  m == call.actor
     IN tabs' = [tabs EXCEPT ![m] =
          CASE call.step = "failed" ->
                 IF call.applied /\ Shows(@, call.target)
                 THEN Replaced(@, ApplyReaction(CachedMessage(@, call.target), m, ~call.on)) ELSE @
            [] call.step = "answer" /\ call.op = "send" -> Appended(@, call.frame.message)
            [] call.step = "answer" /\ call.op \in {"edit", "react"} -> Replaced(@, call.frame.message)
            [] call.step = "answer" /\ call.op = "delete" -> Invalidated(@)]
  /\ calls' = [calls EXCEPT ![c] = None]
  /\ UNCHANGED <<room, members, thread, inbox, paging>>

\* AdvanceRead, to any message the member may read.
AdvanceRead(m, id) ==
  /\ ScopeForMessage(m, id)
  /\ members' = [members EXCEPT ![m].read = IF id > @ THEN id ELSE @,
                                 ![m].marked = IF PlaceOf(id) > @ THEN PlaceOf(id) ELSE @]
  /\ UNCHANGED <<room, thread, calls, inbox, tabs, paging>>

----------------------------------------------------------------------------
(* The room and who is in it. *)

FromTheBeginning == [floor |-> 0, read |-> 0, joined |-> 0, marked |-> 0]
FloorNow == [floor |-> Newest, read |-> 0, joined |-> Len(thread), marked |-> 0]

CreateConversation(m, others) ==
  /\ room.state = "none"
  /\ room' = [kind |-> "group", state |-> "live"]
  /\ members' = [u \in Members |-> IF u \in others \cup {m} THEN FromTheBeginning ELSE None]
  /\ UNCHANGED <<thread, calls, inbox, tabs, paging>>
\* On any request of someone not yet in the room everybody is in.
EnsureDefaultMembership(m) ==
  /\ room.kind = "default" /\ members[m] = None
  /\ members' = [members EXCEPT ![m] = FromTheBeginning]
  /\ UNCHANGED <<room, thread, calls, inbox, tabs, paging>>
AddMember(m, u) ==
  /\ InRoom(m) /\ room.kind = "group" /\ members[u] = None
  /\ members' = [members EXCEPT ![u] = FloorNow]
  /\ UNCHANGED <<room, thread, calls, inbox, tabs, paging>>
\* The one who went is told after the commit.
Gone(c, m, who) ==
  Starts(c, [Request("leave", m, 0, TRUE) EXCEPT
               !.step = "publish", !.to = Since(who),
               !.frame = [kind |-> "gone", origin |-> m, prev |-> 0, message |-> None]])
RemoveMember(c, m, u) ==
  /\ InRoom(m) /\ room.kind = "group" /\ members[u] # None
  /\ m = u => Cardinality(MemberIDs) > 1
  /\ members' = [members EXCEPT ![u] = None] /\ Gone(c, m, {u})
  /\ UNCHANGED <<room, thread, inbox, tabs, paging>>

\* conversationForDestructiveVerb: a member's right reaches into the trash.
MayDestroy(m, admins) == members[m] # None \/ (admins /\ m \in Admins)
DeleteConversation(c, m, hard) ==
  /\ room.state \in {"live", "trash"} /\ MayDestroy(m, hard)
  /\ room.kind = "group" /\ (room.state = "trash" => hard)
  /\ room' = [room EXCEPT !.state = IF hard THEN "gone" ELSE "trash"]
  /\ IF hard THEN members' = [u \in Members |-> None] /\ thread' = <<>> ELSE UNCHANGED <<members, thread>>
  /\ Gone(c, m, MemberIDs)
  /\ UNCHANGED <<inbox, tabs, paging>>
RestoreConversation(m) ==
  /\ room.state = "trash" /\ MayDestroy(m, TRUE)
  /\ room' = [room EXCEPT !.state = "live"]
  /\ UNCHANGED <<members, thread, calls, inbox, tabs, paging>>

ChatInit ==
  /\ room \in {[kind |-> "default", state |-> "live"], [kind |-> "group", state |-> "none"]}
  /\ members = [m \in Members |-> None] /\ thread = <<>>
  /\ calls = [c \in Calls |-> None] /\ inbox = [m \in Members |-> <<>>]
  /\ tabs = [m \in Members |-> None] /\ paging = [m \in Members |-> None]

\* What a member may point at: what the tab shows, or without one anything.
Offered(m) ==
  IF m \in Watchers THEN Ids(Items(tabs[m])) ELSE {thread[k].id : k \in Places}
Sends == {c \in Calls : At(c, "send", "asked")}
Tabs(m) ==
  Opens(m) \/ FetchIsRead(m) \/ FetchLands(m) \/ AsksOlder(m) \/ OlderIsRead(m) \/ OlderLands(m) \/ Receives(m)
Requests(c, m) ==
  \/ /\ InRoom(m) /\ Len(thread) + Cardinality(Sends) < MaxMessages
     /\ \E reply \in {0} \cup Offered(m) : AsksToSend(c, m, reply)
  \/ \E id \in Offered(m), op \in {"edit", "delete"} : AsksToChange(c, op, m, id)
  \/ \E id \in Offered(m), on \in BOOLEAN : AsksToReact(c, m, id, on)
Handles(c) ==
  \/ SendMessage(c) \/ QuoteIsRead(c) \/ EditMessage(c) \/ DeleteMessage(c) \/ SetReaction(c) \/ AnswerLands(c)
  \/ \E reached \in SUBSET Watchers : Publishes(c, reached)
Room(m) ==
  \/ EnsureDefaultMembership(m) \/ RestoreConversation(m)
  \/ \E others \in SUBSET Members : CreateConversation(m, others)
  \/ \E u \in Members : AddMember(m, u)
  \/ \E c \in Calls, u \in Members : RemoveMember(c, m, u)
  \/ \E c \in Calls, hard \in BOOLEAN : DeleteConversation(c, m, hard)
ChatNext ==
  \/ \E m \in Watchers : Tabs(m)
  \/ \E m \in Members : Room(m) \/ \E id \in Offered(m) : AdvanceRead(m, id)
  \/ \E c \in Calls : Handles(c) \/ \E m \in Members : Requests(c, m)

ChatSpec == ChatInit /\ [][ChatNext]_chatVars

----------------------------------------------------------------------------
(* Properties. *)

\* Whoever joins a room sees what is sent after they joined, and only that, however
\* they read it: the thread, the search, the preview and the count of what is unread
\* agree with the order of the commits (messages.go, floor.go, service_messages.go:215).
SeesWhatFollows ==
  \A m \in MemberIDs :
    LET since == {k \in Places : k > members[m].joined}
    IN /\ Above(members[m].floor) = since
       /\ Search(m) = {k \in since : ~thread[k].deleted}
       /\ LastMessage(m) = IF since = {} THEN 0 ELSE thread[Max(since)].id
       /\ UnreadCount(m) = Cardinality({k \in since : /\ k > members[m].marked /\ ~thread[k].deleted
                                                     /\ thread[k].author # m})

\* A frame with a message goes to those only who may read it, as members the moment its
\* change was committed (service_messages.go:378).
FramesKeepTheFloor ==
  \A c \in Calls : IF calls[c] = None THEN TRUE ELSE
    calls[c].step = "publish" /\ calls[c].op # "leave" /\ thread # <<>> =>
      \A to \in calls[c].to : PlaceOf(calls[c].frame.message.id) > to.joined

\* Between two messages a tab shows next to each other none is missing that its member
\* may read (shown in another place, it is not), whatever frames were lost, unless the
\* upper is the tab's own, which is never checked, or the lower came with an older page
\* (hooks.ts:586).
NoHiddenGap ==
  \A m \in MemberIDs : LET items == Items(tabs[m]) IN
    \A i \in 1..(Len(items) - 1) :
      \/ items[i].author = m \/ items[i + 1].id \in tabs[m].seams
      \/ \A k \in Above(members[m].floor) :
           items[i + 1].id < thread[k].id /\ thread[k].id < items[i].id => Shows(tabs[m], thread[k].id)

\* A room of its members' own is never left without one (service.go:870).
NobodyLeavesLast == room.kind = "group" /\ room.state \in {"live", "trash"} => MemberIDs # {}

\* The thread of a conversation, and the tab that follows it.
ThreadIsWhole == SeesWhatFollows /\ FramesKeepTheFloor /\ NoHiddenGap /\ NobodyLeavesLast
=============================================================================

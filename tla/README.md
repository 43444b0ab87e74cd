# Verification of the ws-tilcer-home backend

TLA+ models of the parts of this household application whose correctness depends
on the order of things: sockets that must die with their session, summaries that must
go out once, events that must reach their listener, files that must not outlive or
be outlived by their rows, trees that people move while others walk them, plans that
must follow what they were made from. Each model is checked by TLC on small instances,
and most of them carry theorems proved with TLAPS for every value of their constants.

Paths below are relative to `src/`. `PROJECT.json` maps every definition to the lines it
translates and lists the runs, the mutants, the hazards and the theorems.

- [1. The system](#1-the-system)
- [2. The modules](#2-the-modules)
- [3. The runs, their bounds and what they show](#3-the-runs-their-bounds-and-what-they-show)
- [4. Fairness](#4-fairness)
- [5. What is proved](#5-what-is-proved)
- [6. Where the code and its words disagree](#6-where-the-code-and-its-words-disagree)
- [7. What is not modelled](#7-what-is-not-modelled)
- [8. Plan](#8-plan)

## 1. The system

One Go process (`backend/cmd/home`) serves one household: a React client, an MCP host for
assistants, a websocket and web-push. State lives in one SQLite file opened with a
single connection and immediate transactions (`backend/internal/platform/db/db.go`), and
in an object store. Two consequences run through all the models: a transaction is
**one atomic step**, because nobody else has a connection while it is open; and
anything the code does *between* two transactions, or between a transaction and an
object-store or network call, is a place where other requests run and the process
may die.

### Components

| component | state it keeps | operations | what makes it correct |
|---|---|---|---|
| websocket hub (`platform/ws`) | registered clients with two indexes, revocation epoch, shared re-validation pumps, send queues | register, unregister, sweep by session, `Publish`, `PublishTo`, re-check | a revoked session loses every socket, at whatever stage of its upgrade; nobody else loses one |
| session store (`platform/auth`) | `sessions` and token rows, cached roles, the single-flight table of mints | login, logout, request middleware, re-mint, touch, announcement of revocations | nothing is revoked without a cause, nobody is served on an identity older than the refresh period, nothing dead comes back |
| scheduler (`platform/scheduler`) and schedules (`modules/admin`) | schedule rows, fired marker, candidates of a tick | minute tick, catch-up, schedule edits, registered jobs | each date's summary goes out once, and never because a schedule was saved |
| audit outbox (`platform/audit`) | `audit_events`, notifier cursor, nudge channel | record in a transaction, nudge, tail, save the cursor | no committed event is passed over; a second delivery only after a fault |
| trigger listener (`modules/admin/listener.go`) | rule cache with generation, dedupe set, coalescing windows, detached sends | match, fold into a window, fire a timer, re-resolve and push, invalidate, flush | a match is counted by one notification; no notification on a rule that was already off |
| web-push (`platform/push`) | subscriptions with their failure streak | subscribe, unsubscribe, send with a pool of workers, prune | a device is pruned for a cause; a device that changed hands is not told the previous member's news |
| chat attachments (`modules/chat`) | conversation, message and attachment rows, queue of keys to delete, objects | upload, remove, move to documents, delete a message, koš (trash) with a window, drain job | a row has its objects, an object has an owner or a queue entry, promises to delete are kept and not brought forward |
| chat thread (`modules/chat`, the client's hooks) | rooms, members with join floors, messages, reactions, read marks; the thread a tab caches | post, edit, delete, react, read, search, page back, repair a gap | a member reads what follows the join, frames included, and nothing before; a tab shows no hidden gap |
| documents (`modules/documents`) | a tree of folders with scopes and addresses, pins, originals, previews, the worker queue | file, move, publish, archive, delete, pin, accept a chat's file; upload, derive, reconcile daily | one scope under a folder; what is private stays so; a row has its bytes; every document gets its preview |
| notes (`modules/notes`) | the same tree, bodies, images | the same, and save a body, collect images after it | the same, and no collection takes an image a note embeds |
| todo (`modules/todo`, `platform/lexorank`) | boards, columns, cards, labels, checklists, order keys | create, move, drag, reorder, archive, delete | what is dragged lands where it was put |
| garden (`modules/garden`) | crops, beds, seasons, plantings, generated and hand-edited work, harvests | edit any of them, copy and close a season | the work follows the plan and keeps off what people touched and off closed seasons |
| electricity, finance | readings, prices, advances, payments, periods; months of income | guarded edits; everything else computed on read | what is computed adds up, and no edit strands it |
| events | entries and recurrence rules | CRUD, expansion on read | the expansion agrees with its definition |
| MCP host (`platform/mcp`) | tokens, slots, sliding windows | mint, narrow, revoke a token; call a tool | at most the allowed calls at once and per window |
| login limiter (`platform/auth`) | fixed windows per address and account | ask, charge, clear, sweep | a lock holds, ends, and the map stays bounded |
| logging, dashboard, storage pages, status report | reads over the rest, age-based pruning | — | — |
| frontend (`frontend/src`) | cached queries, socket with reconnect | invalidate on a frame, refetch on reconnect | no stale page after a reconnect |

### How they interact

    request ──> auth middleware ──> module handler ──tx──> rows + audit_events
                   │ OnSessionRevoked                            │ nudge
                   v                                             v
             ws.Hub.DisconnectSession                     audit notifier (cursor)
                   ^                                             │ OnEvent
                   │ RevalidateSession                           v
             re-validation pump                        admin trigger listener
                                                                 │ Send
     scheduler tick ──> admin.FireSchedule ──────────────────────┴──> push.Send
              └──> registered jobs: chat drain, mirrors, pruning
     chat, todo, notes … ──> hub.Publish / PublishTo ──> client.send ──> socket
     chat "move" ──> documents AcceptBlob (the object is copied, then the chat's is deleted)
     ws frames ──> the client's cached thread (patched, or fetched again after a gap)
     assistant ──> MCP host (window, token, role, slot) ──> module tools

Calls are synchronous except where the drawing crosses a process boundary or a queue: the
nudge is a one-slot channel, `OnEvent` runs on the notifier's goroutine, pushes
started by a rule run detached and are counted by a wait group, and a socket's frames
pass through a bounded channel.

### What is hard

- **Interleaving.** An upgrade authenticates before it registers, and a revocation may be
  announced in between; the last socket of a session leaves a shared pump while
  another joins it; concurrent requests join one mint whose answer then outlives a
  logout; a send judges a subscription by the row it read before posting.
- **Stale state.** The rule cache is filled off the lock; `FireSchedule` acts on the row the
  tick read; the drain purges the rooms it listed earlier; a coalescing window
  may stay open for a day over a rule that has been switched off meanwhile; a pin, a
  handed-over file and a copied season are decided before the transaction that writes them; a
  daily pass deletes by a listing of the bucket that is older than the rows.
- **Crashes and partial failure.** Objects and rows live in two stores; the fired marker is
  saved before the push; the cursor is saved after the delivery; the shutdown flush
  has a deadline; a preview's object and its row's state are written apart, and the queue
  of what is pending is in memory.
- **Long histories.** Folders are moved, published and deleted by members who see different parts
  of one tree; generated work is regenerated after every kind of edit of five tables; guards
  of one table's edits protect what another table's readers compute.
- **Time.** A minute ticker over a local calendar that skips and repeats minutes; a
  failure streak measured in days; a session kept alive by concurrent touches.
- **Liveness.** Dead sockets must close though their announcement was missed; committed
  events must be passed on though the nudge precedes the commit; the deletion queue must
  drain though it is worked off in bounded batches.

`PROJECT.json` lists these hazards one by one, with the line where each bites and the
properties that would catch it.

## 2. The modules

    WsHub ── WsFanout          EventFeed <── AuditOutbox ── TriggerListener
      └ WebSocketProofs        (implemented by)  └ NotifierProofs

    SummaryScheduler   PushChannel       AuthSession          McpHost   LoginLimiter
      └── DeliveryProofs ──┘               └ AuthSessionProofs   └ LimitsProofs ┘

    PrivateShelf <── ScopedTree ──┬── DocumentTree     DocumentVault   NoteImages   ChatBlobs   ChatThread
    (implemented by both trees)   └── NoteTree             │             │            │           └ (NotifierProofs)
                                        │                 │             │            └ ChatBlobsProofs
                                        └── RecordsProofs ──┴─────────────┘

    Lexorank ── TodoBoards   GardenPlan   Electricity   Finance
                               └ HouseholdProofs (also of the other three)

`A ── B` reads "B extends A". `WsFanout` and `TriggerListener` compose: each keeps the
variables and the actions of the module it extends, adds its own, and takes only steps that
module allows. `EventFeed` is the abstract specification of the outbox, `PrivateShelf` that of
both trees. A `…Proofs` module holds theorems only; those of a composing module are in one module
with those of the module it composes, and `NotifierProofs`, `DeliveryProofs`,
`LimitsProofs`, `RecordsProofs` and `HouseholdProofs` also hold those of modules that share nothing. A definition commented "A slip:" or "Mutant:" is a plausible wrong version of the
one that follows it; nothing in the specifications uses it.

The `MC…` modules hold the constants, scenes, views and symmetries of the instances. Four
of them play several modules that share no state as *scenes* of one run: the
variable `scene` is chosen at the start and a behaviour moves the variables of that scene's module only.

| MC module | scenes |
|---|---|
| MCWsHub | two tabs of one session, for the liveness run |
| MCWsFanout | `WsHub` and `WsFanout` in seven scenes (section 3) |
| MCDelivery | `SummaryScheduler`, `PushChannel` |
| MCAuditOutbox | `AuditOutbox` |
| MCTriggerListener | rules: `TriggerListener`; joining, following, reacting: `ChatThread` |
| MCAuthSession | sessions: `AuthSession`; host: `McpHost`; logins: `LoginLimiter` |
| MCChatBlobs | `ChatBlobs` |
| MCRecords | documents: `DocumentTree`; notes: `NoteTree`; vault: `DocumentVault`; images: `NoteImages`; chat: `ChatBlobs` |
| MCHousehold | crops, hands, seasons, rest: `GardenPlan`; boards: `TodoBoards`; accounts: `Electricity`; months: `Finance` |

### WsHub — `platform/ws/hub.go`, `handler.go`

One handler goroutine per connection walks `pc` through the stages of `/ws`: `Begin`
(snapshot of the epoch), `Authenticate`, `Refuse`, `Register` (`h.add`), `CompareEpoch`
(the re-check if a sweep went by), `JoinPump`, then open; on the way out `ReleasePump`,
`Remove`, `Close`. The connect-time re-check is a goroutine of its own (`CheckAnswers`,
`CheckRemoves`, `CheckRevokes`), and so is every shared pump (`TickGone`, `RetirePump`,
`SweepPump`). `RevokeRow` and `SweepSession` are the two halves of an announced revocation,
`ExpireToken` an unannounced end; `RevokeDoomed` is the part of a sweep after it let go
of the lock. A step is one critical section of `Hub.mu`, one atomic flag, or one answer of the
session store. `cred` is what `Authenticate` resolved, `row`/`dead` is the truth in the database;
the properties relate the two. The 5-second write deadline and the reader are the action
`ClientGone` and the fairness of `Close`.

### WsFanout — the rest of `hub.go`, the writer of `handler.go`

`Publish` and `PublishTo` are a snapshot under the lock and then one `FanCheck`/`FanSend`
per recipient; `PublishTo` holds `Hub.pub` for its whole fan-out. `FanSend` drops the frame
for a socket whose queue is full. `TakeFrame`, `CheckFrame`, `WriteFrame` and `WriteFails`
are the writer. `barred` (history) remembers which sockets were condemned when a
publish took its snapshot, `late` counts frames written after a revocation.

### SummaryScheduler — `platform/scheduler/scheduler.go`, `admin/service.go`, `admin/store.go`

Time is a count of instants, one per minute; the local calendar is a constant: `Wall` shows the
wall clock of an instant and may skip or repeat minutes, `SlotAt` is what `time.Date`
resolves. A tick is `TickBegin` (reads the clock), `LoadCandidates`, then per candidate
`Skip` or `MarkFired` and `Fire` (marker first, send second), `TickEnd`; every store
call has its failing form. `UpdateSchedule` and `DeleteSchedule` are the administrator's, `Crash`
and `Restart` the process's, and they interleave with all of it. `DueDay` is `evaluateSchedule`
with its two-day walk, `DueOn` is `evaluateDay`.

### AuditOutbox and EventFeed — `platform/audit`

`Begin`, `Record`, `Commit`, `Rollback` are a mutating request; `Record` also sends the nudge,
*before* the commit, as the sink does. The tailer is `Wake`, `LoadCursor`, `Query`, then `HandOver`
and `Save` per event; `Stop`, `ScanFails`, `SaveFails`, `Cancel`, `Exit`, `Crash` and `Restart` are
the ways it can be cut short. `EventFeed` says what a listener may rely on: oldest first, again until
acknowledged, never after.

### TriggerListener — `admin/listener.go` over AuditOutbox

`HandOver` of the outbox is expanded into the calls `OnEvent` makes: `See` (dedupe),
`Evaluate` on the cached rules or after a load off the lock (`Stamp`, `ReadRules`), then
`HandleMatch` per rule — a send at once, or a fold into the rule's window. `TimerFires`, `ResolveRule`,
`Push` and `EndSend` are the detached send; `EditRule` and `InvalidateRules` the two steps of an
administrator's edit; `FlushBegin` and `FlushEnd` the shutdown. `rules` keeps every version of a
rule, so that "stale" can be said.

### AuthSession — `platform/auth/session.go`, `middleware.go`, `auth.go`

Per caller one call: a request, a websocket re-validation or connect-time re-check, a logout, a login
or a bearer call. `Lookup` reads the row and decides whether it is fresh; `Mint`/`Join` enter the
single-flight table, `Answer` is the auth service's (the account's state, "closed", or
nothing), `Returns` hands it to a waiter; `RevokeClosed`, `RevokeForSocket`, `RevokeForBearer`,
`Refresh`, `FallBack` and their failing forms act on it; `Slide` is the touch; `LogOut` and `Announce`
end it. An identity is the number of the account's state it was minted from, so "these
roles are old" is arithmetic. A failed write stands for a cancelled context too: both leave the row
alone and take the same branch.

### ChatBlobs — `chat/upload.go`, `attachments.go`, `cleanup.go`, `move.go`, `drain.go`, `service.go`

Two stores without a common transaction: `objects` is the bucket, `att`, `msg`, `room` and `queue` the
database. `UploadBegins`, `Put`, `Commit`; `RemoveBegins`, `RemoveMarks`, `LetsGo`;
`MoveBegins`, `MoveCopies`, `MoveInserts`, `MoveMarks`, `LetsGo`; `DeleteMessage`, `Trash`,
`Restore`, `Purge`; and the job's `JobBegins`, `JobDeletes`, `JobClears`, `JobLists`, `JobPurges`.
Each object-store call and each transaction has a failing form followed by the repair the code
tries (`Undo`, `Queues`); `Crash` forgets every request. `lost` and `robbed` are histories of
what the code knowingly or unknowingly gives up, so that `NoSilentOrphan` can say "nothing else".

### PushChannel — `platform/push/push.go`, `store.go`, `http.go`

`Send` resolves the eligible subscriptions once; `Post` (at most `Workers` of one send between
their start and their end) records the push service's answer; `Finish` applies it — clear the
streak, stamp its start, or prune — by the row *as it was resolved*. `Subscribe` is the upsert
that transfers a shared device, `Unsubscribe` and `GiveUp` its ends, `DayPasses` the clock,
`Crash` the loss of every send under way. `good`, `holder` and `hands` are histories.

### ChatThread — `chat/service.go`, `service_messages.go`, `messages.go`, `floor.go`, `modules/chat/api/hooks.ts`

The server's side: `CreateConversation`, joining, leaving, `AsksToSend` and the other requests,
whose handler commits in one step (`SendMessage`, `EditMessage`, `DeleteMessage`, reactions,
`AdvanceRead`) and publishes its frames in later ones (`Publishes`), so that frames of two
requests meet each other and lose their order. The client's side: one tab per member with
the pages it caches; a frame patches it, an answer to the member's own request patches it, a gap or
a reconnect fetches it again, `paging` is an older page under way, and a full inbox loses
frames. A member's floor is the message they joined after; `joined` and `marked` (history) are
places in the order of commits, which the code only knows as ids.

### McpHost — `platform/mcp/http.go`, `limits.go`, `tokens*.go`; LoginLimiter — `platform/auth/ratelimit.go`

A call to the host is `Arrives` (charged to one of three sliding windows), then its bearer is looked
up, its member's role resolved, its slot taken, its tool run and the slot given back, each a step of its own;
minting, narrowing and revoking a token read in one step and commit in another. `spent`
(history) says when calls were let in. The limiter is a fixed window per address and one per account seen
from it: asked before the password is checked (`TriesLogin`), charged or cleared after
(`Fail`, `Reset`), swept in passing and wiped when it is too large.

### ScopedTree, DocumentTree, NoteTree, PrivateShelf — `documents/store.go`, `service.go`, `sink.go`, `notes/store.go`, `service.go`

Folders and leaves are rows with a state, a parent, a scope (the household's or one member's)
and a slug. One action is one handler with its transaction: create, rename, move, archive,
restore, publish a subtree, delete softly or for good, cascade or refuse. A pin is a read (`PinRead`) and an
insert (`PinInsert`) with anything in between; a file handed over by another module is a check of the
folder (`SinkTarget`), a copy of its bytes, and a row (`AcceptBlob`). What the documents
and the notes have in common is in `ScopedTree`; the notes purge a folder without
asking what is below it. `by` (history) is whose step it was, and `slipped` the rows that were handed
over into a folder that had gone. `PrivateShelf` says what a member is promised: what is on their own shelf
leaves it when they publish it or an administrator throws it away, and in no other way.

### DocumentVault — `documents/upload.go`, `preview.go`, `mirror.go`

`UploadPut`, `UploadInsert`, `UploadEnqueue` are the three steps of an upload, each of which may be
its last; a bounded queue with an in-flight set feeds the workers (`Take`, `DeriveOfficePreview`,
`EncodeAndStoreThumb`, `Transient`, `SettlePanicked`, `Finish`, `Leave`); start-up is `Start`,
the sweep of what is settled or pending, `StartDone`; the daily pass is `ListObjects`, `ReadClaims`,
`Reconcile` with its grace and its refusal thresholds. `Stop` is a shutdown or a crash at any point.

### NoteImages — `notes/images.go`, `service.go`, `mirror.go`

A body is the set of images it embeds. `UploadImage` and `InsertNoteImage` are the two halves of an
upload; `SaveBody` commits a body and leaves a collection to be run (`GcNoteImages`), after which other
saves may already have been made; `DeleteNote` hands images on to a note that embeds them, `DeleteNotesFolder`
(DeleteFolder of the notes) does not (section 6). The daily pass scans rows, deletes unreferenced ones past their undo window, and
`ReconcileImages` settles the objects.

### GardenPlan — `garden/service*.go`, `generate.go`, `store.go`

What is known of a crop is one of a few `Cores`; a planting computes its dates from
the crop, its variety, its season's frosts and what was typed, and its tasks from the dates. Every
handler is one transaction that ends by regenerating the tasks of the plantings it touched; only copying
a season reads before its transaction (`CopyBegins`, `CopyBuilds`, `CopyCommits`). `handled` and `excused`
(history) are the tasks a hand took over and the seasons that were closed; `drawn`, of a planting, is which of its
dates were a hand's when its tasks were last drawn up (section 6 says why that is not `manual`). `Jobs` is
`derive`, job by job; `WithDate` and `WithActual` are what a date in a request does.

### TodoBoards and Lexorank — `todo/*.go`, `platform/lexorank/lexorank.go`

`Lexorank` is the algorithm of order keys, over an alphabet of any size: a key between two keys,
and evenly spread keys. The loop of `Between`, which copies digits of the lower key until one fits below the upper
one's and forgets the upper key once it is below it, is its first place with room (`Ceiling`, `Midpoint`). `TodoBoards` uses it as the code does:
moving before a card, to the end, to a key the client computed, a batch of
columns at once; with the deletions, archivings, labels and checklists that go with them.

### Electricity and Finance — `electricity/service.go`, `compute*.go`; `finance/split.go`, `service.go`, `store.go`

Five tables, each edited under guards that look at its neighbours, and the summary and history computed
from them: consumption by intervals between readings, priced by the day across price lists, with fees
by the month and rounding where the code rounds. `Finance` is one row a month, its split with the rounding of
a binary product (either side of a half), and the list read page by page by a cursor.

## 3. The runs, their bounds and what they show

| run | module, cfg | properties | about |
|---|---|---|---|
| Hub | MCWsFanout, Hub.cfg | RegistryHolds, SweptIsCovered, OnlyTheGoneAreRevoked, VerdictIsFinal, TargetedOrderAgrees | no index, pump or sweep leaves a socket behind or closes one it should not; nothing is delivered past a verdict but the frame being written; recipients agree on the order |
| HubLive | MCWsHub, HubLive.cfg | DeadSocketsClose | a socket whose session or token ended is closed in the end |
| Delivery | MCDelivery, Delivery.cfg | AtMostOncePerSlot, SlotsKept, NeverOnSave, HeardByItsHolder, PrunedForCause | a date's summary is sent once, not lost to an outage within the grace, and not sent because a schedule was saved; a device is pruned for a cause and hears what is for its holder |
| Outbox | MCAuditOutbox, Outbox.cfg | CursorSkipsNothing, FewRedeliveries, Promised, EventuallyPassed | no committed event is passed over, a second delivery costs a fault, and the whole implements `EventFeed` |
| Trig | MCTriggerListener, Trig.cfg | MatchesAccounted, NobodyRunsOnStaleRules, OutboxSpec, ThreadIsWhole | a match is counted by one notification, on rules as fresh as the last finished edit; a member of a chat reads what followed their joining, and a tab shows no hidden gap |
| Auth | MCAuthSession, Auth.cfg | RevokedForCause, InUseStaysAlive, IdentityIsCurrent, RevokedIsTold, WithinLimits, LoginsAreBounded | nothing dies without a cause, what is in use stays, nobody is served on an old identity, a revocation reaches the sockets; the budgets of calls and logins hold |
| Records | MCRecords, Records.cfg | TreesHold, PinsAreSeen, BytesStay, PendingIsWorkedOn, ShelfSpec, GcSparesEmbedded | a subtree has one scope and addresses that lead home, a pin is on what one sees, a private thing leaves its shelf by its owner's hand, a row has its bytes, bytes have an owner, what is pending is worked on |
| ChatQueue | MCChatBlobs, ChatQueue.cfg | NoSilentOrphan, DeletionsAreTimely, PromisesAreKept | the promises to delete are not brought forward, not put off, and kept |
| Household | MCHousehold, Household.cfg | PlanIsFollowed, KeptOff, LandsWhereAsked, AccountsAddUp, StaysPriced, MonthsAddUp | the work follows the plan and keeps off what people touched; a card lands where it was put; bills and splits add up, and no edit strands a period |
| ChatRobbed | MCChatBlobs, ChatRobbed.cfg | OnlyExpiredGo, **violated** | section 6 |
| SeasonReopened | MCHousehold, SeasonReopened.cfg | ClosedUntilReopened, **violated** | section 6 |
| ImagesLost | MCRecords, ImagesLost.cfg | EmbeddedStays, **violated** | section 6 |

Run one with `tlc -workers 2 -config Hub.cfg MCWsFanout`. Distinct states: Hub 506 000,
HubLive 337 000, Delivery 1 687 000, Outbox 72 000, Trig 974 000, Auth 1 601 000, Records 1 412 000, ChatQueue 85 000,
Household 58 000 (with three million transitions, for its states have many successors); each run takes one to three and a half minutes on four
cores. Every property of a passing run has a mutant in `PROJECT.json`: a definition of the code
replaced by a plausible wrong one under which the same run finds the property violated. So no
property holds merely because its case never occurs.

Some properties are conjunctions, because their parts fail together or are said of the same
thing in several scenes:

- `RegistryHolds` is `IndexAgrees` of the hub's three maps, `PumpRefs` of its pumps and `OpenIsWatched`; `IdentityIsCurrent`
  is `StampIsHonest` of the rows and `ServedIsCurrent` of the calls.
- `TreesHold` is `OneScopePerSubtree` and, of both trees, that a live row is where its address leads
  (`AddressesLeadHome`; no note is ever handed over, so in the notes' scene `slipped` stays empty and exempts nothing).
- `BytesStay` is `OriginalsStay` of the vault, `RowsHaveBytes` of the images, `NothingIsLost` of the chat;
  with two callers at once, `NoSilentOrphan` too, which ChatQueue checks under the job and its promises.
- `ThreadIsWhole` is `SeesWhatFollows` (thread, search, preview and unread count agree with the order of commits
  since the join), `FramesKeepTheFloor`, `NoHiddenGap` and `NobodyLeavesLast`.
- `AccountsAddUp` is `MeterRunsForwards`, `PricedByTheDay` (the bill against a sum over single days),
  `RecommendedCovers`, `HeadroomFits` and `HistoryAddsUp`.
- `WithinLimits` says of the host's four limits that they hold, and `AnswersFit`, of the truncation of an answer.
- `DeletionsAreTimely` is `DeletedIsDue` (deleted bytes are due at once and stay so) and that
  no room goes whose window is open.

### Bounds

Every bound is a constant of its own or a scene in the MC module; none is hidden in a
guard without a name. A scene that is a state constraint prunes behaviours, so it is used for
safety only, and the worlds below are chosen so that each hazard has one that contains it whole.

- **Hub.** Four scenes of connections: two that lost a field of their credential; a member's two
  devices; three tabs that agree on everything and share a pump; sibling tokens on one session. Three scenes
  of publishes through queues of one slot: two tabs under two targeted publishes, and one
  socket losing its session under a targeted publish and another of either kind. Two sockets are enough for
  any race between a leaving and a joining socket; the third is needed only for the counter of a
  shared pump to reach two holders and a newcomer. Ordering needs two recipients and two messages. `HubView`
  drops epochs that no comparison will read and the credentials of connections that are over.
  Connections are symmetric.
- **HubLive.** Two tabs of one session, every interleaving, fairness as in section 4. No symmetry
  and no view.
- **Delivery.** A wall-clock day has four minutes, so the whole arithmetic of days, slots
  and grace happens within a horizon of eleven minutes: a plain day, a day with a minute skipped, a day with
  a minute repeated. Times of day are 1 and 3, patterns "daily" and "not the first day". The grace is 2
  minutes of a 4-minute day (the code's default is 2 hours of 24), outages last up
  to 3, which is longer than the grace and can span midnight. The configuration, its changes, the
  deletions and the crashes are otherwise unbounded. Of the push channel: two members, two
  devices, two sends, one worker, a limit of one day, two days, two rows ever inserted; overlapping sends to
  one device at a time, or one send taking two devices in turn.
- **Outbox.** Two writers, four identifiers, batches of two (so a batch can be full, partial
  or followed by another), two faults.
- **Trig.** One rule that sends at once, one with a window, both matching every event;
  a dedupe set of one entry, so that it overflows. Around rules nobody edits, one fault with both rules or two with one of them
  off; around a tailer without a fault, one edit of the windowed rule and two events, or two edits and one event: an edit touches the cache and the sends, a redelivery
  the dedupe set and the windows. The chat: two members, two requests, three messages, pages of
  one, an inbox of one frame (so that one is lost); joining while messages are sent or one is answered or
  changed, a tab that follows while the other member sends and its own sends once, and one message changed and marked while a tab pages.
- **Auth.** One member, one session, a bearer token, two concurrent calls of any kind. The refresh
  period is one unit of time, the session's life three, a call takes at most one, three units pass and
  the account goes through two states (open to changed, or to closed, or back).
  `MaxCall` is the auth client's timeout (5 s, `mode_b.go:64`) plus the store's busy timeout: it
  bounds how long a call that read the clock may still act on the reading, and the bounds the properties state
  (`IdentityIsCurrent`, `InUseStaysAlive`) contain it. While a bearer call
  is under way the other caller makes a request, a login or a bearer call: logouts and
  socket re-checks do not touch what a bearer call reads. `Seen` merges states that differ in how a finished call
  ended or in who told of a session, which no action reads and no property tells apart. The host: a budget of one, windows
  of two, one slot, one token a member, one budget spent at a time (`HostIsNarrow`); the logins:
  one attempt, windows of two, two tracked keys of four.
- **Records.** The trees: two folders, one leaf, two members of whom one is an administrator, one title
  (so that slugs collide); pins with one folder, or hand-overs without pins. A private folder inside a
  private folder with a leaf is all that `OneScopePerSubtree` needs; deeper trees are what the proofs are for. The vault: one
  of two documents while a daily pass is under way or has anything to remove, one worker, a queue of
  one. The images: one image while a pass is under way, two notes. The chat: one message with a picture (two keys, so that
  an operation can fail between them), two requests of any kind, one crash, one unit of window.
- **ChatQueue.** One room, one message with one file, one request, a batch of one, two units of time, one crash.
- **Household.** `OneThing` names, per scene, what is met one at a time: one planting and one season, one of whose frosts may move, with a
  date typed or a task touched or the season closed; two plantings and two seasons copied and closed; beds, varieties and
  harvests one at a time; columns without cards, the cards of one column, or one card; the readings and
  prices of one period, prices under two, or the advances of one (`OneAccount`, which no step of that scene leaves); months read page by page. Cards and months are symmetric.

Deadlock is checked in Outbox and Auth. Elsewhere the system may stop: every upgrade of `WsHub` can have come and gone,
the calendar of `SummaryScheduler` ends, the rules and the days of the bounded instances run out,
and the files of `ChatBlobs` can all be gone.

## 4. Fairness

Fairness is assumed only where the program schedules a step itself.

- **WsHub** (`Fairness`, in `TabsSpec` of HubLive): weak fairness of the handler's, the re-check's, the pump's and the sweep's steps,
  per connection. A goroutine that can run is run; a write gives up after five seconds, so
  `Close` comes; a pump's ticker re-arms until it has a verdict, so the answer "unknown" cannot be the
  last one. Nothing is assumed of the browser, of auth (a session need never be revoked) or of upgrades.
- **AuditOutbox** (`FairOutboxSpec`, in Outbox): weak fairness that a transaction ends (commit or rollback), of
  `Wake` (a ticker backs up the nudge), `HandOver`, `Exit`, `Restart`, and of the failing calls
  once the context is cancelled. Strong fairness of `Stop` (a `select` among ready channels picks at
  random) and of `LoadCursor`, `Query` and `Save`: they compete for the one connection, which
  `database/sql` hands out in the order it was asked for, and they do not fail for ever.
- **ChatBlobs** (`FairSpec`, in ChatQueue): weak fairness of the clock, of a request's own steps and of the job's
  steps, strong fairness of `JobDeletes`, `JobClears` and `JobPurges`: the scheduler runs the job
  again and again, and an operation that is retried for ever succeeds at last. Without the
  last, nothing could be promised of a bucket that never answers.

The other modules are checked for safety alone.

## 5. What is proved

Eight proof modules, of twenty of the models. Every theorem holds for all values of the constants
that satisfy the named assumptions of the modules, which only say what kind of value each constant
is (TLC evaluates them on every run); the exceptions are stated below. The line of argument is
the same everywhere: an inductive invariant that holds initially, is preserved by every
action (one lemma or one proof step per action), and implies the property. Check one
with `tlapm WebSocketProofs.tla`.

**WebSocketProofs**, of `WsHub` — `TypeCorrect`, `RegistryIsTrue`, `SweepsCover`, `RevocationsAreTrue`,
all from `HubInvariant: Spec => []IInv`. The properties are not
inductive alone. `SweptIsCovered` needs `EpochInv`: if a handler was authenticated by a session
that was announced since, then its epoch snapshot is older than the current epoch, because it took it
before it asked. `OnlyTheGoneAreRevoked` needs `VerdictInv`: whatever verdict is under way
for a connection was taken on the credential it still has, and credentials never resolve again once they
have stopped. `PumpRefs` and `OpenIsWatched`, two of the three parts of `RegistryHolds`, need `HandleInv`: who holds which handle, and that a handle is
never reused. Counting the holders uses the library's facts about finite sets.

**WebSocketProofs**, of `WsFanout` — `FanoutImplementsHub`: every step of the fan-out is a step of `WsHub` or a stutter, so `IInv` and all
theorems above hold under its publishes. `FanoutTypeCorrect`, `VerdictsAreFinal` and `OrdersAgree` rest on
`FanInv`, which adds to `IInv`: a condemned socket is out of the indexes and past the step that puts it
there (`CondemnedInv`), so no publish that begins later has it among its recipients; a writer that holds a frame is one whose handler
waits for it (`WriterInv`); a client a publish has still to visit has not been fed its message (`PublishInv`);
targeted messages go to connections with a session (`AudienceInv`); and of two targeted messages one client was fed, the first
was finished before the second began (`OrderInv`). What a client has been fed is the
sequence written, being written and queued; lemmas say how each action changes it: not at all, by
one message at its end, or by dropping one.

**DeliveryProofs**, of `SummaryScheduler` — `TypeCorrect`, `SentAtMostOnce`, `SavingSendsNothing`, `NoSlotIsLost`. All but the first assume
`GraceBelowADay`: no instant at or after a date's slot is within the grace of the same time of day on the
date before. That is an assumption on the configuration which the code does not enforce; section 6
says what happens without it. The invariant says that nothing was sent for a date beyond
the marker (`SentInv`), that every marker is *anchored* — the previous date's slot is further back than the grace, or the
schedule changed since (`MarkerInv`) — and that a candidate still carries its schedule's marker (`TodoInv`).
`NoSlotIsLost` further assumes `Outage <= Grace + 1`: the bound on outages is what the property
promises for, and the run has an outage of exactly that length. Its invariant `KeptInv` says that a
slot the last clean tick had behind it is spent (the marker is at its date or past it), and that
during a tick every schedule is either spent up to the tick or still a candidate of it.

**NotifierProofs**, of `AuditOutbox` — `OutboxTypeCorrect`, `NothingSkipped`, `ImplementsFeed`, `RedeliveriesAreFew`. One transaction at a time
means that identifiers commit in the order of their issue (`OrderInv`); so the batch in hand is still
the head of the unread events whenever the tailer looks again (`ScanInv`). The second and third
follow, and `ImplementsFeed` maps every step to a step of `EventFeed` or to a stutter. `RedeliveriesAreFew` bounds a
sum over all events by the number of faults; its invariant `BudgetInv` keeps account: what was
handed over and not acknowledged is one event at most, and it, or a tailer that is being cut short, has a fault of its own.
Second deliveries are counted as a set of pairs, which makes the sum a cardinality.

**NotifierProofs**, of `TriggerListener` — `ListenerKeepsOutbox`, `ListenerTypeCorrect`, `RulesAreFresh`, `MatchesAreAccounted`.
The first says that every step is one of the outbox or a stutter, which brings in its invariant. A load is stamped
with the generation, so it fills the cache only if no edit finished since (`LoadInv`), and what a send obtains is no
older than what was settled when it asked (`WordInv`). Only the next event past the cursor can be handed over
again, and it is the last in the dedupe set (`SeenInv`), so it is not matched again (`MatchInv`); a match is then in one
window or one send until it is spent, and a send's number is the number of matches it covers (`HoldInv`, `CountInv`); the
flush begins when the tailer has stopped (`FlushInv`). The dedupe set is bounded and forgets its oldest entry:
that this is harmless for any capacity of one or more is part of `SeenInv`.

**NotifierProofs**, of `ChatThread` — `ThreadStaysWhole`, for any members, watchers, pages and requests under way
(`ChatConstants`). It shares nothing with the outbox and stands in this module because the run of the two does too. One
transaction at a time hands out the ids, so a thread is in the order of its ids (`ThreadOK`) and a floor says exactly what was
committed before a joining (`MemberOK`). A page holds everything of the thread between its ends (`Whole`); of two neighbours
in a tab the newer is the member's own, the older is marked as a seam, or what lies between is shown too (`Beside`). That is what
every landing keeps — a frame, the answer to one's own request, a page that was read before either — and the marks are what
`NoHiddenGap` looks for (`TabOK`). A request that committed holds its frame above the floors of its audience (`CallOK`), so it
may be published at any time later. A room deleted for good is `Over`, where nobody is a member; everything else is `LiveInv`.

**AuthSessionProofs** — `TypeCorrect`, `RevocationsAreCaused`, `IdentitiesAreCurrent`, `UseKeepsAlive`,
`RevocationsAreTold`, in four layers. `TInv` is the type and which call may be where. `CInv` adds what a call *knows*: an
answer "closed" was true of the account, an announcement is of a revoked row, no two logins create one
row. `HInv` adds how recent what it knows is: an answer held when it came, what was
joined held at most one call earlier, what was read off the row at most a refresh period and a
call earlier; and the state an account is in has not ended. `UInv` says that a request that has read its row and not yet slid it
will write no less than what the row said when it was read, or than one call ago, so overtaking requests
cost no more than that; and that of every revoked session the sockets were told, or will be by a call about to announce it.

**DeliveryProofs**, of `PushChannel` — `PushTypeCorrect`, `HeardByHolder`, `PrunedWithCause`. Row ids are never
reused (`IdsNameRows`), so an answer meets its own row or none; a streak never starts before
the last good thing recorded of its row (`StreaksAreHonest`), in the table and in every
snapshot a send holds, so a streak of more than `MaxFail` days in a snapshot is evidence; a
row belongs to whoever asked last (`OwnersHold`).

**RecordsProofs**, of `DocumentTree` and `NoteTree` — of the documents' tree `TreeTypeCorrect`, `OneScopeBelow`, `PinsStaySeen`, `AddressesDiffer`,
`FoldersStayLive`, `FoldersHangFromTheRoot`, `AddressesHold` (`TreesHold`) and `ShelvesAreKept`; of the notes' tree the same in `NotesStayTogether`
and `NoteShelvesAreKept`. Two folders and a leaf, which is what TLC can afford, are not much of a tree; here there are any
number, to any depth. Every operation changes the rows in one of four ways, and there is one lemma for each: it
writes one row (`OneRowWritten`), archives rows (`RowsArchived`), throws a set of rows away (`RowsPurged`) or flips a
subtree (`SubtreeShared`). What matters of the sets is that they are closed: a row filed in a folder of the set is in
the set (`SubtreeClosed`). A call that has read a row and acts on it later — a pin, a hand-over — relies on `OnlyOpens`: a row leaves its
scope for the shared one, or for good (`PinningOK`, `AcceptingOK`). The invariant `TreeInv(X)` excuses the rows of `X` from
having a live folder above them: those handed over into a deleted folder for the documents, none for the notes,
whose operators are shown equal to the common ones and then take the same lemmas. `FoldersHangFromTheRoot` is stated without a recursive
walk: of any non-empty set of folders that are there, one is filed outside the set. It holds although the check against
moving a folder below itself sees only what its caller sees, because a folder is in its
parent's scope. `AddressesHold` follows from these: a climb from a live row, which exists for any number of steps
(`ClimbExists`), passes live folders of one scope and would come back to one of them if it did not reach the root within
as many steps as there are folders (`ClimbEnds`, by the pigeonhole principle and `NoLoop`); the walk down its slugs finds one
row at each step, for no two live rows of a place share a slug (`WalkLeads`). Here a document is excused from `TreesHold`
only when it was handed over, and that no folder is (`LeavesSlip`) keeps the excuse from spreading below it.
`ShelvesAreKept` maps every step to one of `PrivateShelf`.

**RecordsProofs**, of `DocumentVault` — `VaultTypeCorrect`, `OriginalBytesAreKept`, `NothingPendingIsStranded`, for any room in the preview
queue that is a number. Two invariants, because the originals do not depend on the previews. `StageInv` says what an upload has
put by each of its steps; `PassInv` that what a daily pass has seen old belongs to no upload under way, and was claimed
by the rows if it is an original still needed: that is the order of the pass, which lists the bucket *before* it reads the rows, and
the grace, which no request outlives. The theorem does not depend on the limits of a sweep (`SafeToDelete`): they guard against a
database that is not this bucket's, not against concurrency. For the previews, `TurnInv` says that a document with a place in
the queue or in a worker's hands was uploaded, so its row cannot come back once it is gone, and that the in-flight marks belong to
such documents; `JobInv` that a job that leaves something pending has put it off; `StartInv` that a boot begins with an empty
pool and re-opens only what nobody works on — without it, a document re-opened behind the back of a finishing job would be dropped by
`Enqueue` as in flight and then forgotten; `WorkInv` is the property together with what start-up has still on its list. Every
step within a boot is shown to leave the rows and the turns as `RowsGoOn` and `TurnsGoOn` say, and these preserve the
invariant (`GoesOn`, `JobsGoOn`).

**ChatBlobsProofs** — `BlobsTypeCorrect`, `BytesAreKept`, `OrphansAreKnown`, `DeletionsComeInTime`. The deletion queue is the centre:
what a row vouches for is queued for the end of its room's window, if at all (`QueueInv`). So whatever the
job has taken from the queue is nothing a member could still come back to (`JobInv`, `Forfeit`), or its room was restored too late.
What a request has in hand is not owned yet, or no more (`CallInv`), and of one message's upload there is one
(the handler that holds its keys). A copy made for the documents has its row or a request about to insert it, which is counted
(`CopyInv`). `DeletionsAreTimely` is an action property: its first half is the invariant `DeletedIsDue`, its second
follows from what the job's list of rooms holds.

**RecordsProofs**, of `NoteImages` — `ImagesTypeCorrect`, `ImageBytesAreKept`, `EmbeddedAreSpared`, if the value for "no note" is
not a note. The difficulty is the image between its object and its row: nobody embeds it, no collection or pass has it in hand, and it is younger
than any grace (`FreshInv`); a pass that has read the rows knows every row but those of such newcomers (`SweepInv`).
`EmbeddedAreSpared` is the action property: the collections after a save, however late they run, decide and
delete in one transaction, so an embedded image's row goes by a folder's deletion or a daily pass only.

**HouseholdProofs**, of `GardenPlan` — `GardenTyped`, `CalendarFollows`, `PlanKeepsItsHandsOff`, for any crops, seasons, beds,
plantings, days and numbering of weeks. The run has one crop with three states of knowledge and at most two plantings; here
every field of a crop takes part, and every kind of job. It begins with what `derive` returns: a kind and a number name one job
(`JobsUnique`), the jobs depend on the timing fields of a crop alone, but for storing (`TimelyJobs`), and on what is planned of
a planting, but for its status and first harvest (`JobsOfAlike`). So a step either draws a planting up anew (`Draws`) — its
tasks are then the wanted ones by construction, but for those in a hand, whose keys are in `handled` (`WorkInv`) — or it leaves wanted
what was wanted and only hands move its tasks (`Untouched`, `SteadyFollows`). The invariant `PlanInv` adds what makes that possible:
a planting that is there has its crop, its variety and its season (`Homes`), a copy carries a season that was not closed when it was read, and
plantings of that season (`CopyInv`), and a closed season is excused (`ClosedAreExcused`). The assumptions say that the windows of a crop are well
formed (`Validate` refuses others), that weeks begin on days, and that the two markers for "nothing" are not values.
`PlanKeepsItsHandsOff` is the action property: no change of knowledge, frosts or plan moves a task somebody moved, ticked
off or removed, a date somebody typed, or anything of a closed season.

**LimitsProofs**, of `McpHost` — `BudgetsHold`, for any callers, tokens, addresses, members, lifetimes and budgets; the
assumptions (`HostConstants`) say that callers and tokens are finitely many, that a token is not an address and the marker for "none" is no row,
and that the limits are numbers. The history and the hits a limiter keeps are sequences of times in
order. `SpentInv` says that what a limiter keeps of a key is in order and lacks nothing of
its history that is younger than a window, so pruning, recording and sweeping keep what the window holds, and the number of calls let in
in *any* minute that ends now is what the limiter sees. `HeldInv` equates the slots taken with those who hold one. The two
limits that are asked first and charged later need `TriedInv` and `LiveInv`: charged and asked together stay below the
budget and the number of callers, because whoever passes the question found room and the others past it are other callers.

**LimitsProofs**, of `LoginLimiter` — `LoginsStayBounded`. A window that runs counts what failed since it began, and what is not
tracked has no failure within a window (`CountedInv`): the sweep drops windows that are over, and the wipe clears the history of what
it forgets with it. `ChargedInv` counts the logins past the question beside the window's failures. The bound of the map
holds because a sweep that leaves too many wipes all.

**HouseholdProofs**, of `Electricity` — `BillsAddUp`, `PeriodsStayPriced`, for any days, prices, registers and periods that are
numbers (`LedgerConstants`; a period ends before the last day of the model, as every day the code computes with is a day). The inductive invariant
`LedgerInv` is small: the tables are typed, a period does not end before it begins, and `MeterRunsForwards`. A reading is compared with its nearest
neighbour on either side only; that it then fits among all readings is `FitsAmongAll`. The rest of `AccountsAddUp` is a statement about sums in
any such state. A bill is added up by fee chunks and by intervals between readings, cut where price lists begin; a history by months; the
promise is stated by single days. The day is what they have in common: the pieces tile the days (`PiecesTile`), a sum over the days may be
taken piece by piece (`TilesSum`) and a table by rows or by columns (`SumSwap`), and every piece is off by half a rounding (`RoundedSum`).
Hence the energy (`MeteredByTheDay`), the fees (`FeesByTheDay`; that a longer stretch costs no less is `FeesGrow`) and the history
(`IntervalShared`). The sum of the community modules is a choice among functions; that there is such a function, that it
is one, and its laws are proved by induction on finite sets (`Enumerated`, by the least counterexample).
`TariffsStay` takes the price list a period's first day lies under before an edit and
finds one after it: the guards count exactly the periods that have no other.

**HouseholdProofs**, of `Finance` — `MonthsAreWhole`. The four roundings of a split cost half a haler each at most, whichever side a half
falls on, which bounds what is left for needs. Of the reader of the list, `Shown` says that what stayed where it was has been shown
once if it is at the cursor or above it and not yet if below; that a page is the top of what is left, so nothing is passed over when
months appear, vanish or move meanwhile, is `PageIsOnTop`.

**HouseholdProofs**, of `TodoBoards` and `Lexorank` — `BetweenLies`, `CardsLand`, for any alphabet of at least three digits (with two, the loop of
`Between` would not end), any boards, columns and cards (finitely many) and any bound on the length of keys. The order of keys is a strict total one (`PrecedesOn`,
`OneIsFirst`), so finitely many have a last (`LastKeyIsLast`). A key that precedes another *that does not end in the smallest digit* has the smaller digit
where they first differ, read on past its end (`SmallerDigit`); the first place with room cannot come before that one, which
puts the new key between them (`MidpointLies`). The invariant `BoardsInv` is that every column and card carries such a key; the
rest is which keys the handlers ask between.

### Model-checked only

- **Liveness** (`DeadSocketsClose`, `EventuallyPassed`, `PromisesAreKept`) and whatever speaks of ENABLED is out of reach of the
  proof system.
- **`BytesStay`** joins three modules in one run; each part is proved of its module (`OriginalBytesAreKept`, `ImageBytesAreKept`,
  `BytesAreKept`).

## 6. Where the code and its words disagree

Three disagreements are runs:

- **ChatRobbed.** `PurgeExpiredConversations` lists the rooms past their window and then deletes each by its id
  alone (`drain.go:175`). A room restored after the listing and before its turn is deleted although it is live,
  contrary to `drain.go:153-154`; the window is short, the loss is the whole room.
- **SeasonReopened.** Copying a season reads the season copied into before its transaction and writes its status
  back with the copy (`garden/service_plan.go:104`). A season closed in between is open again, though only an
  administrator's reopening should open it.
- **ImagesLost.** Deleting a folder for good deletes the images of the notes in it
  (`notes/service.go:868`). An image uploaded to one of them and embedded by a note elsewhere goes too; the deletion
  of a single note hands such images on, as its comment (`:1805`) promises.

Others were met while modelling and are part of the models without a run of their own.

*Sockets, sessions, notifications*

- A connection with a session but no token is not re-checked after its epoch moved
  (`handler.go:325`), although the comment above it (229-237) speaks of every connection. `SweptIsCovered`
  is therefore stated of connections that have both.
- The fired marker is one date, compared for equality (`scheduler.go:309`), and the configuration accepts any grace of zero
  or more minutes (`config.go:935`). With a grace of a day, today's slot fires and moves the marker to today; the next
  tick finds yesterday's slot within the grace and unmarked, fires it again and moves the marker back; then today's
  fires again, against the comments (`scheduler.go:322`, `75-76`). The default of two hours is safe: that is the
  assumption `GraceBelowADay` of `SentAtMostOnce`.
- A failed load of the rules drops the notifications of the event in this process, for the cursor moves on
  (`listener.go:203-204`, against the comment at 195-202). `MatchesAccounted` counts from the match on.
- A request that joins a mint under way may get an answer older than the request
  (`middleware.go:277`, against 103-104). `StampIsHonest` and `ServedIsCurrent` allow for one call.
- A device that re-subscribed while a send was under way can be pruned by that send's older
  snapshot (`push.go:376`, against the comment at `store.go:91-93`): `PrunedForCause` judges
  by what was known when the send was resolved.
- A request to the MCP host without a bearer, for a method that needs one, is charged to its address's failures and
  answered as unauthorised, but never refused for them (`mcp/http.go:151`); its lookup costs nothing. A token revoked while its call waits for a slot still runs that call. A patch
  writes back the name and the modules it read before its transaction. Concurrent mints may exceed the number of
  tokens a member may have, as `tokens_http.go:176` says.

*Files*

- A restore after the koš window brings rows back whose objects the drain may already have
  deleted (`drain.go:65`, against `service.go:550-552`): the exception `late` in `NothingIsLost`.
- A move that dies after its row is marked and before its object is deleted leaves an object
  nobody queues (`move.go:172`, against 29-30): part of `lost` in `NoSilentOrphan`.
- A converted preview that is ready can be written off by a later job of the same document, one that re-runs the whole
  conversion for a missing thumbnail and fails or finds no converter (`documents/preview.go:421-445`, against 454-457;
  `AReadyPreviewStays` is written down and not checked).
- A file handed over by another module may be filed in a folder that was deleted while the file was copied: the folder is
  checked before the transaction (`documents/sink.go:83`). That is `slipped` in `DocumentTree`.

*Chat thread*

- A tab that lost a frame and then sends a message of its own does not notice the gap: only frames of others are checked
  (`hooks.ts` 590-620, against `gap.test.ts`); an older page that lands after a refetch leaves a gap too. Both are exceptions named in `NoHiddenGap`.
- A frame carries the quoted message as its *author* may read it (`messages.go:176-186`, `types.go:207-214`), not as its
  recipient may. Frames of concurrent edits may come out of commit order; a refetch that was read before a change and
  lands after its frame shows the old body; a lost "removed" frame leaves the thread of a former member cached.

*Boards, garden*

- 62 evenly spread order keys include one that ends in the smallest digit, in front of which there is no room
  (`lexorank.go:13-16` says none does).
- A card created in a column of kind "done" has no done date, and changing a column's kind leaves the dates of its cards
  (the dashboard reads them, `dashboard_reads.go:34-36`); moving a card across boards and attaching a label do not
  check the label's board; moving one column lacks the collision check of moving several.
- A date typed as it was planned becomes the hand's (`applyPlantingInput`, `garden/service_plan.go:1037-1041`), but as its value did not
  change, `planChanged` (`:1074-1090`) finds nothing to regenerate, although it says it reports "whether an edit
  touched anything the generator derives from" (`:1062-1063`): the task keeps the crop's window, until something else
  of the planting changes, against the comment in `derive` that a manual date is a decision, and that a window around it
  "would quietly re-open a question already answered" (`generate.go:200-203`). The run types the very day (`Days` is one of the planned
  ones) and met it; `PlanIsFollowed` compares with what was drawn up (`drawn`), which excuses just this.
- A planting created between the check and the commit of a copied season is not moved with the season's frosts; a change of a
  crop's storage does not regenerate the tasks of processing and storing that depend on it
  (`generate.go:298-302`); reopening a task or a season brings stale days back; a planting may be given a variety of another plant
  (`VarietyFits` in `PlanIsFollowed`); renaming a bed does not rename tasks that name it.

## 7. What is not modelled

The map covers about 14 700 of the backend's 66 500 lines (22 %): most of each engine named
above, and little of the listing, rendering and validating around them.

- **Not at all:** events and the expansion of recurrence, the layout of the dashboard, queries and pruning
  of the activity log, database access and migrations, the status report and storage readings, HTTP
  plumbing, wiring, test support, and the frontend but for the hooks of the chat thread. They are reads, rendering,
  start-up or one call to the outside; recurrence is a pure function planned below.
- **AuthSession** leaves out CSRF, the development bypass and the bearer token's own
  `last_used` and expiry (the host's are in `McpHost`). **SummaryScheduler** leaves out the ticker's other jobs with
  their retry delays. **PushChannel** leaves out encryption, the clamping of the payload, the delivery log
  and the audience directory, and folds the five mute switches into one. **AuditOutbox** leaves out redaction and
  the pruning of old events, which deletes by age, days behind the cursor. **TriggerListener** leaves out templates.
- **ChatBlobs** leaves out who may do what (membership, the gate of the clean-up page, the default room) and the
  deletion of a document after a move. **ChatThread** leaves out renames, muting, the listings of rooms, the
  push of a message. **DocumentTree**, **NoteTree** leave out full-text search and listings; **DocumentVault** and
  **NoteImages** the contents of what they store.
- **McpHost** leaves out the framing of JSON-RPC, the tool catalogue and the prompts; **LoginLimiter** parsing and cookies.
  **TodoBoards** leaves out links, texts and priorities; **GardenPlan** the warnings of the season check, the pantry, rules,
  weather, import and prompts; **Electricity** the comparison with an invoice; **Finance** metrics.
- A poisonous key that fails for ever blocks the drain batch it is in; the models' fairness excludes it.
- Undefined behaviour (data races) was not met in the modelled code: the state shared by goroutines is
  behind a mutex, an atomic or a channel.

## 8. Plan

1. **Proofs.** Of the safety invariants only `BytesStay` is not a theorem, and its three parts are; next, the refinement of
   what is added below.
2. **Breadth.** The expansion of recurring events against a definition by days; the ticker's registered jobs (retry
   delays, panics, `scheduler.go:137-182`); the queries of the stores as operators, where an operation's outcome depends on
   them; the client's socket and its reconnect beyond the chat.

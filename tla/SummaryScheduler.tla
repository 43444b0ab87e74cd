-------------------------- MODULE SummaryScheduler --------------------------
(***************************************************************************)
(* The wall-clock ticker that fires scheduled summaries                    *)
(* (backend/internal/platform/scheduler) over the schedule table of the    *)
(* admin module: its minute tick, catch-up after an outage, the persisted  *)
(* fired marker, the edits of an administrator that land in between, and   *)
(* a process that may die at any point.                                    *)
(*                                                                         *)
(* Time is a count of instants as long as a minute.  The local calendar is *)
(* a constant: Wall shows the wall clock of an instant, and repeats or     *)
(* skips minutes where the zone changes its offset.                        *)
(***************************************************************************)
EXTENDS Integers, FiniteSets

CONSTANTS
  Schedule,
  LastDay, DayLen,  \* the local dates of an instance, the minutes of a wall-clock day
  Horizon,          \* a bound: the last instant of an instance
  Wall,             \* Wall[t]: minutes of local wall clock shown at instant t
  Tod,              \* the times of day (time_local) in use
  SlotAt,           \* SlotAt[d][m]: the instant time.Date resolves m on date d to
  Pattern,          \* the sets of dates the day patterns in use match
  Grace,            \* Config.CatchupGrace, in minutes
  Outage            \* a bound: how long the ticker may fail to complete a clean tick

Day     == 0..LastDay
Instant == 0..Horizon
Never   == -1       \* no LastFiredLocalDate yet

ASSUME CalendarAssumption ==
  /\ LastDay \in Nat /\ Horizon \in Nat /\ DayLen \in Nat \ {0}
  /\ Tod \subseteq 0..(DayLen - 1) /\ Pattern \subseteq SUBSET Day
  /\ Wall \in [Instant -> 0..(DayLen * (LastDay + 1) - 1)]
  /\ SlotAt \in [Day -> [Tod -> Instant]]
ASSUME GraceAssumption == Grace \in Nat /\ Outage \in Nat

LocalDay(t) == Wall[t] \div DayLen

\* No change of offset takes the local date back, and a slot lies on its date.
ASSUME DateAssumption ==
  /\ \A t \in Instant : LocalDay(t) \in Day
  /\ \A t, u \in Instant : t <= u => LocalDay(t) <= LocalDay(u)
  /\ \A d \in Day, m \in Tod : LocalDay(SlotAt[d][m]) = d

Config == [enabled : BOOLEAN, tod : Tod, days : Pattern, since : Instant]

VARIABLES
  now,
  config,    \* per schedule: its row, updated_at as "since"
  marker,    \* per schedule: last_fired_local_date
  deleted,   \* schedules whose row is gone
  pc,        \* the ticker goroutine: "down", "idle", "began", "looping", "firing"
  tickAt,    \* the now of the tick under way
  todo,      \* the candidates it has still to look at
  firing,    \* the schedule and date it has marked and is about to fire
  clean,     \* no store call of the tick has failed
  lastClean, \* the tickAt of the last tick that completed without such a failure
  sent       \* per schedule and date: the summaries that went out

tickVars == <<pc, tickAt, todo, firing, clean, lastClean>>
vars == <<now, config, marker, deleted, tickVars, sent>>

NoSlot == [id |-> "none", day |-> Never]

Init ==
  /\ now = 0 /\ deleted = {} /\ pc = "idle"
  /\ \E c \in [Schedule -> {k \in Config : k.since = 0}] : config = c
  /\ marker = [s \in Schedule |-> Never]
  /\ tickAt = 0 /\ todo = {} /\ firing = NoSlot /\ clean = TRUE /\ lastClean = 0
  /\ sent = [s \in Schedule |-> [d \in Day |-> 0]]

----------------------------------------------------------------------------
(* When a slot is due.  A candidate is the row as DueCandidates read it. *)

Candidate(s) == [id |-> s, config |-> config[s], marker |-> marker[s]]
Candidates   == {Candidate(s) : s \in {r \in Schedule \ deleted : config[r].enabled}}

SameMinute(t, u) == Wall[t] = Wall[u]

\* Mutant: the fired marker is not consulted.
DueOnUnmarked(x, d) ==
  /\ d \in x.config.days
  /\ LET slot == SlotAt[d][x.config.tod] IN
     \/ SameMinute(tickAt, slot)
     \/ /\ tickAt > slot /\ x.config.since <= slot
        /\ Grace > 0 /\ tickAt - slot <= Grace

\* Mutant: a slot the schedule was not yet configured for counts as missed.
DueOnBeforeSave(x, d) ==
  /\ x.marker # d /\ d \in x.config.days
  /\ LET slot == SlotAt[d][x.config.tod] IN
     \/ SameMinute(tickAt, slot)
     \/ tickAt > slot /\ Grace > 0 /\ tickAt - slot <= Grace

\* evaluateDay: the slot's own minute, or a miss that is recent enough and that
\* the schedule was already configured for.
DueOn(x, d) ==
  /\ x.marker # d /\ d \in x.config.days
  /\ LET slot == SlotAt[d][x.config.tod] IN
     \/ SameMinute(tickAt, slot)
     \/ /\ tickAt > slot /\ x.config.since <= slot
        /\ Grace > 0 /\ tickAt - slot <= Grace

\* Mutant: only today's slot is looked at.
DueDayTodayOnly(x, d) == d = LocalDay(tickAt) /\ DueOn(x, d)

\* evaluate: today's slot first, yesterday's only as a catch-up.
DueDay(x, d) ==
  LET today == LocalDay(tickAt) IN
  \/ d = today /\ DueOn(x, today)
  \/ d = today - 1 /\ d \in Day /\ Grace > 0 /\ ~DueOn(x, today) /\ DueOn(x, d)

----------------------------------------------------------------------------
(* Tick, one step per call of the store and per send. *)

TickBegin ==
  /\ pc = "idle"
  /\ pc' = "began" /\ tickAt' = now /\ clean' = TRUE
  /\ UNCHANGED <<now, config, marker, deleted, todo, firing, lastClean, sent>>

LoadCandidates ==
  /\ pc = "began"
  /\ pc' = "looping" /\ todo' = Candidates
  /\ UNCHANGED <<now, config, marker, deleted, tickAt, firing, clean, lastClean, sent>>

LoadFails ==
  /\ pc = "began"
  /\ pc' = "idle"
  /\ UNCHANGED <<now, config, marker, deleted, tickAt, todo, firing, clean, lastClean, sent>>

Skip(x) ==
  /\ pc = "looping" /\ x \in todo
  /\ \A d \in Day : ~DueDay(x, d)
  /\ todo' = todo \ {x}
  /\ UNCHANGED <<now, config, marker, deleted, pc, tickAt, firing, clean, lastClean, sent>>

\* The marker is persisted first; on a deleted row the update matches nothing.
MarkFired(x, d) ==
  /\ pc = "looping" /\ x \in todo /\ DueDay(x, d)
  /\ marker' = IF x.id \in deleted THEN marker ELSE [marker EXCEPT ![x.id] = d]
  /\ todo' = todo \ {x}
  /\ firing' = [id |-> x.id, day |-> d]
  /\ pc' = "firing"
  /\ UNCHANGED <<now, config, deleted, tickAt, clean, lastClean, sent>>

MarkFails(x) ==
  /\ pc = "looping" /\ x \in todo /\ \E d \in Day : DueDay(x, d)
  /\ todo' = todo \ {x} /\ clean' = FALSE
  /\ UNCHANGED <<now, config, marker, deleted, pc, tickAt, firing, lastClean, sent>>

\* FireSchedule loads the row again; it sends unless the row is gone, it cannot
\* be read, or nobody is to be told.
Fire ==
  /\ pc = "firing"
  /\ \/ /\ firing.id \notin deleted
        /\ sent' = [sent EXCEPT ![firing.id][firing.day] = @ + 1]
     \/ UNCHANGED sent
  /\ pc' = "looping" /\ firing' = NoSlot
  /\ UNCHANGED <<now, config, marker, deleted, tickAt, todo, clean, lastClean>>

TickEnd ==
  /\ pc = "looping" /\ todo = {}
  /\ pc' = "idle"
  /\ lastClean' = IF clean THEN tickAt ELSE lastClean
  /\ UNCHANGED <<now, config, marker, deleted, tickAt, todo, firing, clean, sent>>

----------------------------------------------------------------------------
(* What happens around the ticker. *)

Crash ==
  /\ pc # "down"
  /\ pc' = "down" /\ todo' = {} /\ firing' = NoSlot
  /\ UNCHANGED <<now, config, marker, deleted, tickAt, clean, lastClean, sent>>

Restart ==
  /\ pc = "down"
  /\ pc' = "idle"
  /\ UNCHANGED <<now, config, marker, deleted, tickAt, todo, firing, clean, lastClean, sent>>

\* UpdateSchedule: the row changes shape now.  A schedule that does not exist yet
\* is one that has been disabled so far.
UpdateSchedule(s) ==
  /\ s \notin deleted
  /\ \E c \in Config : c.since = now /\ config' = [config EXCEPT ![s] = c]
  /\ UNCHANGED <<now, marker, deleted, tickVars, sent>>

DeleteSchedule(s) ==
  /\ s \notin deleted
  /\ deleted' = deleted \cup {s}
  /\ UNCHANGED <<now, config, marker, tickVars, sent>>

\* Time passes, but not past Outage without a clean tick.
Minute ==
  /\ now < Horizon /\ now - lastClean < Outage
  /\ now' = now + 1
  /\ UNCHANGED <<config, marker, deleted, tickVars, sent>>

Tick  == \/ TickBegin \/ LoadCandidates \/ LoadFails \/ Fire \/ TickEnd
         \/ \E x \in todo : Skip(x) \/ MarkFails(x) \/ \E d \in Day : MarkFired(x, d)
Admin == \E s \in Schedule : UpdateSchedule(s) \/ DeleteSchedule(s)

Next == Tick \/ Admin \/ Crash \/ Restart \/ Minute

Spec == Init /\ [][Next]_vars

----------------------------------------------------------------------------
(* Properties. *)

\* The type invariant.  The candidates of a tick are one per schedule, and a
\* ticker that is not in its loop holds none.
TypeOK ==
  /\ now \in Instant /\ tickAt \in Instant /\ lastClean \in Instant
  /\ lastClean <= tickAt /\ tickAt <= now
  /\ config \in [Schedule -> Config]
  /\ marker \in [Schedule -> Day \cup {Never}]
  /\ deleted \subseteq Schedule
  /\ pc \in {"down", "idle", "began", "looping", "firing"}
  /\ clean \in BOOLEAN
  /\ \A x \in todo : x \in [id : Schedule, config : Config, marker : Day \cup {Never}]
  /\ \A x, y \in todo : x.id = y.id => x = y
  /\ todo # {} => pc \in {"looping", "firing"}
  /\ firing # NoSlot <=> pc = "firing"
  /\ firing \in [id : Schedule, day : Day] \cup {NoSlot}
  /\ sent \in [Schedule -> [Day -> Nat]]

\* The grace reaches less far back than the same time of day on the day before:
\* once a date's slot has come, the previous date's can no longer be caught up.
GraceBelowADay ==
  \A d \in Day \ {0}, m \in Tod, t \in Instant :
    LocalDay(t) = d /\ (t >= SlotAt[d][m] \/ SameMinute(t, SlotAt[d][m]))
      => t - SlotAt[d - 1][m] > Grace

\* A household gets a date's summary at most once: not again after a crash in
\* mid-send, a restart, a repeated wall-clock minute or an edit of the schedule.
AtMostOncePerSlot == \A s \in Schedule, d \in Day : sent[s][d] <= 1

\* No slot is lost to an outage within the grace, even one that spans midnight:
\* by the time a clean tick has started at or after a slot its schedule was
\* configured for in time, that slot has been spent.
SlotsKept ==
  \A s \in Schedule \ deleted, d \in Day :
    LET slot == SlotAt[d][config[s].tod] IN
    /\ config[s].enabled /\ d \in config[s].days
    /\ config[s].since < slot /\ slot <= lastClean
    => marker[s] >= d

\* Saving a schedule never sends at once: a summary is only sent for a slot that
\* was not yet past when its schedule last changed, or that changed after the
\* ticker had already committed to it.
Sends(s, d) == sent'[s][d] > sent[s][d]
NeverOnSave ==
  [][\A s \in Schedule, d \in Day : Sends(s, d) =>
       LET slot == SlotAt[d][config[s].tod] IN
       \/ slot >= config[s].since \/ SameMinute(tickAt, slot)
       \/ config[s].since >= tickAt]_vars
=============================================================================

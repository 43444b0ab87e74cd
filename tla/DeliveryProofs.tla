-------------------------- MODULE DeliveryProofs ---------------------------
(**************************************************************************)
(* Proofs about the two modules behind a notification that goes out.      *)
(* SummaryScheduler first, for every set of schedules, every calendar     *)
(* and every history of edits, crashes and failed store calls; then       *)
(* PushChannel, for every number of members, devices, sends and days.     *)
(**************************************************************************)
EXTENDS SummaryScheduler, PushChannel, TLAPS

\* What makes the previous date's slot unreachable for a schedule marked for d:
\* it changed on d or later, or that slot is already further back than the grace.
Anchored(c, d, t) ==
  d \in Day \ {0} => \/ LocalDay(c.since) >= d
                     \/ t - SlotAt[d - 1][c.tod] > Grace

\* No marker is ahead of the ticker, and every marker is anchored.
MarkerInv ==
  \A s \in Schedule : /\ marker[s] # Never => marker[s] <= LocalDay(tickAt)
                      /\ Anchored(config[s], marker[s], tickAt)

\* A candidate still carries its schedule's marker, and its shape unless an
\* administrator changed that during the tick.
TodoInv ==
  \A x \in todo : /\ x.marker = marker[x.id]
                  /\ x.config = config[x.id] \/ config[x.id].since >= tickAt
                  /\ Anchored(x.config, x.marker, tickAt)

\* Nothing was sent for a date after the marker, nor yet for the one being fired.
SentInv ==
  /\ \A s \in Schedule, d \in Day : d > marker[s] => sent[s][d] = 0
  /\ pc = "firing" /\ firing.id \notin deleted
       => marker[firing.id] = firing.day /\ sent[firing.id][firing.day] = 0

\* What the ticker has committed to was not yet past when its schedule changed.
FiringInv ==
  pc = "firing" =>
    LET c == config[firing.id]
        slot == SlotAt[firing.day][c.tod]
    IN \/ slot >= c.since \/ SameMinute(tickAt, slot) \/ c.since >= tickAt

IInv == TypeOK /\ MarkerInv /\ TodoInv /\ SentInv /\ AtMostOncePerSlot /\ FiringInv

----------------------------------------------------------------------------
\* The facts about the calendar the steps below use.
LEMMA Calendar ==
  /\ \A t \in Instant : t \in Int /\ LocalDay(t) \in Int
  /\ \A d \in Day : d \in Int /\ d >= 0
  /\ Grace \in Nat
  /\ \A d \in Day, m \in Tod : SlotAt[d][m] \in Instant /\ SlotAt[d][m] \in Int
  /\ \A t, u \in Instant : SameMinute(t, u) => LocalDay(t) = LocalDay(u)
  /\ \A d \in Day \ {0} : d - 1 \in Day
<1>1. \A t \in Instant : t \in Int /\ LocalDay(t) \in Int
  BY CalendarAssumption, DateAssumption DEF Instant, Day
<1>2. \A d \in Day, m \in Tod : SlotAt[d][m] \in Instant
  BY CalendarAssumption
<1>3. \A t, u \in Instant : SameMinute(t, u) => LocalDay(t) = LocalDay(u)
  BY DEF SameMinute, LocalDay
<1>4. \A d \in Day \ {0} : d - 1 \in Day
  BY CalendarAssumption DEF Day
<1> QED
  BY <1>1, <1>2, <1>3, <1>4, GraceAssumption DEF Day, Instant

\* The initial state satisfies the invariant.
LEMMA InitIInv == Init => IInv
<1> SUFFICES ASSUME Init PROVE IInv
  OBVIOUS
<1>1. TypeOK
  BY CalendarAssumption DEF Init, TypeOK, Instant, Config
<1>2. MarkerInv
  BY DEF Init, MarkerInv, Anchored, Day, Never
<1>3. TodoInv /\ FiringInv
  BY DEF Init, TodoInv, FiringInv
<1>4. SentInv /\ AtMostOncePerSlot
  BY DEF Init, SentInv, AtMostOncePerSlot
<1> QED
  BY <1>1, <1>2, <1>3, <1>4 DEF IInv

\* The types are preserved by every step.
LEMMA TypeStep == TypeOK /\ [Next]_vars => TypeOK'
<1> SUFFICES ASSUME TypeOK, [Next]_vars PROVE TypeOK'
  OBVIOUS
<1> USE DEF TypeOK, tickVars, NoSlot
<1>1. CASE TickBegin
  BY <1>1, Calendar DEF TickBegin
<1>2. CASE LoadCandidates
  BY <1>2 DEF LoadCandidates, Candidates, Candidate
<1>3. CASE LoadFails
  BY <1>3 DEF LoadFails
<1>4. CASE Fire
  <2>1. firing \in [id : Schedule, day : Day]
    BY <1>4 DEF Fire
  <2>2. sent' \in [Schedule -> [Day -> Nat]]
    <3>1. CASE sent' = [sent EXCEPT ![firing.id][firing.day] = @ + 1]
      BY <3>1, <2>1
    <3> QED
      BY <3>1, <1>4 DEF Fire
  <2> QED
    BY <1>4, <2>2 DEF Fire
<1>5. CASE TickEnd
  BY <1>5, Calendar DEF TickEnd
<1>6. ASSUME NEW x \in todo, Skip(x) PROVE TypeOK'
  BY <1>6 DEF Skip
<1>7. ASSUME NEW x \in todo, MarkFails(x) PROVE TypeOK'
  BY <1>7 DEF MarkFails
<1>8. ASSUME NEW x \in todo, NEW d \in Day, MarkFired(x, d) PROVE TypeOK'
  BY <1>8 DEF MarkFired, Day, Never
<1>9. ASSUME NEW s \in Schedule, UpdateSchedule(s) PROVE TypeOK'
  BY <1>9 DEF UpdateSchedule
<1>10. ASSUME NEW s \in Schedule, DeleteSchedule(s) PROVE TypeOK'
  BY <1>10 DEF DeleteSchedule
<1>11. CASE Crash
  BY <1>11 DEF Crash
<1>12. CASE Restart
  BY <1>12 DEF Restart
<1>13. CASE Minute
  BY <1>13, CalendarAssumption DEF Minute, Instant
<1>14. CASE UNCHANGED vars
  BY <1>14 DEF vars
<1> QED
  BY <1>1, <1>2, <1>3, <1>4, <1>5, <1>6, <1>7, <1>8, <1>9, <1>10, <1>11, <1>12, <1>13, <1>14
     DEF Next, Tick, Admin

\* The heart of the matter: a slot that is due lies after the marker, and leaves
\* the schedule anchored - as long as the grace reaches less far back than a day.
LEMMA DueAdvances ==
  ASSUME GraceBelowADay, TypeOK, MarkerInv, TodoInv,
         NEW x \in todo, NEW d \in Day, DueDay(x, d)
  PROVE  /\ d > marker[x.id]
         /\ d <= LocalDay(tickAt)
         /\ Anchored(config[x.id], d, tickAt)
<1> DEFINE m == x.config.tod
           date == LocalDay(tickAt)
<1>1. /\ x.id \in Schedule /\ x.config \in Config /\ m \in Tod /\ x.config.since \in Instant
      /\ config[x.id] \in Config /\ config[x.id].since \in Instant
      /\ tickAt \in Instant /\ tickAt \in Int /\ date \in Day
      /\ x.marker = marker[x.id] /\ x.marker \in Day \cup {Never}
      /\ x.marker # Never => x.marker <= date
  BY DateAssumption, Calendar DEF TypeOK, Config, TodoInv, MarkerInv
<1>2. \A e \in Day : DueOn(x, e) =>
        /\ x.marker # e
        /\ \/ SameMinute(tickAt, SlotAt[e][m])
           \/ /\ tickAt > SlotAt[e][m] /\ x.config.since <= SlotAt[e][m]
              /\ tickAt - SlotAt[e][m] <= Grace
  BY DEF DueOn
<1>3. \A e \in Day : LocalDay(SlotAt[e][m]) = e /\ SlotAt[e][m] \in Instant
  <2>1. \A e \in Day : LocalDay(SlotAt[e][m]) = e
    BY <1>1, DateAssumption
  <2> QED
    BY <2>1, <1>1, Calendar
<1>4. d <= date
  BY <1>1, Calendar DEF DueDay
<1>5. d # 0 => tickAt - SlotAt[d - 1][m] > Grace
  <2> SUFFICES ASSUME d # 0 PROVE tickAt - SlotAt[d - 1][m] > Grace
    OBVIOUS
  <2>0. d - 1 \in Day /\ SlotAt[d - 1][m] \in Int /\ SlotAt[d][m] \in Int /\ Grace \in Int
    BY <1>1, Calendar
  <2>1. CASE d = date
    <3>1. DueOn(x, d)
      BY <2>1, <1>1, Calendar DEF DueDay
    <3>2. tickAt >= SlotAt[d][m] \/ SameMinute(tickAt, SlotAt[d][m])
      BY <3>1, <1>2, <1>1, <2>0
    <3> QED
      BY <3>2, <2>1, <1>1 DEF GraceBelowADay
  <2>2. CASE d # date
    <3>1. DueOn(x, d) /\ d = date - 1
      BY <2>2 DEF DueDay
    <3>2. ~SameMinute(tickAt, SlotAt[d][m])
      BY <2>2, <1>1, <1>3, Calendar
    <3>3. tickAt > SlotAt[d][m]
      BY <3>1, <3>2, <1>2
    <3>4. SlotAt[d][m] - SlotAt[d - 1][m] > Grace
      BY <1>1, <1>3, <2>0 DEF GraceBelowADay
    <3> QED
      BY <3>3, <3>4, <2>0, <1>1
  <2> QED
    BY <2>1, <2>2
<1>6. x.marker # d
  BY <1>2 DEF DueDay
<1>7. d > marker[x.id]
  <2>1. CASE d = date
    BY <2>1, <1>1, <1>6, Calendar DEF Never
  <2>2. CASE d # date
    <3>1. DueOn(x, d) /\ d = date - 1
      BY <2>2 DEF DueDay
    <3>2. /\ tickAt > SlotAt[d][m] /\ x.config.since <= SlotAt[d][m]
          /\ tickAt - SlotAt[d][m] <= Grace
      BY <3>1, <2>2, <1>1, <1>2, <1>3, Calendar
    <3>3. LocalDay(x.config.since) <= d
      BY <3>2, <1>1, <1>3, DateAssumption
    <3>4. x.marker # date
      <4> SUFFICES ASSUME x.marker = date PROVE FALSE
        OBVIOUS
      <4>1. date # 0 /\ date \in Int /\ d \in Int /\ date - 1 = d
        BY <3>1, <1>1, Calendar DEF Day
      <4>2. LocalDay(x.config.since) \in Int
        BY <1>1, Calendar
      <4>3. Anchored(x.config, date, tickAt)
        BY DEF TodoInv
      <4>4. tickAt - SlotAt[d][m] > Grace
        BY <4>1, <4>2, <4>3, <3>3, <1>1 DEF Anchored
      <4> QED
        BY <4>4, <3>2, <1>1, <1>3, Calendar
    <3>5. d \in Int /\ d >= 0 /\ date \in Int /\ d = date - 1
      BY <3>1, <1>1, Calendar
    <3>6. x.marker = -1 \/ (x.marker \in Int /\ x.marker <= date)
      BY <1>1, Calendar DEF Never
    <3>7. d > x.marker
      BY <3>4, <3>5, <3>6, <1>6
    <3> QED
      BY <3>7, <1>1
  <2> QED
    BY <2>1, <2>2
<1>8. Anchored(config[x.id], d, tickAt)
  <2>1. CASE x.config = config[x.id]
    BY <2>1, <1>5 DEF Anchored
  <2>2. CASE config[x.id].since >= tickAt
    <3>1. LocalDay(config[x.id].since) >= date
      BY <2>2, <1>1, DateAssumption, Calendar
    <3>2. LocalDay(config[x.id].since) \in Int /\ date \in Int /\ d \in Int
      BY <1>1, Calendar
    <3>3. LocalDay(config[x.id].since) >= d
      BY <3>1, <3>2, <1>4
    <3> QED
      BY <3>3 DEF Anchored
  <2> QED
    BY <2>1, <2>2 DEF TodoInv
<1> QED
  BY <1>4, <1>7, <1>8

\* Later ticks only take a slot further out of reach.
LEMMA AnchorKeeps ==
  ASSUME NEW c \in Config, NEW d \in Day \cup {Never}, NEW t \in Instant, NEW u \in Instant,
         t <= u, Anchored(c, d, t)
  PROVE  Anchored(c, d, u)
<1>1. d \in Day \ {0} => SlotAt[d - 1][c.tod] \in Int
  BY Calendar DEF Config
<1> QED
  BY <1>1, Calendar DEF Anchored

\* A schedule that changes during or after a tick is anchored for every date the
\* ticker can have marked by then.
LEMMA EditAnchors ==
  ASSUME NEW c \in Config, NEW d \in Day \cup {Never}, NEW t \in Instant,
         t <= c.since, d # Never => d <= LocalDay(t)
  PROVE  Anchored(c, d, t)
<1>1. c.since \in Instant
  BY DEF Config
<1>2. LocalDay(t) <= LocalDay(c.since)
  BY <1>1, DateAssumption
<1> QED
  BY <1>1, <1>2, Calendar DEF Anchored, Never, Day

----------------------------------------------------------------------------
\* Every step preserves the invariant.
LEMMA StepIInv == GraceBelowADay /\ IInv /\ [Next]_vars => IInv'
<1> SUFFICES ASSUME GraceBelowADay, IInv, [Next]_vars PROVE IInv'
  OBVIOUS
<1>0. TypeOK' /\ TypeOK /\ MarkerInv /\ TodoInv /\ SentInv /\ AtMostOncePerSlot /\ FiringInv
  BY TypeStep DEF IInv
<1>1. CASE TickBegin
  <2>1. /\ tickAt' = now /\ tickAt' \in Instant /\ tickAt \in Instant /\ tickAt <= tickAt'
        /\ todo = {} /\ todo' = {}
        /\ config' = config /\ marker' = marker /\ sent' = sent /\ pc' = "began"
    BY <1>0, <1>1 DEF TickBegin, TypeOK
  <2>2. LocalDay(tickAt) <= LocalDay(tickAt') /\ LocalDay(tickAt) \in Int /\ LocalDay(tickAt') \in Int
    BY <2>1, DateAssumption, Calendar
  <2>3. ASSUME NEW s \in Schedule
        PROVE  /\ marker[s] # Never => marker[s] <= LocalDay(tickAt')
               /\ Anchored(config[s], marker[s], tickAt')
    <3>1. /\ config[s] \in Config /\ marker[s] \in Day \cup {Never}
          /\ Anchored(config[s], marker[s], tickAt)
          /\ marker[s] # Never => marker[s] <= LocalDay(tickAt)
      BY <1>0 DEF TypeOK, MarkerInv
    <3>2. Anchored(config[s], marker[s], tickAt')
      BY <3>1, <2>1, AnchorKeeps
    <3> QED
      BY <3>1, <3>2, <2>2, Calendar
  <2>4. MarkerInv'
    BY <2>1, <2>3 DEF MarkerInv, LocalDay, Anchored
  <2> QED
    BY <2>1, <2>4, <1>0, <1>1
       DEF TickBegin, TodoInv, SentInv, AtMostOncePerSlot, FiringInv, IInv
<1>2. CASE LoadCandidates
  <2>1. /\ tickAt' = tickAt /\ config' = config /\ marker' = marker /\ pc' = "looping"
        /\ todo' = Candidates /\ sent' = sent
    BY <1>2 DEF LoadCandidates
  <2>2. MarkerInv'
    BY <2>1, <1>0 DEF MarkerInv, LocalDay, Anchored
  <2>3. TodoInv'
    BY <2>1, <1>0 DEF TodoInv, MarkerInv, Candidates, Candidate, Anchored, LocalDay
  <2> QED
    BY <2>1, <2>2, <2>3, <1>0 DEF SentInv, AtMostOncePerSlot, FiringInv, IInv
<1>3. ASSUME NEW x \in todo, NEW d \in Day, MarkFired(x, d) PROVE IInv'
  <2>1. /\ DueDay(x, d) /\ pc' = "firing" /\ firing' = [id |-> x.id, day |-> d]
        /\ todo' = todo \ {x} /\ tickAt' = tickAt /\ config' = config /\ deleted' = deleted
        /\ sent' = sent
        /\ marker' = IF x.id \in deleted THEN marker ELSE [marker EXCEPT ![x.id] = d]
    BY <1>3 DEF MarkFired
  <2>2. /\ d > marker[x.id] /\ d <= LocalDay(tickAt) /\ Anchored(config[x.id], d, tickAt)
    BY <2>1, <1>0, DueAdvances
  <2>3. /\ x.id \in Schedule /\ marker \in [Schedule -> Day \cup {Never}]
        /\ \A y \in todo : y.id = x.id => y = x
        /\ \A s \in Schedule : marker[s] \in Int
    BY <1>0 DEF TypeOK, Day, Never
  <2>4. MarkerInv'
    BY <2>1, <2>2, <2>3, <1>0 DEF MarkerInv, LocalDay, Anchored
  <2>5. TodoInv'
    <3>1. \A y \in todo' : y \in todo /\ y.id # x.id /\ marker'[y.id] = marker[y.id]
      BY <2>1, <2>3, <1>0 DEF TypeOK
    <3> QED
      BY <3>1, <2>1, <1>0 DEF TodoInv, Anchored, LocalDay
  <2>6. SentInv'
    <3>1. \A e \in Day : e > marker[x.id] => sent[x.id][e] = 0
      BY <2>3, <1>0 DEF SentInv
    <3>2. ASSUME NEW s \in Schedule, NEW e \in Day, e > marker'[s] PROVE sent'[s][e] = 0
      <4>1. e > marker[s]
        BY <3>2, <2>1, <2>2, <2>3, Calendar
      <4> QED
        BY <4>1, <2>1, <1>0 DEF SentInv
    <3>3. x.id \notin deleted => marker'[x.id] = d
      BY <2>1, <2>3
    <3> QED
      BY <3>1, <3>2, <3>3, <2>1, <2>2 DEF SentInv
  <2>7. FiringInv'
    <3>1. d \in Day /\ x.config \in Config /\ x.config.tod \in Tod /\ x.config.since \in Instant
      BY <1>0 DEF TypeOK, Config
    <3>2. DueOn(x, d)
      BY <2>1 DEF DueDay
    <3>3. \/ SlotAt[d][x.config.tod] >= x.config.since
          \/ SameMinute(tickAt, SlotAt[d][x.config.tod])
      BY <3>1, <3>2, Calendar DEF DueOn
    <3>4. x.config = config[x.id] \/ config[x.id].since >= tickAt
      BY <1>0 DEF TodoInv
    <3> QED
      BY <3>3, <3>4, <2>1 DEF FiringInv, SameMinute
  <2> QED
    BY <2>1, <2>4, <2>5, <2>6, <2>7, <1>0 DEF AtMostOncePerSlot, IInv
<1>4. CASE Fire
  <2>1. /\ pc = "firing" /\ pc' = "looping" /\ tickAt' = tickAt /\ config' = config
        /\ marker' = marker /\ deleted' = deleted /\ todo' = todo
        /\ \/ /\ firing.id \notin deleted
              /\ sent' = [sent EXCEPT ![firing.id][firing.day] = @ + 1]
           \/ sent' = sent
    BY <1>4 DEF Fire
  <2>2. firing.id \in Schedule /\ firing.day \in Day
    BY <2>1, <1>0 DEF TypeOK
  <2>3. \A s \in Schedule : marker[s] \in Int
    BY <1>0 DEF TypeOK, Day, Never
  <2>4. \A s \in Schedule, e \in Day :
          \/ sent'[s][e] = sent[s][e]
          \/ /\ s = firing.id /\ e = firing.day /\ marker[s] = e
             /\ sent[s][e] = 0 /\ sent'[s][e] = 1
    BY <2>1, <2>2, <1>0 DEF SentInv, TypeOK
  <2>5. AtMostOncePerSlot'
    BY <2>4, <1>0 DEF AtMostOncePerSlot, TypeOK
  <2>6. SentInv'
    BY <2>1, <2>3, <2>4, <1>0, Calendar DEF SentInv
  <2> QED
    BY <2>1, <2>5, <2>6, <1>0
       DEF MarkerInv, TodoInv, FiringInv, IInv, Anchored, LocalDay
<1>5. ASSUME NEW s \in Schedule, UpdateSchedule(s) PROVE IInv'
  <2>1. PICK c \in Config : c.since = now /\ config' = [config EXCEPT ![s] = c]
    BY <1>5 DEF UpdateSchedule
  <2>2. /\ tickAt' = tickAt /\ marker' = marker /\ todo' = todo /\ sent' = sent
        /\ pc' = pc /\ firing' = firing /\ deleted' = deleted
    BY <1>5 DEF UpdateSchedule, tickVars
  <2>3. /\ tickAt \in Instant /\ tickAt <= c.since /\ marker[s] \in Day \cup {Never}
        /\ config \in [Schedule -> Config]
    BY <2>1, <1>0 DEF TypeOK
  <2>4. Anchored(c, marker[s], tickAt)
    BY <2>3, <1>0, EditAnchors DEF MarkerInv
  <2>5. MarkerInv'
    BY <2>1, <2>2, <2>3, <2>4, <1>0 DEF MarkerInv, LocalDay, Anchored
  <2>6. TodoInv'
    BY <2>1, <2>2, <2>3, <1>0, Calendar DEF TodoInv, Anchored, LocalDay, TypeOK
  <2>7. FiringInv'
    BY <2>1, <2>2, <2>3, <1>0, Calendar DEF FiringInv, SameMinute, TypeOK
  <2> QED
    BY <2>2, <2>5, <2>6, <2>7, <1>0 DEF SentInv, AtMostOncePerSlot, IInv
<1>6. ASSUME todo' \subseteq todo, UNCHANGED <<config, marker, tickAt, sent>>,
             deleted \subseteq deleted', pc' = "firing" => pc = "firing" /\ firing' = firing
      PROVE  IInv'
  BY <1>0, <1>6
     DEF MarkerInv, TodoInv, SentInv, AtMostOncePerSlot, FiringInv, IInv, Anchored, LocalDay,
         SameMinute
<1>7. CASE LoadFails \/ TickEnd \/ Crash \/ Restart \/ Minute \/ UNCHANGED vars
  BY <1>6, <1>7 DEF LoadFails, TickEnd, Crash, Restart, Minute, tickVars, vars
<1>8. ASSUME NEW x \in todo, Skip(x) \/ MarkFails(x) PROVE IInv'
  BY <1>6, <1>8 DEF Skip, MarkFails
<1>9. ASSUME NEW s \in Schedule, DeleteSchedule(s) PROVE IInv'
  BY <1>6, <1>9 DEF DeleteSchedule, tickVars
<1> QED
  BY <1>1, <1>2, <1>3, <1>4, <1>5, <1>7, <1>8, <1>9 DEF Next, Tick, Admin

----------------------------------------------------------------------------
\* The types hold whatever the grace.
THEOREM TypeCorrect == Spec => []TypeOK
<1>1. Init => TypeOK
  BY InitIInv DEF IInv
<1> QED
  BY <1>1, TypeStep, PTL DEF Spec

LEMMA Invariant == GraceBelowADay => (Spec => []IInv)
<1> SUFFICES ASSUME GraceBelowADay PROVE Spec => []IInv
  OBVIOUS
<1>1. IInv /\ [Next]_vars => IInv'
  BY StepIInv
<1> QED
  BY <1>1, InitIInv, PTL DEF Spec

\* No summary is sent twice for one date, for any calendar, any edits and any
\* crashes, as long as the grace reaches less far back than a day.
THEOREM SentAtMostOnce == GraceBelowADay => (Spec => []AtMostOncePerSlot)
<1>1. IInv => AtMostOncePerSlot
  BY DEF IInv
<1> QED
  BY <1>1, Invariant, PTL

\* Saving a schedule never makes the ticker send a slot that was already past.
THEOREM SavingSendsNothing == GraceBelowADay => (Spec => NeverOnSave)
<1> SUFFICES ASSUME GraceBelowADay PROVE Spec => NeverOnSave
  OBVIOUS
<1> DEFINE Step == \A s \in Schedule, d \in Day : Sends(s, d) =>
                     LET slot == SlotAt[d][config[s].tod] IN
                     \/ slot >= config[s].since \/ SameMinute(tickAt, slot)
                     \/ config[s].since >= tickAt
<1>1. IInv /\ [Next]_vars => [Step]_vars
  <2> SUFFICES ASSUME IInv, Next, NEW s \in Schedule, NEW d \in Day, Sends(s, d)
               PROVE  LET slot == SlotAt[d][config[s].tod] IN
                      \/ slot >= config[s].since \/ SameMinute(tickAt, slot)
                      \/ config[s].since >= tickAt
    OBVIOUS
  <2>1. sent[s][d] \in Nat /\ sent'[s][d] > sent[s][d]
    BY DEF IInv, TypeOK, Sends
  <2>2. sent' # sent
    BY <2>1
  <2>3. Fire
    BY <2>2 DEF Next, Tick, Admin, TickBegin, LoadCandidates, LoadFails, TickEnd, Skip, MarkFails,
                MarkFired, UpdateSchedule, DeleteSchedule, Crash, Restart, Minute
  <2>4. pc = "firing" /\ firing \in [id : Schedule, day : Day]
    BY <2>3 DEF Fire, IInv, TypeOK
  <2>5. firing.id = s /\ firing.day = d
    BY <2>1, <2>3, <2>4 DEF Fire, IInv, TypeOK
  <2> QED
    BY <2>4, <2>5 DEF IInv, FiringInv
<1>2. Spec => []IInv
  BY Invariant
<1>3. NeverOnSave <=> [][Step]_vars
  BY DEF NeverOnSave
<1> QED
  BY <1>1, <1>2, <1>3, PTL DEF Spec

----------------------------------------------------------------------------
(* No slot is lost within the grace.                                       *)
(*                                                                         *)
(* A clean tick looks at every schedule that was enabled when it began.    *)
(* Between two clean ticks passes no more than Outage, so what came due    *)
(* since the last one is within the grace of this one, on this date or the *)
(* one before: whoever has been looked at is spent up to the tick (Spent), *)
(* and whoever has not is still a candidate.                               *)

\* With shape c and marker mk, every slot up to t is spent.
Spent(c, mk, t) ==
  \A d \in Day :
    c.enabled /\ d \in c.days /\ c.since < SlotAt[d][c.tod] /\ SlotAt[d][c.tod] <= t => mk >= d

Considered(s) == Spent(config[s], marker[s], tickAt)

KeptInv ==
  /\ now - lastClean <= Outage
  /\ \A s \in Schedule \ deleted : Spent(config[s], marker[s], lastClean)
  /\ pc \in {"looping", "firing"} /\ clean =>
       \A s \in Schedule \ deleted : Considered(s) \/ \E x \in todo : x.id = s

\* A slot within the grace of a tick lies on its date or on the one before.
LEMMA InReach ==
  ASSUME GraceBelowADay, NEW t \in Instant, NEW d \in Day, NEW m \in Tod,
         SlotAt[d][m] <= t, t - SlotAt[d][m] <= Grace
  PROVE  /\ d = LocalDay(t) \/ d = LocalDay(t) - 1
         /\ d # LocalDay(t) => SlotAt[d][m] < t /\ Grace > 0
<1> DEFINE date == LocalDay(t)
<1>1. /\ LocalDay(SlotAt[d][m]) = d /\ SlotAt[d][m] \in Instant /\ SlotAt[d][m] \in Int
      /\ t \in Int /\ d \in Int /\ date \in Int /\ date \in Day /\ Grace \in Nat
  BY DateAssumption, Calendar
<1>2. d <= date
  BY <1>1, DateAssumption
<1>3. d >= date - 1
  <2> SUFFICES ASSUME d < date - 1 PROVE FALSE
    BY <1>1
  <2>1. /\ d + 1 \in Day /\ d + 1 \in Day \ {0} /\ (d + 1) - 1 = d
    BY <1>1, CalendarAssumption DEF Day
  <2> DEFINE next == SlotAt[d + 1][m]
  <2>2. next \in Instant /\ next \in Int /\ LocalDay(next) = d + 1
    BY <2>1, DateAssumption, Calendar
  <2>3. next < t
    <3> SUFFICES ASSUME t <= next PROVE FALSE
      BY <1>1, <2>2
    <3>1. date <= d + 1
      BY <2>2, DateAssumption
    <3> QED BY <3>1, <1>1
  <2>4. next - SlotAt[(d + 1) - 1][m] > Grace
    BY <2>1, <2>2 DEF GraceBelowADay
  <2> QED
    BY <1>1, <2>1, <2>2, <2>3, <2>4
<1>4. ASSUME d # date PROVE SlotAt[d][m] < t /\ Grace > 0
  <2>1. SlotAt[d][m] # t
    BY <1>1, <1>4
  <2> QED BY <1>1, <2>1
<1> QED
  BY <1>1, <1>2, <1>3, <1>4

\* Whoever the tick has looked at is spent up to the tick: passed over because
\* nothing was due, or marked for the date that was.
LEMMA LookedAt ==
  ASSUME GraceBelowADay, Outage <= Grace + 1, IInv, KeptInv,
         NEW x \in todo, x.id \notin deleted, NEW mk \in Day \cup {Never},
         \/ mk = marker[x.id] /\ \A d \in Day : ~ DueDay(x, d)
         \/ mk \in Day /\ DueDay(x, mk)
  PROVE  Spent(config[x.id], mk, tickAt)
<1> DEFINE c == config[x.id]
           date == LocalDay(tickAt)
<1>1. /\ TypeOK /\ MarkerInv /\ TodoInv
      /\ x.id \in Schedule /\ c \in Config /\ c.tod \in Tod /\ c.since \in Instant
      /\ x.marker = marker[x.id] /\ marker[x.id] \in Day \cup {Never}
      /\ tickAt \in Instant /\ lastClean \in Instant /\ now \in Instant /\ tickAt <= now
      /\ date \in Day
  BY DateAssumption DEF IInv, TypeOK, Config, TodoInv
<1>n. /\ c.since \in Int /\ tickAt \in Int /\ lastClean \in Int /\ now \in Int
      /\ date \in Int /\ marker[x.id] \in Int /\ mk \in Int /\ Outage \in Int /\ Grace \in Int
  BY <1>1, Calendar, GraceAssumption DEF Day, Never
<1>2. mk >= marker[x.id]
  <2>1. CASE mk = marker[x.id]
    BY <2>1, <1>n
  <2>2. CASE mk \in Day /\ DueDay(x, mk)
    BY <2>2, <1>1, <1>n, DueAdvances
  <2> QED BY <2>1, <2>2
<1> SUFFICES ASSUME NEW d \in Day, c.enabled, d \in c.days, c.since < SlotAt[d][c.tod],
                    SlotAt[d][c.tod] <= tickAt
             PROVE  mk >= d
  BY DEF Spent
<1> DEFINE slot == SlotAt[d][c.tod]
<1>3. slot \in Int /\ d \in Int
  BY <1>1, Calendar
<1>4. CASE slot <= lastClean
  <2>1. marker[x.id] >= d
    BY <1>1, <1>4 DEF KeptInv, Spent
  <2> QED BY <2>1, <1>2, <1>3, <1>n
<1>5. CASE slot > lastClean
  <2>1. x.config = c
    BY <1>1, <1>n, <1>3 DEF TodoInv
  <2>2. tickAt - slot <= Grace
    BY <1>5, <1>1, <1>n, <1>3 DEF KeptInv
  <2>3. /\ d = date \/ d = date - 1
        /\ d # date => slot < tickAt /\ Grace > 0
    BY <1>1, <2>2, InReach
  <2>4. x.marker # d => DueOn(x, d)
    <3>1. CASE slot = tickAt
      BY <3>1, <2>1 DEF DueOn, SameMinute
    <3>2. CASE slot < tickAt
      <4>1. tickAt > slot /\ c.since <= slot /\ Grace > 0 /\ tickAt - slot <= Grace
        BY <3>2, <2>2, <1>n, <1>3
      <4> QED
        BY <4>1, <2>1 DEF DueOn
    <3> QED
      BY <3>1, <3>2, <1>n, <1>3
  <2>5. CASE mk = marker[x.id] /\ \A e \in Day : ~ DueDay(x, e)
    <3>1. ~ DueOn(x, date)
      BY <2>5, <1>1 DEF DueDay
    <3>2. ~ DueOn(x, d)
      <4>1. CASE d = date
        BY <3>1, <4>1
      <4>2. CASE d # date
        BY <3>1, <4>2, <2>3, <2>5 DEF DueDay
      <4> QED BY <4>1, <4>2
    <3>3. mk = d
      BY <2>4, <2>5, <3>2, <1>1
    <3> QED BY <3>3, <1>3
  <2>6. CASE mk \in Day /\ DueDay(x, mk)
    <3>1. mk = date \/ (mk = date - 1 /\ ~ DueOn(x, date))
      BY <2>6 DEF DueDay
    <3>2. CASE mk = date
      BY <3>2, <2>3, <1>n, <1>3
    <3>3. CASE mk = date - 1 /\ ~ DueOn(x, date)
      <4>1. mk > marker[x.id]
        BY <2>6, <1>1, DueAdvances
      <4>2. d # date
        BY <2>4, <3>3, <4>1, <1>1, <1>n
      <4> QED
        BY <4>2, <3>3, <2>3, <1>n
    <3> QED BY <3>1, <3>2, <3>3
  <2> QED BY <2>5, <2>6
<1> QED
  BY <1>4, <1>5, <1>3, <1>n

\* A schedule that changes now has no slot of its new shape behind it.
LEMMA EditSpends ==
  ASSUME TypeOK, NEW c \in Config, c.since = now, NEW mk, NEW t \in Instant, t <= now
  PROVE  Spent(c, mk, t)
<1>1. \A d \in Day : SlotAt[d][c.tod] \in Int
  BY Calendar DEF Config
<1>2. now \in Int /\ t \in Int
  BY Calendar DEF TypeOK
<1> QED
  BY <1>1, <1>2 DEF Spent

\* The grace outlives the outage, and so nothing is lost in it.
LEMMA KeptStep ==
  ASSUME GraceBelowADay, Outage <= Grace + 1, IInv, IInv', KeptInv, [Next]_vars
  PROVE  KeptInv'
<1>0. /\ TypeOK /\ TypeOK' /\ now \in Instant /\ lastClean \in Instant /\ tickAt \in Instant
      /\ now \in Int /\ lastClean \in Int /\ tickAt \in Int /\ Outage \in Int
      /\ lastClean <= tickAt /\ tickAt <= now
  BY Calendar, GraceAssumption DEF IInv, TypeOK
<1>1. ASSUME UNCHANGED <<config, marker, lastClean, tickAt>>, deleted \subseteq deleted',
             now' - lastClean <= Outage,
             pc' \in {"looping", "firing"} /\ clean' =>
               /\ pc \in {"looping", "firing"} /\ clean
               /\ \A x \in todo \ todo' : x.id \notin deleted => Considered(x.id)
      PROVE  KeptInv'
  <2>1. \A s \in Schedule \ deleted' : Spent(config'[s], marker'[s], lastClean')
    BY <1>1 DEF KeptInv
  <2>2. ASSUME pc' \in {"looping", "firing"}, clean', NEW s \in Schedule \ deleted'
        PROVE  Spent(config'[s], marker'[s], tickAt') \/ \E x \in todo' : x.id = s
    <3>1. s \notin deleted /\ (Considered(s) \/ \E x \in todo : x.id = s)
      BY <1>1, <2>2 DEF KeptInv
    <3>2. ASSUME NEW x \in todo, x.id = s
          PROVE  Considered(s) \/ \E y \in todo' : y.id = s
      BY <1>1, <2>2, <3>1, <3>2
    <3> QED
      BY <1>1, <3>1, <3>2 DEF Considered
  <2> QED
    BY <1>1, <2>1, <2>2 DEF KeptInv, Considered
<1>2. CASE TickBegin
  <2>1. /\ UNCHANGED <<config, marker, deleted, lastClean, now>> /\ pc' = "began"
    BY <1>2 DEF TickBegin
  <2> QED
    BY <2>1 DEF KeptInv
<1>3. CASE LoadCandidates
  <2>1. /\ UNCHANGED <<config, marker, deleted, lastClean, now, tickAt>> /\ todo' = Candidates
    BY <1>3 DEF LoadCandidates
  <2>2. ASSUME NEW s \in Schedule \ deleted
        PROVE  Spent(config[s], marker[s], tickAt) \/ \E x \in Candidates : x.id = s
    <3>1. CASE config[s].enabled
      <4>1. Candidate(s) \in Candidates
        BY <3>1 DEF Candidates
      <4>2. Candidate(s).id = s
        BY DEF Candidate
      <4> QED BY <4>1, <4>2
    <3>2. CASE ~ config[s].enabled
      BY <3>2 DEF Spent
    <3> QED BY <3>1, <3>2
  <2> QED
    BY <2>1, <2>2 DEF KeptInv, Considered
<1>4. ASSUME NEW x \in todo, NEW d \in Day, MarkFired(x, d) PROVE KeptInv'
  <2>1. /\ UNCHANGED <<config, deleted, lastClean, now, tickAt, clean>> /\ DueDay(x, d)
        /\ pc = "looping" /\ todo' = todo \ {x}
        /\ marker' = IF x.id \in deleted THEN marker ELSE [marker EXCEPT ![x.id] = d]
    BY <1>4 DEF MarkFired
  <2>2. /\ x.id \in Schedule /\ \A s \in Schedule : s # x.id => marker'[s] = marker[s]
        /\ x.id \notin deleted => marker'[x.id] = d
        /\ marker[x.id] \in Int /\ d \in Int /\ d > marker[x.id]
    <3>1. x.id \in Schedule /\ marker \in [Schedule -> Day \cup {Never}]
      BY <1>0 DEF TypeOK
    <3>2. d > marker[x.id]
      BY <2>1, DueAdvances DEF IInv
    <3>3. marker[x.id] \in Int /\ d \in Int
      BY <3>1, Calendar DEF Never
    <3> QED
      BY <2>1, <3>1, <3>2, <3>3
  <2>3. x.id \notin deleted => Spent(config[x.id], d, tickAt)
    BY <2>1, LookedAt
  <2>4. x.id \notin deleted => Spent(config[x.id], d, lastClean)
    <3>1. x.id \notin deleted => Spent(config[x.id], marker[x.id], lastClean)
      BY <2>2 DEF KeptInv
    <3>2. \A e \in Day : e \in Int
      BY Calendar
    <3> QED
      BY <2>2, <3>1, <3>2 DEF Spent
  <2>5. \A s \in Schedule \ deleted : Spent(config[s], marker'[s], lastClean)
    BY <2>2, <2>4 DEF KeptInv
  <2>6. ASSUME clean, NEW s \in Schedule \ deleted
        PROVE  Spent(config[s], marker'[s], tickAt) \/ \E y \in todo' : y.id = s
    <3>1. CASE s = x.id
      BY <3>1, <2>2, <2>3
    <3>2. CASE s # x.id
      <4>1. Considered(s) \/ \E y \in todo : y.id = s
        BY <2>1, <2>6 DEF KeptInv
      <4> QED
        BY <4>1, <3>2, <2>1, <2>2 DEF Considered
    <3> QED BY <3>1, <3>2
  <2> QED
    BY <2>1, <2>5, <2>6 DEF KeptInv, Considered
<1>5. ASSUME NEW x \in todo, Skip(x) PROVE KeptInv'
  <2>1. /\ UNCHANGED <<config, marker, deleted, lastClean, tickAt, now, pc, clean>>
        /\ todo' = todo \ {x} /\ \A d \in Day : ~ DueDay(x, d)
    BY <1>5 DEF Skip
  <2>2. marker[x.id] \in Day \cup {Never}
    BY <1>0 DEF TypeOK
  <2>3. x.id \notin deleted => Considered(x.id)
    BY <2>1, <2>2, LookedAt DEF Considered
  <2>4. now' - lastClean <= Outage
    BY <2>1 DEF KeptInv
  <2> QED
    BY <1>1, <2>1, <2>3, <2>4
<1>6. CASE TickEnd
  <2>1. /\ UNCHANGED <<config, marker, deleted, now>> /\ pc' = "idle" /\ pc = "looping" /\ todo = {}
        /\ lastClean' = IF clean THEN tickAt ELSE lastClean
    BY <1>6 DEF TickEnd
  <2>2. now' - lastClean' <= Outage
    BY <2>1, <1>0 DEF KeptInv
  <2>3. \A s \in Schedule \ deleted : Spent(config[s], marker[s], lastClean')
    BY <2>1 DEF KeptInv, Considered
  <2> QED
    BY <2>1, <2>2, <2>3 DEF KeptInv
<1>7. ASSUME NEW s \in Schedule, UpdateSchedule(s) PROVE KeptInv'
  <2>1. PICK c \in Config : c.since = now /\ config' = [config EXCEPT ![s] = c]
    BY <1>7 DEF UpdateSchedule
  <2>2. UNCHANGED <<now, marker, deleted, tickAt, lastClean, pc, clean, todo>>
    BY <1>7 DEF UpdateSchedule, tickVars
  <2>3. /\ config'[s] = c /\ \A r \in Schedule : r # s => config'[r] = config[r]
    BY <2>1, <1>0 DEF TypeOK
  <2>4. Spent(c, marker[s], lastClean) /\ Spent(c, marker[s], tickAt)
    BY <2>1, <1>0, EditSpends
  <2>5. \A r \in Schedule \ deleted : Spent(config'[r], marker[r], lastClean)
    BY <2>3, <2>4 DEF KeptInv
  <2>6. pc \in {"looping", "firing"} /\ clean =>
          \A r \in Schedule \ deleted :
            Spent(config'[r], marker[r], tickAt) \/ \E x \in todo : x.id = r
    BY <2>3, <2>4 DEF KeptInv, Considered
  <2> QED
    BY <2>2, <2>5, <2>6 DEF KeptInv, Considered
<1>8. CASE Minute
  <2>1. /\ UNCHANGED <<config, marker, deleted, lastClean, tickAt, pc, clean, todo>>
        /\ now' - lastClean <= Outage
    BY <1>8, <1>0 DEF Minute, tickVars
  <2> QED
    BY <1>1, <2>1
<1>9. CASE LoadFails \/ Crash \/ Restart \/ Fire \/ UNCHANGED vars
  <2>1. /\ UNCHANGED <<config, marker, deleted, lastClean, tickAt, now>>
        /\ pc' \in {"looping", "firing"} => pc \in {"looping", "firing"} /\ UNCHANGED <<clean, todo>>
    BY <1>9 DEF LoadFails, Crash, Restart, Fire, vars, tickVars
  <2>2. now' - lastClean <= Outage
    BY <2>1 DEF KeptInv
  <2> QED
    BY <1>1, <2>1, <2>2
<1>10. ASSUME NEW x \in todo, MarkFails(x) PROVE KeptInv'
  <2>1. UNCHANGED <<config, marker, deleted, lastClean, tickAt, now>> /\ clean' = FALSE
    BY <1>10 DEF MarkFails
  <2>2. now' - lastClean <= Outage
    BY <2>1 DEF KeptInv
  <2> QED
    BY <1>1, <2>1, <2>2
<1>11. ASSUME NEW s \in Schedule, DeleteSchedule(s) PROVE KeptInv'
  <2>1. /\ UNCHANGED <<config, marker, lastClean, tickAt, now, pc, clean, todo>>
        /\ deleted \subseteq deleted'
    BY <1>11 DEF DeleteSchedule, tickVars
  <2>2. now' - lastClean <= Outage
    BY <2>1 DEF KeptInv
  <2> QED
    BY <1>1, <2>1, <2>2
<1> QED
  BY <1>2, <1>3, <1>4, <1>5, <1>6, <1>7, <1>8, <1>9, <1>10, <1>11 DEF Next, Tick, Admin

LEMMA KeptInit == ASSUME Init PROVE KeptInv
<1>1. /\ now = 0 /\ lastClean = 0 /\ pc = "idle" /\ Outage \in Nat
      /\ config \in [Schedule -> Config] /\ \A s \in Schedule : config[s].since = 0
  BY GraceAssumption DEF Init
<1>2. TypeOK /\ 0 \in Instant
  BY InitIInv, CalendarAssumption DEF IInv, Instant
<1>3. \A s \in Schedule : Spent(config[s], marker[s], lastClean)
  BY <1>1, <1>2, EditSpends
<1> QED
  BY <1>1, <1>3 DEF KeptInv

\* No slot is lost to an outage: for any calendar, edits, crashes and failed store
\* calls, as long as the ticker completes a clean tick within the grace, and the
\* grace reaches less far back than a day.
THEOREM NoSlotIsLost ==
  GraceBelowADay /\ Outage <= Grace + 1 => (Spec => []SlotsKept)
<1> SUFFICES ASSUME GraceBelowADay, Outage <= Grace + 1 PROVE Spec => []SlotsKept
  OBVIOUS
<1>1. Init => IInv /\ KeptInv
  BY InitIInv, KeptInit
<1>2. IInv /\ KeptInv /\ [Next]_vars => IInv' /\ KeptInv'
  BY StepIInv, KeptStep
<1>3. KeptInv => SlotsKept
  BY DEF KeptInv, SlotsKept, Spent
<1> QED
  BY <1>1, <1>2, <1>3, PTL DEF Spec
-----------------------------------------------------------------------------
(* The push channel. *)


-----------------------------------------------------------------------------
(* The inductive invariant. *)

(***************************************************************************)
(* Ids are never reused: a delivery whose row is still there is a delivery *)
(* to that row's endpoint, and no two rows share an id.                    *)
(***************************************************************************)
IdsNameRows ==
  /\ \A e \in Endpoint : subs[e] # None => subs[e].id <= lastId
  /\ \A e, f \in Endpoint : subs[e] # None /\ subs[f] # None /\ subs[e].id = subs[f].id => e = f
  /\ \A s \in Sender : \A d \in sends[s] :
       /\ d.id <= lastId
       /\ \A e \in Endpoint : IsRow(e, d.id) => e = d.endpoint

\* A streak starts after the last good thing recorded of the row, and not in the future.
Honest(row) == row.failing # None => row.good <= row.failing

StreaksAreHonest ==
  /\ \A e \in Endpoint : subs[e] # None => subs[e].good <= today /\ Honest(subs[e])
  /\ \A s \in Sender : \A d \in sends[s] : Honest(d)

OwnersHold ==
  /\ \A e \in Endpoint : subs[e] # None => subs[e].owner = holder[e]
  /\ \A s \in Sender : \A d \in sends[s] : d.hands <= hands[d.endpoint]

GoneIsKnown == \A s \in Sender : \A d \in sends[s] : d.answer = "gone" => d.endpoint \in gone

PushInv == PushTypeOK /\ IdsNameRows /\ StreaksAreHonest /\ OwnersHold /\ GoneIsKnown /\ HeardByItsHolder

-----------------------------------------------------------------------------

(***************************************************************************)
(* What an answer writes: each row is dropped, or kept with its id and its *)
(* owner and a streak that is as honest as before.                         *)
(***************************************************************************)
LEMMA AppliedRows ==
  ASSUME PushTypeOK, StreaksAreHonest, NEW d \in Delivery, d.answer # "none"
  PROVE  /\ Applied(d) \in [Endpoint -> Row \cup {None}]
         /\ \A e \in Endpoint :
              \/ Applied(d)[e] = None
              \/ /\ subs[e] # None
                 /\ Applied(d)[e].id = subs[e].id /\ Applied(d)[e].owner = subs[e].owner
                 /\ Applied(d)[e].good <= today /\ Honest(Applied(d)[e])
PROOF
<1> USE PushAssumption
<1> DEFINE A == Applied(d)
<1>1. CASE d.answer = "gone" \/ (d.answer = "failed" /\ FailedTooLong(d))
  <2>1. A = DeleteSubscriptionByID(d)
    BY <1>1 DEF Applied
  <2> QED BY <2>1 DEF DeleteSubscriptionByID, PushTypeOK, StreaksAreHonest
<1>2. CASE d.answer = "ok"
  <2>1. A = ClearFailing(d)
    BY <1>2 DEF Applied
  <2>2. A \in [Endpoint -> Row \cup {None}]
    BY <2>1 DEF ClearFailing, PushTypeOK, Row, IsRow
  <2>3. ASSUME NEW e \in Endpoint, A[e] # None
        PROVE  /\ subs[e] # None /\ A[e].id = subs[e].id /\ A[e].owner = subs[e].owner
               /\ A[e].good <= today /\ Honest(A[e])
    <3>1. CASE IsRow(e, d.id)
      <4>1. A[e] = [subs[e] EXCEPT !.failing = None, !.good = today]
        BY <2>1, <3>1 DEF ClearFailing
      <4>2. subs[e] # None /\ subs[e] \in Row /\ today \in Nat
        BY <3>1 DEF IsRow, PushTypeOK
      <4>3. A[e].id = subs[e].id /\ A[e].owner = subs[e].owner /\ A[e].failing = None /\ A[e].good = today
        BY <4>1, <4>2 DEF Row
      <4> QED BY <4>2, <4>3 DEF Honest
    <3>2. CASE ~IsRow(e, d.id)
      BY <2>1, <2>3, <3>2 DEF ClearFailing, StreaksAreHonest
    <3> QED BY <3>1, <3>2
  <2> QED BY <2>2, <2>3
<1>3. CASE d.answer = "failed" /\ ~FailedTooLong(d)
  <2>1. A = MarkFailing(d)
    BY <1>3 DEF Applied
  <2>2. A \in [Endpoint -> Row \cup {None}]
    BY <2>1 DEF MarkFailing, PushTypeOK, Row, IsRow
  <2>3. ASSUME NEW e \in Endpoint, A[e] # None
        PROVE  /\ subs[e] # None /\ A[e].id = subs[e].id /\ A[e].owner = subs[e].owner
               /\ A[e].good <= today /\ Honest(A[e])
    BY <2>1, <2>3 DEF MarkFailing, PushTypeOK, Row, IsRow, StreaksAreHonest, Honest
  <2> QED BY <2>2, <2>3
<1> QED BY <1>1, <1>2, <1>3 DEF Delivery, Answer

LEMMA InitInv == PushInit => PushInv
PROOF
  BY PushAssumption
  DEF PushInit, PushInv, PushTypeOK, IdsNameRows, StreaksAreHonest, OwnersHold, GoneIsKnown, HeardByItsHolder, Honest

\* A member asks to be notified on a device.
LEMMA SubscribeInv ==
  ASSUME PushInv, NEW u \in Member, NEW e \in Endpoint, Subscribe(u, e)
  PROVE  PushInv'
PROOF
<1> USE PushAssumption
<1> DEFINE R == subs'[e]
<1>0. /\ R \in Row /\ R.owner = u /\ R.failing = None /\ R.good = today
      /\ subs' = [subs EXCEPT ![e] = R]
      /\ \/ subs[e] # None /\ R.id = subs[e].id /\ lastId' = lastId
         \/ subs[e] = None /\ R.id = lastId + 1 /\ lastId' = lastId + 1
      /\ lastId \in Nat /\ lastId' \in 0..MaxId
  <2>1. CASE subs[e] = None
    BY <2>1 DEF PushInv, PushTypeOK, Subscribe, Upsert, Row
  <2>2. CASE subs[e] # None
    <3>1. subs[e] \in Row /\ lastId' = lastId /\ subs' = [subs EXCEPT ![e] = Refreshed(subs[e], u)]
      BY <2>2 DEF PushInv, PushTypeOK, Subscribe, Upsert
    <3>2. R = Refreshed(subs[e], u)
      BY <3>1 DEF PushInv, PushTypeOK
    <3>3. R \in Row /\ R.owner = u /\ R.failing = None /\ R.good = today /\ R.id = subs[e].id
      BY <3>1, <3>2 DEF Refreshed, Row, PushInv, PushTypeOK
    <3> QED BY <2>2, <3>1, <3>2, <3>3 DEF PushInv, PushTypeOK
  <2> QED BY <2>1, <2>2
<1> HIDE DEF R
<1>a. /\ \A f \in Endpoint : subs'[f] = IF f = e THEN R ELSE subs[f]
      /\ UNCHANGED <<today, muted, gone, sends>>
      /\ holder' = [holder EXCEPT ![e] = u]
      /\ hands' \in [Endpoint -> Nat] /\ \A f \in Endpoint : hands[f] <= hands'[f]
      /\ holder[e] = u \/ hands'[e] > hands[e]
      /\ \A f \in Endpoint \ {e} : hands'[f] = hands[f]
  BY <1>0 DEF PushInv, PushTypeOK, Subscribe, Change
<1>1. PushTypeOK'
  BY <1>0, <1>a DEF PushInv, PushTypeOK
<1>2. IdsNameRows'
  <2>1. \A f \in Endpoint : subs[f] # None => subs[f].id \in Nat
    BY DEF PushInv, PushTypeOK, Row
  <2>2. \A s \in Sender : \A d \in sends[s] : d.id \in Nat
    BY DEF PushInv, PushTypeOK, Delivery
  <2> QED BY <1>0, <1>a, <2>1, <2>2 DEF PushInv, IdsNameRows, IsRow
<1>3. StreaksAreHonest'
  BY <1>0, <1>a DEF PushInv, PushTypeOK, StreaksAreHonest, Honest
<1>4. OwnersHold' /\ GoneIsKnown' /\ HeardByItsHolder'
  <2>1. \A s \in Sender : \A d \in sends[s] : d.hands \in Nat /\ d.endpoint \in Endpoint
    BY DEF PushInv, PushTypeOK, Delivery
  <2>2. hands \in [Endpoint -> Nat] /\ holder \in [Endpoint -> Member \cup {None}]
    BY DEF PushInv, PushTypeOK
  <2>3. OwnersHold' /\ GoneIsKnown'
    BY <1>0, <1>a, <2>1, <2>2 DEF PushInv, OwnersHold, GoneIsKnown
  <2>4. HeardByItsHolder'
    BY <1>a, <2>1, <2>2 DEF PushInv, OwnersHold, HeardByItsHolder
  <2> QED BY <2>3, <2>4
<1> QED BY <1>1, <1>2, <1>3, <1>4 DEF PushInv

\* A member takes a device back.
LEMMA UnsubscribeInv ==
  ASSUME PushInv, NEW u \in Member, NEW e \in Endpoint, Unsubscribe(u, e)
  PROVE  PushInv'
PROOF
<1> USE PushAssumption
<1>1. PushTypeOK'
  BY DEF PushInv, PushTypeOK, Unsubscribe, Change, Row
<1>2. IdsNameRows' /\ StreaksAreHonest'
  BY DEF PushInv, PushTypeOK, IdsNameRows, StreaksAreHonest, Unsubscribe, IsRow, Delivery
<1>3. OwnersHold' /\ GoneIsKnown' /\ HeardByItsHolder'
  BY DEF PushInv, PushTypeOK, OwnersHold, GoneIsKnown, HeardByItsHolder, Unsubscribe, Change, Row, Delivery
<1> QED BY <1>1, <1>2, <1>3 DEF PushInv

\* A send resolves its targets.
LEMMA SendInv ==
  ASSUME PushInv, NEW s \in Sender, NEW recipients \in SUBSET Member, NEW bypassMutes \in BOOLEAN,
         Send(s, recipients, bypassMutes)
  PROVE  PushInv'
PROOF
<1> USE PushAssumption
<1> DEFINE T == EligibleSubscriptions(recipients, bypassMutes)
<1>1. \A e \in T : e \in Endpoint /\ subs[e] # None /\ subs[e] \in Row
  BY DEF EligibleSubscriptions, PushInv, PushTypeOK
<1>2. \A e \in T : Resolved(e) \in Delivery
  BY <1>1 DEF Resolved, Delivery, Row, PushInv, PushTypeOK, Answer
<1>3. \A r \in Sender : \A d \in sends'[r] : d \in sends[r] \/ \E e \in T : d = Resolved(e)
  BY DEF Send, PushInv, PushTypeOK
<1>4. UNCHANGED <<today, subs, lastId, muted, gone, holder, hands>>
  BY DEF Send
<1>5. PushTypeOK'
  <2>1. sends' \in [Sender -> SUBSET Delivery]
    BY <1>2 DEF Send, PushInv, PushTypeOK
  <2> QED BY <2>1, <1>4 DEF PushInv, PushTypeOK
<1>6. IdsNameRows'
  <2>1. ASSUME NEW r \in Sender, NEW d \in sends'[r]
        PROVE  d.id <= lastId /\ \A e \in Endpoint : IsRow(e, d.id) => e = d.endpoint
    <3>1. CASE d \in sends[r]
      BY <3>1 DEF PushInv, IdsNameRows
    <3>2. CASE \E e \in T : d = Resolved(e)
      BY <3>2, <1>1 DEF PushInv, IdsNameRows, Resolved, IsRow
    <3> QED BY <2>1, <1>3, <3>1, <3>2
  <2> QED BY <2>1, <1>4 DEF PushInv, IdsNameRows, IsRow
<1>7. StreaksAreHonest'
  <2>1. ASSUME NEW r \in Sender, NEW d \in sends'[r]
        PROVE  Honest(d)
    BY <2>1, <1>1, <1>3 DEF PushInv, StreaksAreHonest, Resolved, Honest
  <2> QED BY <2>1, <1>4 DEF PushInv, StreaksAreHonest
<1>8. OwnersHold' /\ GoneIsKnown' /\ HeardByItsHolder'
  <2>1. ASSUME NEW r \in Sender, NEW d \in sends'[r]
        PROVE  /\ d.hands <= hands[d.endpoint]
               /\ d.answer = "gone" => d.endpoint \in gone
               /\ d.hands = hands[d.endpoint] => d.owner = holder[d.endpoint]
    BY <2>1, <1>1, <1>3 DEF PushInv, PushTypeOK, OwnersHold, GoneIsKnown, HeardByItsHolder, Resolved
  <2> QED BY <2>1, <1>4 DEF PushInv, OwnersHold, GoneIsKnown, HeardByItsHolder
<1> QED BY <1>5, <1>6, <1>7, <1>8 DEF PushInv

\* A worker posts and is answered: the delivery only gains its answer.
LEMMA PostInv ==
  ASSUME PushInv, NEW s \in Sender, NEW d \in sends[s], NEW answer \in Answer \ {"none"}, Post(s, d, answer)
  PROVE  PushInv'
PROOF
<1> USE PushAssumption
<1> DEFINE p == [d EXCEPT !.answer = answer]
<1>1. d \in Delivery /\ p \in Delivery
  BY DEF PushInv, PushTypeOK, Delivery
<1>2. /\ p.id = d.id /\ p.endpoint = d.endpoint /\ p.owner = d.owner /\ p.failing = d.failing
      /\ p.good = d.good /\ p.hands = d.hands /\ p.answer = answer
  BY <1>1 DEF Delivery
<1>3. \A r \in Sender : \A x \in sends'[r] : x \in sends[r] \/ (r = s /\ x = p)
  BY DEF Post, PushInv, PushTypeOK
<1>4. UNCHANGED <<today, subs, lastId, muted, gone, holder, hands>>
  BY DEF Post
<1>5. PushTypeOK'
  BY <1>1, <1>4 DEF Post, PushInv, PushTypeOK
<1>6. IdsNameRows'
  BY <1>2, <1>3, <1>4 DEF PushInv, IdsNameRows, IsRow
<1>7. StreaksAreHonest'
  BY <1>2, <1>3, <1>4 DEF PushInv, StreaksAreHonest, Honest
<1>8. OwnersHold' /\ GoneIsKnown' /\ HeardByItsHolder'
  <2>1. answer = "gone" => d.endpoint \in gone
    BY DEF Post
  <2>2. OwnersHold'
    BY <1>2, <1>3, <1>4 DEF PushInv, OwnersHold
  <2>3. GoneIsKnown'
    BY <1>2, <1>3, <1>4, <2>1 DEF PushInv, GoneIsKnown
  <2>4. HeardByItsHolder'
    <3>1. ASSUME NEW r \in Sender, NEW x \in sends'[r], x.hands = hands[x.endpoint]
          PROVE  x.owner = holder[x.endpoint]
      <4>1. CASE x \in sends[r]
        BY <3>1, <4>1 DEF PushInv, HeardByItsHolder
      <4>2. CASE x = p
        <5> HIDE DEF p
        <5>1. d.hands = hands[d.endpoint]
          BY <1>2, <3>1, <4>2
        <5> QED BY <1>2, <4>2, <5>1 DEF PushInv, HeardByItsHolder
      <4> QED BY <1>3, <3>1, <4>1, <4>2
    <3> QED BY <1>4, <3>1 DEF HeardByItsHolder
  <2> QED BY <2>2, <2>3, <2>4
<1> QED BY <1>5, <1>6, <1>7, <1>8 DEF PushInv

\* An answer is applied, or its write fails.
LEMMA FinishInv ==
  ASSUME PushInv, NEW s \in Sender, NEW d \in sends[s], Finish(s, d)
  PROVE  PushInv'
PROOF
<1> USE PushAssumption
<1>1. d \in Delivery /\ d.answer # "none"
  BY DEF PushInv, PushTypeOK, Finish
<1>2. \A r \in Sender : sends'[r] \subseteq sends[r]
  BY DEF Finish, PushInv, PushTypeOK
<1>3. UNCHANGED <<today, lastId, muted, gone, holder, hands>>
  BY DEF Finish
<1>4. /\ subs' \in [Endpoint -> Row \cup {None}]
      /\ \A e \in Endpoint :
           \/ subs'[e] = None
           \/ /\ subs[e] # None /\ subs'[e].id = subs[e].id /\ subs'[e].owner = subs[e].owner
              /\ subs'[e].good <= today /\ Honest(subs'[e])
  <2>1. CASE subs' = Applied(d)
    BY <2>1, <1>1, AppliedRows DEF PushInv
  <2>2. CASE subs' = subs
    BY <2>2 DEF PushInv, PushTypeOK, StreaksAreHonest
  <2> QED BY <2>1, <2>2 DEF Finish
<1>5. PushTypeOK'
  BY <1>3, <1>4 DEF PushInv, PushTypeOK, Finish
<1>6. IdsNameRows'
  BY <1>2, <1>3, <1>4 DEF PushInv, IdsNameRows, IsRow
<1>7. StreaksAreHonest'
  BY <1>2, <1>3, <1>4 DEF PushInv, StreaksAreHonest
<1>8. OwnersHold' /\ GoneIsKnown' /\ HeardByItsHolder'
  BY <1>2, <1>3, <1>4 DEF PushInv, OwnersHold, GoneIsKnown, HeardByItsHolder
<1> QED BY <1>5, <1>6, <1>7, <1>8 DEF PushInv

\* Preferences, days, endpoints given up, and a crash.
LEMMA WorldInv ==
  ASSUME PushInv,
         \/ \E u \in Member : UpdatePreferences(u)
         \/ \E e \in Endpoint : GiveUp(e)
         \/ DayPasses
         \/ PushCrash
         \/ UNCHANGED pushVars
  PROVE  PushInv'
PROOF
<1> USE PushAssumption DEF PushInv
<1>1. PushTypeOK'
  BY DEF PushTypeOK, UpdatePreferences, GiveUp, DayPasses, PushCrash, pushVars
<1>2. /\ UNCHANGED <<subs, lastId, holder, hands>> /\ gone \subseteq gone'
      /\ today \in Nat /\ today' \in Nat /\ today <= today'
      /\ \A s \in Sender : sends'[s] \subseteq sends[s]
  BY DEF PushTypeOK, UpdatePreferences, GiveUp, DayPasses, PushCrash, pushVars
<1>3. IdsNameRows'
  BY <1>2 DEF IdsNameRows, IsRow
<1>4. StreaksAreHonest'
  BY <1>2 DEF StreaksAreHonest, PushTypeOK, Row
<1>5. OwnersHold' /\ GoneIsKnown' /\ HeardByItsHolder'
  BY <1>2 DEF OwnersHold, GoneIsKnown, HeardByItsHolder
<1> QED BY <1>1, <1>3, <1>4, <1>5

(***************************************************************************)
(* The inductive step.                                                     *)
(***************************************************************************)
LEMMA NextInv == PushInv /\ [PushNext]_pushVars => PushInv'
PROOF
<1> SUFFICES ASSUME PushInv, [PushNext]_pushVars PROVE PushInv'
  OBVIOUS
<1>1. ASSUME NEW u \in Member, NEW e \in Endpoint, Subscribe(u, e) PROVE PushInv'
  BY <1>1, SubscribeInv
<1>2. ASSUME NEW u \in Member, NEW e \in Endpoint, Unsubscribe(u, e) PROVE PushInv'
  BY <1>2, UnsubscribeInv
<1>3. ASSUME NEW s \in Sender, NEW R \in SUBSET Member, NEW b \in BOOLEAN, Send(s, R, b) PROVE PushInv'
  BY <1>3, SendInv
<1>4. ASSUME NEW s \in Sender, NEW d \in sends[s], Finish(s, d) PROVE PushInv'
  BY <1>4, FinishInv
<1>5. ASSUME NEW s \in Sender, NEW d \in sends[s], NEW a \in Answer \ {"none"}, Post(s, d, a) PROVE PushInv'
  BY <1>5, PostInv
<1>6. CASE \/ \E u \in Member : UpdatePreferences(u)
           \/ \E e \in Endpoint : GiveUp(e)
           \/ DayPasses \/ PushCrash \/ UNCHANGED pushVars
  BY <1>6, WorldInv
<1> QED BY <1>1, <1>2, <1>3, <1>4, <1>5, <1>6 DEF PushNext

(***************************************************************************)
(* The invariant and its parts hold of every reachable state.              *)
(***************************************************************************)
THEOREM Invariance == PushSpec => []PushInv
PROOF BY InitInv, NextInv, PTL DEF PushSpec

(***************************************************************************)
(* Subscriptions and deliveries keep their types (store.go:25-36).         *)
(***************************************************************************)
THEOREM PushTypeCorrect == PushSpec => []PushTypeOK
PROOF BY Invariance, PTL DEF PushInv

(***************************************************************************)
(* What is under way to a device that did not change hands is for its      *)
(* holder (Upsert and Delete, store.go:99-156).                            *)
(***************************************************************************)
THEOREM HeardByHolder == PushSpec => []HeardByItsHolder
PROOF BY Invariance, PTL DEF PushInv

(***************************************************************************)
(* No subscription is pruned without a cause (push.go:321-387): whatever   *)
(* the order in which overlapping sends apply their answers, a row that is *)
(* dropped by a failure was resolved more than MaxFailDays after the last  *)
(* good thing recorded of it.                                              *)
(***************************************************************************)
THEOREM PrunedWithCause == PushSpec => PrunedForCause
PROOF
<1> DEFINE Kept ==
      \A e \in Endpoint :
        subs[e] # None /\ subs'[e] = None =>
          \/ holder'[e] = None
          \/ \E s \in Sender : \E d \in sends[s] \ sends'[s] :
               /\ d.id = subs[e].id
               /\ \/ d.answer = "gone" /\ e \in gone
                  \/ d.answer = "failed" /\ today - d.good > MaxFail
<1>1. PushInv /\ [PushNext]_pushVars => [Kept]_pushVars
  <2> SUFFICES ASSUME PushInv, PushNext, NEW e \in Endpoint, subs[e] # None, subs'[e] = None, holder'[e] # None
               PROVE  \E s \in Sender : \E d \in sends[s] \ sends'[s] :
                        /\ d.id = subs[e].id
                        /\ \/ d.answer = "gone" /\ e \in gone
                           \/ d.answer = "failed" /\ today - d.good > MaxFail
    OBVIOUS
  <2> USE PushAssumption
  <2>0. PushTypeOK
    BY DEF PushInv
  <2>a. \E s \in Sender : \E d \in sends[s] : Finish(s, d)
    <3>1. ASSUME NEW u \in Member, NEW f \in Endpoint, Subscribe(u, f) PROVE FALSE
      <4>1. subs'[f] \in Row /\ \A g \in Endpoint \ {f} : subs'[g] = subs[g]
        <5>1. CASE subs[f] = None
          BY <2>0, <3>1, <5>1 DEF Subscribe, Upsert, PushTypeOK, Row
        <5>2. CASE subs[f] # None
          <6>1. subs[f] \in Row /\ subs' = [subs EXCEPT ![f] = Refreshed(subs[f], u)]
            BY <2>0, <3>1, <5>2 DEF Subscribe, Upsert, PushTypeOK
          <6>2. Refreshed(subs[f], u) \in Row
            BY <2>0, <6>1 DEF Refreshed, Row, PushTypeOK
          <6> QED BY <2>0, <6>1, <6>2 DEF PushTypeOK
        <5> QED BY <5>1, <5>2
      <4> QED BY <4>1
    <3>2. ASSUME NEW u \in Member, NEW f \in Endpoint, Unsubscribe(u, f) PROVE FALSE
      BY <2>0, <3>2 DEF Unsubscribe, Change, PushTypeOK
    <3>3. ASSUME UNCHANGED subs PROVE FALSE
      BY <3>3
    <3> QED BY <3>1, <3>2, <3>3 DEF PushNext, Send, Post, UpdatePreferences, GiveUp, DayPasses, PushCrash
  <2>b. PICK s \in Sender : \E d \in sends[s] : Finish(s, d)
    BY <2>a
  <2>1. PICK d \in sends[s] : Finish(s, d)
    BY <2>b
  <2>2. d \in Delivery /\ d \notin sends'[s] /\ d.answer # "none" /\ subs' = Applied(d)
    BY <2>0, <2>1 DEF Finish, PushTypeOK
  <2>3. \/ d.answer = "gone" /\ subs' = DeleteSubscriptionByID(d)
        \/ d.answer = "failed" /\ FailedTooLong(d) /\ subs' = DeleteSubscriptionByID(d)
    <3>1. d.answer = "ok" => subs' = ClearFailing(d)
      BY <2>2 DEF Applied
    <3>2. d.answer = "failed" /\ ~FailedTooLong(d) => subs' = MarkFailing(d)
      BY <2>2 DEF Applied
    <3>3. subs' # ClearFailing(d) /\ subs' # MarkFailing(d)
      <4>1. CASE IsRow(e, d.id)
        <5>1. subs[e] \in Row /\ today \in 0..MaxClock
          BY <2>0, <4>1 DEF PushTypeOK, IsRow
        <5>2. [subs[e] EXCEPT !.failing = None, !.good = today] \in Row /\ [subs[e] EXCEPT !.failing = today] \in Row
          BY <5>1 DEF Row
        <5>3. ClearFailing(d)[e] \in Row
          BY <4>1, <5>2 DEF ClearFailing
        <5>4. MarkFailing(d)[e] \in Row
          BY <4>1, <5>1, <5>2 DEF MarkFailing
        <5> QED BY <5>3, <5>4
      <4>2. CASE ~IsRow(e, d.id)
        <5>1. ClearFailing(d)[e] = subs[e] /\ MarkFailing(d)[e] = subs[e]
          BY <4>2 DEF ClearFailing, MarkFailing
        <5> QED BY <5>1
      <4> QED BY <4>1, <4>2
    <3> QED BY <2>2, <3>1, <3>2, <3>3 DEF Applied, Delivery, Answer
  <2>4. IsRow(e, d.id)
    BY <2>3 DEF DeleteSubscriptionByID
  <2>5. e = d.endpoint /\ d.id = subs[e].id
    BY <2>4 DEF PushInv, IdsNameRows, IsRow
  <2>6. CASE d.answer = "gone"
    BY <2>2, <2>5, <2>6 DEF PushInv, GoneIsKnown
  <2>7. CASE d.answer = "failed"
    <3>1. d.failing \in Nat /\ d.good \in Nat /\ today \in Nat /\ d.good <= d.failing /\ today - d.failing > MaxFail
      BY <2>0, <2>2, <2>3, <2>7 DEF FailedTooLong, Delivery, PushTypeOK, PushInv, StreaksAreHonest, Honest
    <3>2. today - d.good > MaxFail
      BY <3>1
    <3> QED BY <2>2, <2>5, <2>7, <3>2
  <2> QED BY <2>3, <2>6, <2>7
<1> QED BY <1>1, Invariance, PTL DEF PushSpec, PrunedForCause
=============================================================================

----------------------------- MODULE MCDelivery -----------------------------
(***************************************************************************)
(* Instances for TLC of the two modules behind a notification that goes    *)
(* out: the scheduler of the daily summary and the web-push channel.  They *)
(* share no state; a behaviour moves the variables of one.                 *)
(*                                                                         *)
(* The scheduler's days have four wall-clock minutes: a plain day, a day   *)
(* one hour short and a day one hour long.                                 *)
(***************************************************************************)
EXTENDS SummaryScheduler, PushChannel, Sequences, TLC

CONSTANTS a, u1, u2, e1, e2, s1, s2

VARIABLE subject

DeliveryInit == subject \in {"summary", "push"} /\ Init /\ PushInit
DeliveryNext ==
  /\ UNCHANGED subject
  /\ \/ subject = "summary" /\ UNCHANGED pushVars /\ Next
     \/ subject = "push" /\ UNCHANGED vars /\ PushNext
DeliverySpec == DeliveryInit /\ [][DeliveryNext]_<<subject, vars, pushVars>>

\* Minute 1 is skipped on day 1 and shown twice on day 2.
WallClock == <<0, 1, 2, 3,  4, 6, 7,  8, 9, 9, 10, 11>>
LocalClock == [t \in 0..(Len(WallClock) - 1) |-> WallClock[t + 1]]

\* time.Date: of a repeated minute the later, for a skipped one the next there is.
LocalSlot ==
  [d \in 0..2 |-> [m \in {1, 3} |->
    LET T == DOMAIN LocalClock
        shown == {t \in T : LocalClock[t] = 4 * d + m}
    IN IF shown # {} THEN CHOOSE t \in shown : \A u \in shown : u <= t
       ELSE CHOOSE t \in T : /\ LocalClock[t] > 4 * d + m
                             /\ \A u \in T : u < t => LocalClock[u] < 4 * d + m]]

Daily    == 0..2
NotFirst == {1, 2}
SomePattern == {Daily, NotFirst}

Alike == Permutations(Member) \cup Permutations(Sender) \cup Permutations(Endpoint)

(***************************************************************************)
(* The scenes of the channel: overlapping sends to one device at a time,   *)
(* and, within a day, one send at a time to two devices, taken in turn by  *)
(* its worker.                                                             *)
(***************************************************************************)
OneScene ==
  \/ \E e \in Endpoint : \A f \in Endpoint \ {e} : subs[f] = None /\ f \notin gone
  \/ /\ \E s \in Sender : \A r \in Sender \ {s} : sends[r] = {}
     /\ today = 0 /\ muted = {}

(***************************************************************************)
(* A view without the numbers of the rows and of the changes of hands,     *)
(* both compared for equality only: of a delivery it keeps whether its row *)
(* is still there and whether the device is still in the same hands.       *)
(***************************************************************************)
Seen(d) ==
  <<d.endpoint, d.owner, d.failing, d.good, d.answer,
    IsRow(d.endpoint, d.id), d.hands = hands[d.endpoint]>>
PushView ==
  <<today, lastId, muted, gone, holder,
    [e \in Endpoint |-> IF subs[e] = None THEN None
                        ELSE <<subs[e].owner, subs[e].failing, subs[e].good>>],
    [s \in Sender |-> {Seen(d) : d \in sends[s]}]>>
DeliveryView == IF subject = "push" THEN PushView ELSE vars
=============================================================================

---------------------------- MODULE PushChannel ----------------------------
(***************************************************************************)
(* Web-push delivery (platform/push): the subscriptions of the household's *)
(* devices, and the sends that read them once, post to every device from a *)
(* pool of workers and then act on each answer - clearing or stamping the  *)
(* start of a failure streak, or pruning the subscription - by the row as  *)
(* it was when the send was resolved.                                      *)
(*                                                                         *)
(* Bounds, not in the code: MaxClock on the days that pass, MaxId on the   *)
(* rows inserted, and Sender, the sends that can be under way at once.     *)
(***************************************************************************)
EXTENDS Naturals, FiniteSets

CONSTANTS
  Member,
  Endpoint,   \* a browser's push endpoint: the key of a subscription
  Sender,
  Workers,    \* cfg.Workers: deliveries of one send in progress at once
  MaxFail,    \* cfg.MaxFailDays; 0 never prunes a failing device
  MaxClock,
  MaxId,
  None

Row == [id : 1..MaxId, owner : Member, failing : (0..MaxClock) \cup {None}, good : 0..MaxClock]

ASSUME PushAssumption ==
  /\ Workers \in Nat \ {0}
  /\ MaxFail \in Nat /\ MaxClock \in Nat /\ MaxId \in Nat
  /\ None \notin Member \cup Nat \cup Row

VARIABLES
  today,      \* in days
  subs,     \* push_subscriptions by endpoint; failing is failing_since, good
            \* is the last day something good was recorded of the row (history)
  lastId,
  muted,    \* members whose preferences mute the category of the sends
  gone,     \* endpoints the push service has given up
  sends,    \* the deliveries a send has left, as it resolved them
  holder,   \* who last asked to be notified on the device, None after they
            \* took it back (history)
  hands     \* how often that has changed (history)

pushVars == <<today, subs, lastId, muted, gone, sends, holder, hands>>

Answer == {"none", "ok", "failed", "gone"}
Delivery ==
  [id : 1..MaxId, endpoint : Endpoint, owner : Member, failing : (0..MaxClock) \cup {None},
   good : 0..MaxClock, hands : Nat, answer : Answer]

(***************************************************************************)
(* What each variable holds; a send resolves each endpoint at most once.   *)
(***************************************************************************)
PushTypeOK ==
  /\ today \in 0..MaxClock /\ lastId \in 0..MaxId
  /\ subs \in [Endpoint -> Row \cup {None}]
  /\ muted \subseteq Member /\ gone \subseteq Endpoint
  /\ sends \in [Sender -> SUBSET Delivery]
  /\ holder \in [Endpoint -> Member \cup {None}]
  /\ hands \in [Endpoint -> Nat]

PushInit ==
  /\ today = 0 /\ lastId = 0
  /\ subs = [e \in Endpoint |-> None]
  /\ muted = {} /\ gone = {}
  /\ sends = [s \in Sender |-> {}]
  /\ holder = [e \in Endpoint |-> None]
  /\ hands = [e \in Endpoint |-> 0]

-----------------------------------------------------------------------------
(* The member's side: one transaction each. *)

Change(e, u) ==
  /\ holder' = [holder EXCEPT ![e] = u]
  /\ hands'  = IF holder[e] = u THEN hands ELSE [hands EXCEPT ![e] = @ + 1]

\* A slip: a re-subscription that leaves the failure streak standing.
StillFailing(row, u) == [row EXCEPT !.owner = u, !.good = today]

\* A slip: an upsert that refreshes the keys and forgets the owner.
SameOwner(row, u) == [row EXCEPT !.failing = None, !.good = today]

\* The row of a device that is known keeps its id, changes hands and is well again.
Refreshed(row, u) == [row EXCEPT !.owner = u, !.failing = None, !.good = today]

Upsert(u, e) ==
  IF subs[e] = None
  THEN /\ lastId < MaxId
       /\ lastId' = lastId + 1
       /\ subs' = [subs EXCEPT ![e] = [id |-> lastId + 1, owner |-> u, failing |-> None, good |-> today]]
  ELSE /\ subs' = [subs EXCEPT ![e] = Refreshed(@, u)]
       /\ UNCHANGED lastId

Subscribe(u, e) ==
  /\ Upsert(u, e)
  /\ Change(e, u)
  /\ UNCHANGED <<today, muted, gone, sends>>

\* Scoped by the caller: somebody else's device stays as it is.
Unsubscribe(u, e) ==
  /\ subs[e] # None /\ subs[e].owner = u
  /\ subs' = [subs EXCEPT ![e] = None]
  /\ Change(e, None)
  /\ UNCHANGED <<today, lastId, muted, gone, sends>>

UpdatePreferences(u) ==
  /\ muted' = IF u \in muted THEN muted \ {u} ELSE muted \cup {u}
  /\ UNCHANGED <<today, subs, lastId, gone, sends, holder, hands>>

-----------------------------------------------------------------------------
(* A send. *)

EligibleSubscriptions(recipients, bypassMutes) ==
  {e \in Endpoint : /\ subs[e] # None
                    /\ subs[e].owner \in recipients
                    /\ bypassMutes \/ subs[e].owner \notin muted}

Resolved(e) ==
  [id |-> subs[e].id, endpoint |-> e, owner |-> subs[e].owner, failing |-> subs[e].failing,
   good |-> subs[e].good, hands |-> hands[e], answer |-> "none"]

Send(s, recipients, bypassMutes) ==
  /\ sends[s] = {}
  /\ EligibleSubscriptions(recipients, bypassMutes) # {}
  /\ sends' = [sends EXCEPT ![s] = {Resolved(e) : e \in EligibleSubscriptions(recipients, bypassMutes)}]
  /\ UNCHANGED <<today, subs, lastId, muted, gone, holder, hands>>

Working(s) == {d \in sends[s] : d.answer # "none"}

\* A worker posts; the push service, the network or the client's timeout answers.
Post(s, d, answer) ==
  /\ d.answer = "none"
  /\ Cardinality(Working(s)) < Workers
  /\ answer = "gone" => d.endpoint \in gone
  /\ answer = "ok" => d.endpoint \notin gone
  /\ sends' = [sends EXCEPT ![s] = (@ \ {d}) \cup {[d EXCEPT !.answer = answer]}]
  /\ UNCHANGED <<today, subs, lastId, muted, gone, holder, hands>>

IsRow(e, id) == subs[e] # None /\ subs[e].id = id

DeleteSubscriptionByID(d) ==
  [e \in Endpoint |-> IF IsRow(e, d.id) THEN None ELSE subs[e]]

ClearFailing(d) ==
  [e \in Endpoint |-> IF IsRow(e, d.id) THEN [subs[e] EXCEPT !.failing = None, !.good = today] ELSE subs[e]]

MarkFailing(d) ==
  [e \in Endpoint |-> IF IsRow(e, d.id) /\ subs[e].failing = None
                      THEN [subs[e] EXCEPT !.failing = today] ELSE subs[e]]

\* markFailing's prune, judged by the row the send resolved.
FailedTooLong(d) == d.failing # None /\ MaxFail > 0 /\ today - d.failing > MaxFail

\* What the answer writes; a write that fails is logged and nothing else.
Applied(d) ==
  CASE d.answer = "gone"   -> DeleteSubscriptionByID(d)
    [] d.answer = "ok"     -> ClearFailing(d)
    [] d.answer = "failed" -> IF FailedTooLong(d) THEN DeleteSubscriptionByID(d) ELSE MarkFailing(d)

Finish(s, d) ==
  /\ d.answer # "none"
  /\ subs' \in {Applied(d), subs}
  /\ sends' = [sends EXCEPT ![s] = @ \ {d}]
  /\ UNCHANGED <<today, lastId, muted, gone, holder, hands>>

-----------------------------------------------------------------------------
(* The world. *)

DayPasses ==
  /\ today < MaxClock
  /\ today' = today + 1
  /\ UNCHANGED <<subs, lastId, muted, gone, sends, holder, hands>>

\* The browser was reset or the subscription revoked: the endpoint never comes back.
GiveUp(e) ==
  /\ gone' = gone \cup {e}
  /\ UNCHANGED <<today, subs, lastId, muted, sends, holder, hands>>

\* The process ends with deliveries unfinished; nothing of a send is persisted.
PushCrash ==
  /\ sends' = [s \in Sender |-> {}]
  /\ UNCHANGED <<today, subs, lastId, muted, gone, holder, hands>>

PushNext ==
  \/ \E u \in Member, e \in Endpoint : Subscribe(u, e) \/ Unsubscribe(u, e)
  \/ \E u \in Member : UpdatePreferences(u)
  \/ \E s \in Sender, recipients \in SUBSET Member \ {{}}, bypassMutes \in BOOLEAN :
       Send(s, recipients, bypassMutes)
  \/ \E s \in Sender : \E d \in sends[s] :
       Finish(s, d) \/ \E answer \in Answer \ {"none"} : Post(s, d, answer)
  \/ \E e \in Endpoint : GiveUp(e)
  \/ DayPasses
  \/ PushCrash

PushSpec == PushInit /\ [][PushNext]_pushVars

-----------------------------------------------------------------------------
(* What delivery promises. *)

(***************************************************************************)
(* A subscription disappears only because its holder took it back, because *)
(* the push service gave its endpoint up, or because a delivery to this    *)
(* very row failed and, when that send was resolved, nothing good had been *)
(* recorded of the device - no delivery, no re-subscription - for more     *)
(* than MaxFailDays.  Failures and successes of overlapping sends are      *)
(* applied in any order, and the row can be dropped and made anew          *)
(* meanwhile (deliver and markFailing, push.go:321-387).                   *)
(***************************************************************************)
PrunedForCause ==
  [][\A e \in Endpoint :
       subs[e] # None /\ subs'[e] = None =>
         \/ holder'[e] = None
         \/ \E s \in Sender : \E d \in sends[s] \ sends'[s] :
              /\ d.id = subs[e].id
              /\ \/ d.answer = "gone" /\ e \in gone
                 \/ d.answer = "failed" /\ today - d.good > MaxFail]_pushVars

(***************************************************************************)
(* A shared device follows whoever asked last: what is on its way to it is *)
(* for its holder, unless the send was resolved before the device changed  *)
(* hands (Upsert and Delete, store.go:99-156).                             *)
(***************************************************************************)
HeardByItsHolder ==
  \A s \in Sender : \A d \in sends[s] :
    d.hands = hands[d.endpoint] => d.owner = holder[d.endpoint]

=============================================================================

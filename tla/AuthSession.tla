----------------------------- MODULE AuthSession -----------------------------
(***************************************************************************)
(* Sessions and who they say a member is (backend/internal/platform/auth): *)
(* requests, websocket re-checks, logins, logouts and bearer calls racing  *)
(* on the one `sessions` row, on the cached identity it carries, and on    *)
(* the mints that refresh it from the auth service - which may meanwhile   *)
(* change the member, close the account, or not answer.                    *)
(*                                                                         *)
(* An identity (roles, email, name) is the number of the account's state   *)
(* it was minted from.  Time is a clock of coarse units; expires_at is     *)
(* seen + TTL, since the code writes last_seen_at and expires_at together. *)
(***************************************************************************)
EXTENDS Integers

CONSTANTS
  User, Session, Caller,
  Holder,       \* the members who hold a bearer token
  Owner,        \* Owner[s]: the member who logged in on s
  NoSession,
  RoleRefresh,  \* Config.RoleRefresh
  TTL,          \* Config.SessionTTL
  Granularity,  \* touchGranularity
  MaxCall,      \* the longest a call takes (the auth client's timeout bounds it)
  Kinds,        \* a bound: the cookie's calls that are made
  MaxClock,     \* a bound
  MaxVersion    \* a bound: the states an account goes through

ASSUME AuthAssumption ==
  /\ User # {} /\ Owner \in [Session -> User] /\ NoSession \notin Session
  /\ Holder \subseteq User /\ Kinds \subseteq {"request", "revalidation", "recheck", "logout"}
  /\ RoleRefresh \in Nat /\ TTL \in Nat /\ Granularity \in Nat /\ MaxCall \in Nat
  /\ MaxClock \in Nat /\ MaxVersion \in Nat \ {0}

CookieKind == {"request", "revalidation", "recheck", "logout"}

Time    == 0..MaxClock
Forever == MaxClock + 1
Version == 1..MaxVersion
Closed    == 0    \* a mint's other answers: the account is closed,
Transient == -1   \* or the auth service did not answer,
Unasked   == -2   \* or nobody asked

VARIABLES
  clock,
  version,    \* per member: the current state of the account at the auth service
  open,       \* per member: the states in which the account was open
  ended,      \* per member and state: when it gave way to the next
  row,        \* sessions
  token,      \* per member: the bearer token's row, "none", "live" or "revoked"
  call,       \* per caller: the call it serves
  announced,  \* the sessions OnSessionRevoked was called with
  dropped,    \* the sessions a re-check has called gone
  loggedOut,  \* history: the sessions whose logout committed
  withdrawn,  \* history: the members who revoked their token
  used        \* history: per session, the latest request that slid it

authVars    == <<version, open, ended>>
historyVars == <<loggedOut, withdrawn, used>>
vars == <<clock, authVars, row, token, call, announced, dropped, historyVars>>

NoRow  == [state |-> "none", ver |-> 1, stamp |-> 0, seen |-> 0]
NoCall == [pc |-> "done", kind |-> "recheck", sess |-> NoSession, now |-> 0,
           user |-> CHOOSE u \in User : TRUE, cached |-> 1, seen |-> 0, answer |-> Unasked]

Init ==
  /\ clock = 0
  /\ version = [u \in User |-> 1] /\ open = [u \in User |-> {1}]
  /\ ended = [u \in User |-> [v \in Version |-> Forever]]
  /\ row = [s \in Session |-> NoRow] /\ token = [u \in User |-> IF u \in Holder THEN "live" ELSE "none"]
  /\ call = [c \in Caller |-> NoCall]
  /\ announced = {} /\ dropped = {}
  /\ loggedOut = {} /\ withdrawn = {} /\ used = [s \in Session |-> 0]

----------------------------------------------------------------------------
(* The rest of the world. *)

Ended   == {"served", "refused", "gone", "unknown", "done"}
Busy(c) == call[c].pc \notin Ended

\* Time passes only as far as the calls in progress may take.
Tick ==
  /\ clock < MaxClock
  /\ \A c \in Caller : Busy(c) => clock < call[c].now + MaxCall
  /\ clock' = clock + 1
  /\ UNCHANGED <<authVars, row, token, call, announced, dropped, historyVars>>

\* The auth service renames a member, changes roles, closes or reopens the account.
AccountChanges(u) ==
  /\ version[u] < MaxVersion
  /\ version' = [version EXCEPT ![u] = @ + 1]
  /\ open' \in {open, [open EXCEPT ![u] = @ \cup {version[u] + 1}]}
  /\ ended' = [ended EXCEPT ![u][version[u]] = clock]
  /\ UNCHANGED <<clock, row, token, call, announced, dropped, historyVars>>

----------------------------------------------------------------------------
(* How a call starts and ends. *)

Moves(c, pc) == call' = [call EXCEPT ![c] = IF pc \in Ended THEN [NoCall EXCEPT !.pc = pc]
                                                            ELSE [@ EXCEPT !.pc = pc]]

\* A cookie's call: a request, a re-check of a socket, a logout.
Begin(c, kind, s) ==
  /\ ~Busy(c) /\ row[s].state # "none"
  /\ call' = [call EXCEPT ![c] = [NoCall EXCEPT !.pc = "looking", !.kind = kind, !.now = clock,
                                                !.sess = s, !.user = Owner[s]]]
  /\ UNCHANGED <<clock, authVars, row, token, announced, dropped, historyVars>>

\* A bearer call of member u.
BeginBearer(c, u) ==
  /\ ~Busy(c) /\ u \in Holder
  /\ call' = [call EXCEPT ![c] = [NoCall EXCEPT !.pc = "looking", !.kind = "bearer",
                                                !.now = clock, !.user = u]]
  /\ UNCHANGED <<clock, authVars, row, token, announced, dropped, historyVars>>

BeginLogin(c, s) ==
  /\ ~Busy(c) /\ row[s].state = "none"
  /\ \A d \in Caller : call[d].kind = "login" => call[d].sess # s
  /\ call' = [call EXCEPT ![c] = [NoCall EXCEPT !.pc = "authenticating", !.kind = "login",
                                                !.now = clock, !.sess = s, !.user = Owner[s]]]
  /\ UNCHANGED <<clock, authVars, row, token, announced, dropped, historyVars>>

----------------------------------------------------------------------------
(* Logging in. *)

\* Authenticator.Login: the credentials hold, and the account is open.
Authenticated(c) ==
  LET u == call[c].user IN
  /\ call[c].pc = "authenticating" /\ version[u] \in open[u]
  /\ call' = [call EXCEPT ![c].pc = "authenticated", ![c].answer = version[u]]
  /\ UNCHANGED <<clock, authVars, row, token, announced, dropped, historyVars>>

LoginRefused(c) ==
  /\ call[c].pc = "authenticating" /\ Moves(c, "refused")
  /\ UNCHANGED <<clock, authVars, row, token, announced, dropped, historyVars>>

\* The login's `now` is taken once the auth service has answered.
LoginReturns(c) ==
  /\ call[c].pc = "authenticated"
  /\ call' = [call EXCEPT ![c].pc = "creating", ![c].now = clock]
  /\ UNCHANGED <<clock, authVars, row, token, announced, dropped, historyVars>>

Create(c) ==
  /\ call[c].pc = "creating"
  /\ row' = [row EXCEPT ![call[c].sess] =
               [state |-> "live", ver |-> call[c].answer,
                stamp |-> call[c].now, seen |-> call[c].now]]
  /\ Moves(c, "done")
  /\ UNCHANGED <<clock, authVars, token, announced, dropped, historyVars>>

----------------------------------------------------------------------------
(* Reading the session. *)

Alive(r, now) == r.state = "live" /\ now < r.seen + TTL

Fresh(stamp, now) == now - stamp <= RoleRefresh

\* What a call does with the live row it has read.
Reads(c, r) ==
  LET k == call[c] IN
  CASE k.kind = "recheck" -> Moves(c, "served")
    [] k.kind = "logout"  -> Moves(c, "revoking")
    [] k.kind = "revalidation" -> Moves(c, IF Fresh(r.stamp, k.now) THEN "served" ELSE "minting")
    [] k.kind = "request" ->
         call' = [call EXCEPT ![c].pc = IF Fresh(r.stamp, k.now) THEN "touching" ELSE "minting",
                              ![c].cached = r.ver, ![c].seen = r.seen]

Lookup(c) ==
  LET k == call[c]  r == row[k.sess] IN
  /\ k.pc = "looking" /\ k.kind # "bearer" /\ Alive(r, k.now) /\ Reads(c, r)
  /\ UNCHANGED <<clock, authVars, row, token, announced, dropped, historyVars>>

LookupDead(c) ==
  LET k == call[c]  checks == k.kind \in {"recheck", "revalidation"} IN
  /\ k.pc = "looking" /\ k.kind # "bearer" /\ ~Alive(row[k.sess], k.now)
  /\ Moves(c, IF checks THEN "gone" ELSE "refused")
  /\ dropped' = IF checks THEN dropped \cup {k.sess} ELSE dropped
  /\ UNCHANGED <<clock, authVars, row, token, announced, historyVars>>

\* The store fails: an undecided re-check keeps its socket.
StoreFails(c) ==
  /\ call[c].pc \in {"looking", "reading", "creating", "revoking"}
  /\ Moves(c, IF call[c].kind \in {"recheck", "revalidation"} THEN "unknown" ELSE "refused")
  /\ UNCHANGED <<clock, authVars, row, token, announced, dropped, historyVars>>

LookupToken(c) ==
  /\ call[c].pc = "looking" /\ call[c].kind = "bearer"
  /\ Moves(c, IF token[call[c].user] = "live" THEN "reading" ELSE "refused")
  /\ UNCHANGED <<clock, authVars, row, token, announced, dropped, historyVars>>

SessionsOf(u) == {s \in Session : Owner[s] = u /\ row[s].state # "none"}

\* Bearers are served with what they have read when it is fresh, and mint otherwise.
ReadsFor(c, s) ==
  call' = [call EXCEPT ![c].pc = IF Fresh(row[s].stamp, call[c].now) THEN "serving" ELSE "minting",
                       ![c].sess = s, ![c].cached = row[s].ver]

\* SessionStore.NewestIdentity: the row confirmed last, whatever its state.
ReadNewest(c) ==
  /\ call[c].pc = "reading"
  /\ \E s \in SessionsOf(call[c].user) :
       /\ \A t \in SessionsOf(call[c].user) : row[t].stamp <= row[s].stamp
       /\ ReadsFor(c, s)
  /\ UNCHANGED <<clock, authVars, row, token, announced, dropped, historyVars>>

\* No row at all: a database restored from before the member's login.
ReadNothing(c) ==
  /\ call[c].pc = "reading" /\ SessionsOf(call[c].user) = {}
  /\ Moves(c, "minting")
  /\ UNCHANGED <<clock, authVars, row, token, announced, dropped, historyVars>>

----------------------------------------------------------------------------
(* Minting: one flight per session, and one per bearer's member. *)

SameKey(c, d) ==
  IF call[c].kind = "bearer" THEN call[d].kind = "bearer" /\ call[d].user = call[c].user
                             ELSE call[d].kind # "bearer" /\ call[d].sess = call[c].sess

Flying(d) == call[d].pc \in {"asking", "answered"}

Mint(c) ==
  /\ call[c].pc = "minting" /\ ~ \E d \in Caller : Flying(d) /\ SameKey(c, d)
  /\ Moves(c, "asking")
  /\ UNCHANGED <<clock, authVars, row, token, announced, dropped, historyVars>>

Join(c) ==
  /\ call[c].pc = "minting" /\ \E d \in Caller : Flying(d) /\ SameKey(c, d)
  /\ Moves(c, "waiting")
  /\ UNCHANGED <<clock, authVars, row, token, announced, dropped, historyVars>>

Truth(u) == IF version[u] \in open[u] THEN version[u] ELSE Closed

\* The answer is the account's state at this moment; it may be lost on its way back.
Answer(c) ==
  /\ call[c].pc = "asking"
  /\ \E a \in {Truth(call[c].user), Transient} :
       call' = [call EXCEPT ![c].pc = "answered", ![c].answer = a]
  /\ UNCHANGED <<clock, authVars, row, token, announced, dropped, historyVars>>

\* The leader's answer is the answer of everybody who waits for it.
Returns(c) ==
  /\ call[c].pc = "answered"
  /\ call' = [d \in Caller |->
                IF d = c \/ (call[d].pc = "waiting" /\ SameKey(c, d))
                  THEN [call[d] EXCEPT !.pc = "minted", !.answer = call[c].answer]
                  ELSE call[d]]
  /\ UNCHANGED <<clock, authVars, row, token, announced, dropped, historyVars>>

----------------------------------------------------------------------------
(* Acting on the answer. *)

Says(c, a) == call[c].pc = "minted" /\ call[c].answer = a

Revoked(s) == row' = [row EXCEPT ![s].state = "revoked"]

\* Mutant: any failure to mint ends the session.
RevokeUnconfirmed(c) ==
  /\ (Says(c, Closed) \/ Says(c, Transient)) /\ call[c].kind = "request"
  /\ Revoked(call[c].sess) /\ Moves(c, "announcing")
  /\ UNCHANGED <<clock, authVars, token, announced, dropped, historyVars>>

\* Mutant: the announcement is left to a caller that does not make it.
RevokeSilently(c) ==
  /\ Says(c, Closed) /\ call[c].kind = "request"
  /\ Revoked(call[c].sess) /\ Moves(c, "refused")
  /\ UNCHANGED <<clock, authVars, token, announced, dropped, historyVars>>

RevokeClosed(c) ==
  /\ Says(c, Closed) /\ call[c].kind = "request"
  /\ Revoked(call[c].sess) /\ Moves(c, "announcing")
  /\ UNCHANGED <<clock, authVars, token, announced, dropped, historyVars>>

\* A socket's re-check says "gone" and leaves the announcement to its pump.
RevokeForSocket(c) ==
  /\ Says(c, Closed) /\ call[c].kind = "revalidation"
  /\ Revoked(call[c].sess) /\ Moves(c, "gone")
  /\ dropped' = dropped \cup {call[c].sess}
  /\ UNCHANGED <<clock, authVars, token, announced, historyVars>>

RevokeForBearer(c) ==
  /\ Says(c, Closed) /\ call[c].kind = "bearer"
  /\ token' = [token EXCEPT ![call[c].user] = "revoked"] /\ Moves(c, "refused")
  /\ UNCHANGED <<clock, authVars, row, announced, dropped, historyVars>>

RevokeFails(c) ==
  /\ Says(c, Closed)
  /\ Moves(c, IF call[c].kind = "revalidation" THEN "unknown" ELSE "refused")
  /\ UNCHANGED <<clock, authVars, row, token, announced, dropped, historyVars>>

\* Where a call goes on with the identity it has.
Onward(c) == CASE call[c].kind = "request" -> "touching"
               [] call[c].kind = "bearer"  -> "serving"
               [] OTHER                    -> "served"

Confirmed(r, v, at) == [r EXCEPT !.ver = v, !.stamp = at]

\* Mutant: the stamp is taken when the write runs.
RefreshStampedLate(c) ==
  /\ call[c].pc = "minted" /\ call[c].answer \in Version /\ call[c].sess # NoSession
  /\ row' = [row EXCEPT ![call[c].sess] = Confirmed(@, call[c].answer, clock)]
  /\ Moves(c, Onward(c))
  /\ UNCHANGED <<clock, authVars, token, announced, dropped, historyVars>>

\* SessionStore.RefreshIdentity: the whole identity, stamped with the call's start.
Refresh(c) ==
  /\ call[c].pc = "minted" /\ call[c].answer \in Version /\ call[c].sess # NoSession
  /\ row' = [row EXCEPT ![call[c].sess] = Confirmed(@, call[c].answer, call[c].now)]
  /\ Moves(c, Onward(c))
  /\ UNCHANGED <<clock, authVars, token, announced, dropped, historyVars>>

\* The write failed, or there is no row to write: served on the mint all the same.
RefreshFails(c) ==
  /\ call[c].pc = "minted" /\ call[c].answer \in Version
  /\ Moves(c, Onward(c))
  /\ UNCHANGED <<clock, authVars, row, token, announced, dropped, historyVars>>

\* Mutant: an outage is stamped as a confirmation, to spare the auth service.
FallBackStamped(c) ==
  /\ Says(c, Transient) /\ call[c].sess # NoSession
  /\ row' = [row EXCEPT ![call[c].sess].stamp = call[c].now]
  /\ Moves(c, Onward(c))
  /\ UNCHANGED <<clock, authVars, token, announced, dropped, historyVars>>

\* The auth service did not answer: on with the cached identity, if there is one.
FallBack(c) ==
  /\ Says(c, Transient)
  /\ Moves(c, IF call[c].sess = NoSession THEN "refused" ELSE Onward(c))
  /\ UNCHANGED <<clock, authVars, row, token, announced, dropped, historyVars>>

----------------------------------------------------------------------------
(* Sliding, and ending a session. *)

Later(a, b) == IF a < b THEN b ELSE a

Slid(c) == used' = [used EXCEPT ![call[c].sess] = Later(@, call[c].now)]

\* Mutant: a request slides the session only once it is about to end.
SlideLate(c) ==
  LET k == call[c] IN
  /\ k.pc = "touching" /\ Slid(c) /\ Moves(c, "served")
  /\ row' = IF k.now - k.seen >= TTL - Granularity THEN [row EXCEPT ![k.sess].seen = k.now] ELSE row
  /\ UNCHANGED <<clock, authVars, token, announced, dropped, loggedOut, withdrawn>>

\* The lazy slide: written only past touchGranularity.
Slide(c) ==
  LET k == call[c] IN
  /\ k.pc = "touching" /\ Slid(c) /\ Moves(c, "served")
  /\ row' = IF k.now - k.seen > Granularity THEN [row EXCEPT ![k.sess].seen = k.now] ELSE row
  /\ UNCHANGED <<clock, authVars, token, announced, dropped, loggedOut, withdrawn>>

SlideFails(c) ==
  LET k == call[c] IN
  /\ k.pc = "touching" /\ k.now - k.seen > Granularity /\ Moves(c, "served")
  /\ UNCHANGED <<clock, authVars, row, token, announced, dropped, historyVars>>

\* Resolve's end; the token's last use is not modelled.
Serve(c) ==
  /\ call[c].pc = "serving" /\ Moves(c, "served")
  /\ UNCHANGED <<clock, authVars, row, token, announced, dropped, historyVars>>

\* RevokeByToken and the logout's audit event, in one transaction.
LogOut(c) ==
  LET s == call[c].sess  live == row[s].state = "live" IN
  /\ call[c].pc = "revoking"
  /\ Revoked(s) /\ loggedOut' = loggedOut \cup {s}
  /\ Moves(c, IF live THEN "announcing" ELSE "done")
  /\ UNCHANGED <<clock, authVars, token, announced, dropped, withdrawn, used>>

\* OnSessionRevoked, which disconnects the session's sockets.
Announce(c) ==
  /\ call[c].pc = "announcing"
  /\ announced' = announced \cup {call[c].sess}
  /\ Moves(c, IF call[c].kind = "logout" THEN "done" ELSE "refused")
  /\ UNCHANGED <<clock, authVars, row, token, dropped, historyVars>>

Withdraw(u) ==
  /\ token[u] = "live"
  /\ token' = [token EXCEPT ![u] = "revoked"] /\ withdrawn' = withdrawn \cup {u}
  /\ UNCHANGED <<clock, authVars, row, call, announced, dropped, loggedOut, used>>

----------------------------------------------------------------------------
\* A call goes on by itself, whatever the others do.
Proceed(c) ==
  \/ Authenticated(c) \/ LoginRefused(c) \/ LoginReturns(c) \/ Create(c)
  \/ Lookup(c) \/ LookupDead(c) \/ StoreFails(c)
  \/ LookupToken(c) \/ ReadNewest(c) \/ ReadNothing(c)
  \/ Mint(c) \/ Join(c) \/ Answer(c) \/ Returns(c)
  \/ RevokeClosed(c) \/ RevokeForSocket(c) \/ RevokeForBearer(c) \/ RevokeFails(c)
  \/ Refresh(c) \/ RefreshFails(c) \/ FallBack(c)
  \/ Slide(c) \/ SlideFails(c) \/ Serve(c) \/ LogOut(c) \/ Announce(c)

Start(c) ==
  \/ \E kind \in Kinds, s \in Session : Begin(c, kind, s)
  \/ \E u \in User : BeginBearer(c, u)
  \/ \E s \in Session : BeginLogin(c, s)

Next ==
  \/ Tick
  \/ \E u \in User : AccountChanges(u) \/ Withdraw(u)
  \/ \E c \in Caller : Start(c) \/ Proceed(c)

Spec == Init /\ [][Next]_vars

----------------------------------------------------------------------------
(* Properties. *)

RowState == {"none", "live", "revoked"}
Row == [state : RowState, ver : Version, stamp : Time, seen : Time]
Pc == Ended \cup {"looking", "reading", "minting", "waiting", "asking", "answered", "minted",
                  "announcing", "serving", "touching", "revoking", "authenticating", "authenticated", "creating"}
Call == [pc : Pc, kind : CookieKind \cup {"bearer", "login"}, sess : Session \cup {NoSession},
         now : Time, user : User, cached : Version, seen : Time, answer : Unasked..MaxVersion]

\* The variables have their types, and a caller acts on the session of the member it acts for.
TypeOK ==
  /\ clock \in Time
  /\ version \in [User -> Version] /\ open \in [User -> SUBSET Version]
  /\ ended \in [User -> [Version -> 0..Forever]]
  /\ row \in [Session -> Row] /\ token \in [User -> RowState]
  /\ call \in [Caller -> Call]
  /\ announced \subseteq Session /\ dropped \subseteq Session
  /\ loggedOut \subseteq Session /\ withdrawn \subseteq User /\ used \in [Session -> Time]
  /\ \A c \in Caller : call[c].sess # NoSession => Owner[call[c].sess] = call[c].user

\* State v of u's account held, and let u in, at t or later.
HeldSince(u, v, t) == v \in open[u] /\ v <= version[u] /\ ended[u][v] >= t

\* roles_refreshed_at never claims more than it knows: whoever wrote the row, joiners and slow
\* writers included, its identity held no earlier than one call before the stamp
\* (refreshIdentity stamps its own start, not the end of the mint).
StampIsHonest ==
  \A s \in Session :
    row[s].state # "none" => HeldSince(Owner[s], row[s].ver, row[s].stamp - MaxCall)

\* The identity a call goes on with.
ActsAs(c) == IF call[c].answer \in Version THEN call[c].answer ELSE call[c].cached

\* No request and no bearer call is served on roles the account lost, or for an account closed,
\* more than one refresh period and one call before it began - unless the auth service did not
\* answer (refreshIdentity and MCPAuth.identity fail closed, and cache for RoleRefresh).
ServedIsCurrent ==
  \A c \in Caller :
    (call[c].pc \in {"touching", "serving"} /\ call[c].answer # Transient)
      => HeldSince(call[c].user, ActsAs(c), call[c].now - RoleRefresh - MaxCall)

\* What is known of an account is as old as it says, and who is served on it is served in time.
IdentityIsCurrent == StampIsHonest /\ ServedIsCurrent

WasClosed(u) == \E v \in Version : v <= version[u] /\ v \notin open[u]

\* A session or a token dies only because its holder ended it or the account was closed, however
\* long the auth service stays away (classifyMint keeps "closed" and "did not answer" apart).
RevokedForCause ==
  /\ \A s \in Session : row[s].state = "revoked" => s \in loggedOut \/ WasClosed(Owner[s])
  /\ \A u \in User : token[u] = "revoked" => u \in withdrawn \/ WasClosed(u)

\* OnSessionRevoked is called only for a session whose row is revoked, so the socket it closes
\* cannot come straight back (refreshIdentity, logout).
AnnouncedIsRevoked == \A s \in announced : row[s].state = "revoked"

\* A session in use stays alive: requests finishing out of order cost it no more than the larger
\* of the lazy write's granularity and one call (NewSessionAuth's slide).
InUseStaysAlive ==
  \A s \in Session : row[s].seen >= used[s] - Later(Granularity, MaxCall)

\* Whoever revoked a session, its sockets are told: by the announcement or by the verdict of the
\* re-check that revoked it, and if not yet, then by a call that is about to (refreshIdentity's
\* viaConnection, logout).
RevokedIsTold ==
  \A s \in Session : row[s].state = "revoked" =>
    s \in announced \cup dropped \/ \E c \in Caller : call[c].pc = "announcing" /\ call[c].sess = s
=============================================================================


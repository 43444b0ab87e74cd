----------------------------- MODULE LoginLimiter -----------------------------
(***************************************************************************)
(* The limit on failed logins (backend/internal/platform/auth: ratelimit   *)
(* and the login handler): a fixed window per address and one per account  *)
(* seen from it, asked before the password is checked and charged after.   *)
(* Every use of the map is a step of its own, under its lock.              *)
(***************************************************************************)
EXTENDS Integers, Sequences, FiniteSets

CONSTANTS
  Visitor,      \* the logins under way at a time
  Address, Account,
  Absent,       \* no account, window or login
  Attempts,     \* loginMaxAttempts
  LoginWindow,  \* loginWindow
  MaxTracked,   \* maxTrackedKeys
  MaxNow        \* a bound

VARIABLES
  now,
  tracked,    \* per key: its window, [start, count], or Absent
  lastSweep,
  attempt,    \* per caller: the login it makes, or Absent
  failed      \* history: per key, when a login failed since it was cleared or wiped

loginVars == <<now, tracked, lastSweep, attempt, failed>>

\* "ip:..." and "ip:...|email:..."
Key == Address \X (Account \cup {Absent})
Keys(ip, account) == <<<<ip, Absent>>, <<ip, account>>>>

\* What is taken of the constants: an account is told from none, and so is a window or a login.
Windows == [start : Nat, count : Nat]
Logins == [pc : {"asking", "failing", "clearing"}, keys : Seq(Key)]
LoginConstants ==
  /\ IsFiniteSet(Visitor) /\ IsFiniteSet(Address) /\ IsFiniteSet(Account)
  /\ Attempts \in Nat \ {0} /\ LoginWindow \in Nat \ {0} /\ MaxTracked \in Nat
  /\ Absent \notin Account \cup Windows \cup Logins

LoginInit ==
  /\ now = 0 /\ tracked = [k \in Key |-> Absent] /\ lastSweep = 0 - LoginWindow
  /\ attempt = [c \in Visitor |-> Absent] /\ failed = [k \in Key |-> <<>>]

Over(w) == IF w = Absent THEN TRUE ELSE now - w.start >= LoginWindow
Allows(k) == ~Over(tracked[k]) => tracked[k].count < Attempts

\* sweep: at most once a window, but at once when too many keys are tracked; and all
\* is forgotten when dropping the windows that are over was not enough.
Tracked(w) == {k \in Key : w[k] # Absent}
SweepDue == Cardinality(Tracked(tracked)) > MaxTracked \/ now - lastSweep >= LoginWindow
\* Slip: drops the windows that still run, and keeps those that are over.
RunningNot == [k \in Key |-> IF Over(tracked[k]) THEN tracked[k] ELSE Absent]
Running == [k \in Key |-> IF Over(tracked[k]) THEN Absent ELSE tracked[k]]
SweptKeys ==
  IF ~SweepDue THEN tracked
  ELSE LET left == Running
       IN IF Cardinality(Tracked(left)) > MaxTracked THEN [k \in Key |-> Absent] ELSE left
Wiped == SweepDue /\ Cardinality(Tracked(Running)) > MaxTracked

TimePasses ==
  /\ now < MaxNow /\ now' = now + 1
  /\ UNCHANGED <<tracked, lastSweep, attempt, failed>>

\* login: both keys are asked, then the auth service.
TriesLogin(c, ip, account) ==
  /\ attempt[c] = Absent
  /\ \A k \in {<<ip, Absent>>, <<ip, account>>} : Allows(k)
  /\ attempt' = [attempt EXCEPT ![c] = [pc |-> "asking", keys |-> Keys(ip, account)]]
  /\ UNCHANGED <<now, tracked, lastSweep, failed>>

\* Bad credentials are charged, the right ones clear; any other answer (blocked, a
\* second factor wanted, none at all) does neither.
Answered(c) ==
  /\ attempt[c] # Absent /\ attempt[c].pc = "asking"
  /\ \E next \in {Absent, [attempt[c] EXCEPT !.pc = "failing"], [attempt[c] EXCEPT !.pc = "clearing"]} :
       attempt' = [attempt EXCEPT ![c] = next]
  /\ UNCHANGED <<now, tracked, lastSweep, failed>>

\* The address first, then the account seen from it.
NextKey(c) == attempt[c].keys[1]
Left(a) == IF Len(a.keys) = 1 THEN Absent ELSE [a EXCEPT !.keys = Tail(a.keys)]
MovesOn(c) == attempt' = [attempt EXCEPT ![c] = Left(@)]
Counted(w) == IF Over(w) THEN [start |-> now, count |-> 1] ELSE [w EXCEPT !.count = w.count + 1]
Fail(c) ==
  /\ attempt[c] # Absent /\ attempt[c].pc = "failing" /\ MovesOn(c)
  /\ LET k == NextKey(c)
         v == SweptKeys
     IN /\ tracked' = [v EXCEPT ![k] = Counted(@)]
        /\ failed' = [j \in Key |-> LET times == IF Wiped THEN <<>> ELSE failed[j]
                                    IN IF j = k THEN Append(times, now) ELSE times]
  /\ lastSweep' = IF SweepDue THEN now ELSE lastSweep
  /\ UNCHANGED now
Reset(c) ==
  /\ attempt[c] # Absent /\ attempt[c].pc = "clearing" /\ MovesOn(c)
  /\ tracked' = [tracked EXCEPT ![NextKey(c)] = Absent] /\ failed' = [failed EXCEPT ![NextKey(c)] = <<>>]
  /\ UNCHANGED <<now, lastSweep>>

LoginNext ==
  \/ TimePasses
  \/ \E c \in Visitor, ip \in Address, a \in Account : TriesLogin(c, ip, a)
  \/ \E c \in Visitor : Answered(c) \/ Fail(c) \/ Reset(c)

LoginSpec == LoginInit /\ [][LoginNext]_loginVars

----------------------------------------------------------------------------
(* Properties. *)

FailedSince(k, at) == Cardinality({n \in DOMAIN failed[k] : failed[k][n] >= at})
Charging(k) == {c \in Visitor : attempt[c] # Absent /\ attempt[c].pc \in {"asking", "failing"}
                                 /\ k \in {attempt[c].keys[n] : n \in DOMAIN attempt[c].keys}}

\* No sweep forgets a window that still runs, short of the wipe; a window never admits
\* more failures than its budget and the logins already past the question; and the map
\* stays within its bound (ratelimit.go:64-72).
LoginsAreBounded ==
  /\ \A k \in Key :
       LET w == tracked[k] IN
         /\ w = Absent => FailedSince(k, now) = 0
         /\ ~Over(w) => /\ w.count = FailedSince(k, w.start)
                        /\ w.count + Cardinality(Charging(k)) < Attempts + Cardinality(Visitor)
  /\ Cardinality(Tracked(tracked)) <= MaxTracked + 1
=============================================================================

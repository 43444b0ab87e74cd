------------------------------- MODULE McpHost -------------------------------
(***************************************************************************)
(* The assistants' front door (backend/internal/platform/mcp): a POST is   *)
(* charged to one of three sliding windows, its bearer is resolved to a    *)
(* token row and a member, it waits for one of the token's slots and runs. *)
(* Members meanwhile mint, narrow and revoke tokens over the web API.      *)
(*                                                                         *)
(* Every read and write of the one database connection is a step of its    *)
(* own, and so is every use of a limiter, which is under its own lock.     *)
(* How an identity is cached and re-minted is AuthSession's: here it is    *)
(* the member's role, as some session's row remembers it or as it is now.  *)
(***************************************************************************)
EXTENDS Integers, Sequences, FiniteSets

CONSTANTS
  Poster,       \* the requests and web calls under way at a time
  Ip, Member, Token,
  Module, Tool,
  Publisher,    \* per tool: the module that published it, or Core
  Core, None,
  Writes, AdminTools,  \* the tools that are not ReadOnly, and the AdminOnly ones
  Rate,         \* Config.RatePerMin, at least one (config.go:406)
  Window,       \* one minute
  Width,        \* concurrencyPerToken
  MaxTokens,    \* Config.MaxTokensPerUser
  SweepAbove,   \* sweepAbove
  Lives,        \* the lifetimes a member may choose
  TouchEvery,   \* touchGranularity
  MaxResult,    \* Config.MaxResultBytes, longer than the notes an answer may carry
  NoteLen,      \* the length of such a note
  Asked,        \* a bound: the bearers requests carry, and what they ask
  MaxMinute     \* a bound

NoExpiry == MaxMinute + 1

VARIABLES
  minute,
  rows,      \* the mcp_tokens table
  role,      \* per member: the role the auth service knows, "closed" if it closed the account
  known,     \* per member: the role the newest session remembers, or None
  calls, anon, fails,  \* the limiters: per token, and per address
  held,      \* per token: the slots taken
  req,       \* per caller: the request it makes
  spent      \* history: when each token's calls were let in, and when bearers from an address failed

hostVars == <<minute, rows, role, known, calls, anon, fails, held, req, spent>>

Roles == {"viewer", "editor", "admin"}
Done == [pc |-> "done"]
Unused(Key) == [hits |-> [k \in Key |-> <<>>], swept |-> 0 - Window]

HostInit ==
  /\ minute = 0 /\ rows = [t \in Token |-> None]
  /\ role = [u \in Member |-> "editor"] /\ known = [u \in Member |-> None]
  /\ calls = Unused(Token) /\ anon = Unused(Ip) /\ fails = Unused(Ip)
  /\ held = [t \in Token |-> 0] /\ req = [c \in Poster |-> Done]
  /\ spent = [k \in Token \cup Ip |-> <<>>]

\* A row of the table, and what is taken of the constants: the two kinds of limiter keys
\* are told apart, and no row is the absent one.
TokenRow == [user : Member, modules : SUBSET Module, revoked : BOOLEAN, used : Nat \cup {None}, expires : Nat]
HostConstants ==
  /\ IsFiniteSet(Poster) /\ Poster # {} /\ IsFiniteSet(Token) /\ Token \cap Ip = {}
  /\ Rate \in Nat \ {0} /\ Window \in Nat \ {0} /\ Width \in Nat /\ MaxTokens \in Nat
  /\ MaxMinute \in Nat /\ Lives \subseteq Nat /\ MaxResult \in Nat /\ NoteLen \in Nat /\ None \notin TokenRow

----------------------------------------------------------------------------
(* The limiters (limits.go). *)

\* How many of these times are later than that one.
After(times, at) == Cardinality({n \in DOMAIN times : times[n] > at})

\* The hits still in the window; being in time order they are the last ones.
Recent(l, k) ==
  LET hits == l.hits[k] IN SubSeq(hits, Len(hits) - After(hits, minute - Window) + 1, Len(hits))
Pruned(l, k) == [l EXCEPT !.hits[k] = Recent(l, k)]

\* Slip: one more than the budget.
SpentByOneMore(l, k) == Len(Recent(l, k)) > Rate
Spent(l, k) == Len(Recent(l, k)) >= Rate

\* Forgets the keys whose latest hit has left the window, once a window at most.
Swept(l) ==
  IF Cardinality({k \in DOMAIN l.hits : l.hits[k] # <<>>}) < SweepAbove \/ minute - l.swept < Window THEN l
  ELSE [swept |-> minute,
        hits |-> [k \in DOMAIN l.hits |->
                    IF \E n \in DOMAIN l.hits[k] : n = Len(l.hits[k]) /\ l.hits[k][n] > minute - Window
                    THEN l.hits[k] ELSE <<>>]]

Recorded(l, k) == Swept([l EXCEPT !.hits[k] = Append(Recent(l, k), minute)])
Allowed(l, k) == IF Spent(l, k) THEN Pruned(l, k) ELSE Recorded(l, k)
Charge(k) == spent' = [spent EXCEPT ![k] = Append(@, minute)]

----------------------------------------------------------------------------
(* The token rows. *)

TokenAlive(t, now) == rows[t] # None /\ ~rows[t].revoked /\ now < rows[t].expires
CountLive(u, now) == Cardinality({t \in Token : TokenAlive(t, now) /\ rows[t].user = u})
Withdrawn(t) == [rows EXCEPT ![t].revoked = TRUE]

\* moduleSet: no modules named means every module.
Exposed(tok) == IF tok.modules = {} THEN Module ELSE tok.modules

\* lookupTool and toolsCall: the host's own tools are open to every token; a module's
\* only to a token that exposes it; a write needs a writer and an admin's tool an admin.
Permits(r, tool) ==
  /\ Publisher[tool] = Core \/ Publisher[tool] \in Exposed(r.tok)
  /\ tool \in Writes => r.role \in {"editor", "admin"}
  /\ tool \in AdminTools => r.role = "admin"

\* resultWire: a text of so many bytes is cut to leave room for both notes, and the
\* structured half is left out, with a note, when the two do not fit together.
Wire(text, json) ==
  LET room == MaxResult - 2 * NoteLen
      kept == IF text <= room THEN text ELSE room + NoteLen
      fits == kept + json <= MaxResult
  IN [text |-> IF fits THEN kept ELSE kept + NoteLen, json |-> IF fits THEN json ELSE 0]

----------------------------------------------------------------------------
(* A request (http.go). *)

Goes(c, r) == req' = [req EXCEPT ![c] = r]
At(c, pc) == req[c].pc = pc
Holds(c) == req[c].pc \in {"running", "working"}
To(c, pc) == Goes(c, [req[c] EXCEPT !.pc = pc])
Ends(c) == Goes(c, Done)
World == <<minute, role>>

MinutePasses ==
  /\ minute < MaxMinute /\ minute' = minute + 1
  /\ UNCHANGED <<rows, role, known, calls, anon, fails, held, req, spent>>

\* The auth service changes a role, or closes the account for good; a member's browser
\* opens a session, which remembers the role.
RoleChanges(u) ==
  /\ role[u] # "closed" /\ \E now \in {"viewer", "editor", "closed"} : role' = [role EXCEPT ![u] = now]
  /\ UNCHANGED <<minute, rows, known, calls, anon, fails, held, req, spent>>
LogsIn(u) ==
  /\ role[u] # "closed" /\ known' = [known EXCEPT ![u] = role[u]]
  /\ UNCHANGED <<minute, rows, role, calls, anon, fails, held, req, spent>>

\* serve, past the checks of form: a bearer is charged on failure only, and a request
\* without one is let in for the two methods that need none.
Arrives(c, ip, bearer, ask) ==
  /\ At(c, "done")
  /\ IF bearer # None \/ ask # "initialize"
     THEN /\ Goes(c, IF bearer # None /\ Spent(fails, ip) THEN Done
                     ELSE [pc |-> IF bearer = None THEN "unresolved" ELSE "looking",
                           ip |-> ip, bearer |-> bearer, ask |-> ask, now |-> minute])
          /\ fails' = IF bearer # None THEN Pruned(fails, ip) ELSE fails
          /\ UNCHANGED <<anon, spent>>
     ELSE /\ anon' = Allowed(anon, ip) /\ UNCHANGED <<fails, req, spent>>
  /\ UNCHANGED <<World, rows, known, calls, held>>

\* Resolve reads the row by the secret's hash: dead or unknown, live, or the read fails.
LooksUp(c) ==
  /\ At(c, "looking")
  /\ LET r == req[c] IN
       IF r.bearer \in Token /\ TokenAlive(r.bearer, r.now)
       THEN Goes(c, [pc |-> "identifying", ip |-> r.ip, ask |-> r.ask, now |-> r.now,
                     bearer |-> r.bearer, tok |-> rows[r.bearer], role |-> None])
       ELSE To(c, "unresolved")
  /\ UNCHANGED <<World, rows, known, calls, anon, fails, held, spent>>
LookupFails(c) ==
  /\ At(c, "looking") /\ Ends(c)
  /\ UNCHANGED <<World, rows, known, calls, anon, fails, held, spent>>

\* identity: what a session remembers, or what the auth service says when asked.
Identified(c, as) == Goes(c, [req[c] EXCEPT !.pc = "identified", !.role = as])
Remembers(c) ==
  /\ At(c, "identifying")
  /\ LET u == req[c].tok.user IN
       IF known[u] # None THEN Identified(c, known[u]) ELSE To(c, "unresolved")
  /\ UNCHANGED <<World, rows, known, calls, anon, fails, held, spent>>
Asks(c) ==
  /\ At(c, "identifying")
  /\ LET u == req[c].tok.user IN
       /\ role[u] # "closed" /\ Identified(c, role[u])
       /\ known' = IF known[u] # None THEN [known EXCEPT ![u] = role[u]] ELSE known
  /\ UNCHANGED <<World, rows, calls, anon, fails, held, spent>>
\* A closed account's token is revoked on the way, if the write lands.
FoundClosed(c) ==
  /\ At(c, "identifying") /\ role[req[c].tok.user] = "closed"
  /\ rows' \in {rows, Withdrawn(req[c].bearer)} /\ To(c, "unresolved")
  /\ UNCHANGED <<World, known, calls, anon, fails, held, spent>>

\* The time of the last use, no more often than once a granule; the write may fail.
Touches(c) ==
  /\ At(c, "identified") /\ To(c, "resolved")
  /\ LET r == req[c] IN
       rows' \in IF r.tok.used # None /\ r.now - r.tok.used <= TouchEvery THEN {rows}
                 ELSE {rows, [rows EXCEPT ![r.bearer].used = r.now]}
  /\ UNCHANGED <<World, known, calls, anon, fails, held, spent>>

\* 401, and only now charged.
Refused(c) ==
  /\ At(c, "unresolved") /\ Ends(c)
  /\ fails' = Recorded(fails, req[c].ip)
  /\ IF req[c].bearer = None THEN UNCHANGED spent ELSE Charge(req[c].ip)
  /\ UNCHANGED <<World, rows, known, calls, anon, held>>

\* The token's own budget.
Admits(c) ==
  /\ At(c, "resolved")
  /\ LET t == req[c].bearer IN
       /\ calls' = Allowed(calls, t)
       /\ IF Spent(calls, t) THEN Ends(c) /\ UNCHANGED spent ELSE To(c, "waiting") /\ Charge(t)
  /\ UNCHANGED <<World, rows, known, anon, fails, held>>

\* A slot, or the client hangs up while it waits for one.
Acquires(c) ==
  /\ At(c, "waiting") /\ held[req[c].bearer] < Width
  /\ held' = [held EXCEPT ![req[c].bearer] = @ + 1] /\ To(c, "running")
  /\ UNCHANGED <<World, rows, known, calls, anon, fails, spent>>
HangsUp(c) ==
  /\ At(c, "waiting") /\ Ends(c)
  /\ UNCHANGED <<World, rows, known, calls, anon, fails, held, spent>>

\* dispatch: what the request asks is done by the module, which may take as long as
\* CallTimeout, or it is refused at once.
Starts(c) ==
  /\ At(c, "running") /\ (req[c].ask \in Tool => Permits(req[c], req[c].ask))
  /\ To(c, "working")
  /\ UNCHANGED <<World, rows, known, calls, anon, fails, held, spent>>
\* The answer, a refusal or the timeout: the slot is free again.
Answers(c) ==
  /\ Holds(c) /\ (At(c, "running") => req[c].ask \in Tool /\ ~Permits(req[c], req[c].ask))
  /\ held' = [held EXCEPT ![req[c].bearer] = @ - 1] /\ Ends(c)
  /\ UNCHANGED <<World, rows, known, calls, anon, fails, spent>>

----------------------------------------------------------------------------
(* The members' token list (tokens_http.go). *)

\* The count is taken before the row is written.
MintBegins(c, u) ==
  /\ At(c, "done") /\ CountLive(u, minute) < MaxTokens
  /\ Goes(c, [pc |-> "minting", user |-> u, now |-> minute])
  /\ UNCHANGED <<World, rows, known, calls, anon, fails, held, spent>>
MintCommits(c, t, modules, life) ==
  /\ At(c, "minting") /\ rows[t] = None /\ Ends(c)
  /\ rows' = [rows EXCEPT ![t] = [user |-> req[c].user, modules |-> modules, revoked |-> FALSE, used |-> None,
                                  expires |-> IF life = None THEN NoExpiry ELSE req[c].now + life]]
  /\ UNCHANGED <<World, known, calls, anon, fails, held, spent>>

\* ownedToken reads the row; what a patch does not name it writes back as it was read,
\* and a patch that changes nothing writes nothing.
PatchBegins(c, u, t, modules) ==
  /\ At(c, "done") /\ rows[t] # None /\ rows[t].user = u
  /\ Goes(c, [pc |-> "patching", bearer |-> t,
              modules |-> IF modules = None THEN rows[t].modules ELSE modules])
  /\ UNCHANGED <<World, rows, known, calls, anon, fails, held, spent>>
PatchCommits(c) ==
  /\ At(c, "patching") /\ Ends(c)
  /\ rows' = [rows EXCEPT ![req[c].bearer].modules = req[c].modules]
  /\ UNCHANGED <<World, known, calls, anon, fails, held, spent>>

\* A member's own, or any of them for an admin; revoking twice changes nothing.
RevokeBegins(c, u, t) ==
  /\ At(c, "done") /\ rows[t] # None /\ (rows[t].user = u \/ role[u] = "admin")
  /\ Goes(c, [pc |-> "revoking", bearer |-> t])
  /\ UNCHANGED <<World, rows, known, calls, anon, fails, held, spent>>
RevokeCommits(c) ==
  /\ At(c, "revoking") /\ Ends(c) /\ rows' = Withdrawn(req[c].bearer)
  /\ UNCHANGED <<World, known, calls, anon, fails, held, spent>>

Serves(c) ==
  \/ LooksUp(c) \/ LookupFails(c) \/ Remembers(c) \/ Asks(c) \/ FoundClosed(c) \/ Touches(c)
  \/ Refused(c) \/ Admits(c) \/ Acquires(c) \/ HangsUp(c) \/ Starts(c) \/ Answers(c)

HostNext ==
  \/ MinutePasses \/ \E u \in Member : RoleChanges(u) \/ LogsIn(u)
  \/ \E c \in Poster : Serves(c) \/ PatchCommits(c) \/ RevokeCommits(c)
  \/ \E c \in Poster, ip \in Ip, a \in Asked : Arrives(c, ip, a[1], a[2])
  \/ \E c \in Poster, u \in Member : MintBegins(c, u)
  \/ \E c \in Poster, t \in Token, m \in SUBSET Module, life \in Lives \cup {None} : MintCommits(c, t, m, life)
  \/ \E c \in Poster, u \in Member, t \in Token, m \in {None} \cup SUBSET Module : PatchBegins(c, u, t, m)
  \/ \E c \in Poster, u \in Member, t \in Token : RevokeBegins(c, u, t)

HostSpec == HostInit /\ [][HostNext]_hostVars

----------------------------------------------------------------------------
(* Properties. *)

SpentIn(k) == After(spent[k], minute - Window)
Tried(c, ip) == req[c].pc \in {"looking", "identifying", "unresolved"} /\ req[c].ip = ip /\ req[c].bearer # None

\* No answer is longer than its limit, the notes and the structured half included.
AnswersFit == \A text, json \in 0..MaxResult + 1 : LET w == Wire(text, json) IN w.text + w.json <= MaxResult

\* The budgets hold under concurrency.  A token's calls in any minute are its budget
\* exactly and hold no more than its slots (limits.go:21-28); what is asked first and
\* recorded later overshoots by no more than the requests already past the question:
\* the bearers that fail from one address (http.go:151-166), and the live tokens of a
\* member (tokens_http.go:176-180).  And an answer fits its limit (host.go).
WithinLimits ==
  /\ \A t \in Token : /\ SpentIn(t) <= Rate
                      /\ held[t] = Cardinality({c \in Poster : Holds(c) /\ req[c].bearer = t}) /\ held[t] <= Width
  /\ \A ip \in Ip : SpentIn(ip) + Cardinality({c \in Poster : Tried(c, ip)}) < Rate + Cardinality(Poster)
  /\ \A u \in Member : CountLive(u, minute) + Cardinality({c \in Poster : At(c, "minting") /\ req[c].user = u})
                        < MaxTokens + Cardinality(Poster)
  /\ AnswersFit
=============================================================================

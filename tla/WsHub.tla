------------------------------- MODULE WsHub -------------------------------
(***************************************************************************)
(* The websocket hub of the backend (backend/internal/platform/ws): the    *)
(* three client indexes, the /ws handler goroutine of every connection,    *)
(* the connect-time re-check, the refcounted revalidation pump of every    *)
(* session, and the two sweeps that close the sockets of a session that is *)
(* gone.  What is published over those sockets is module WsFanout.         *)
(*                                                                         *)
(* A step is one critical section of Hub.mu, one atomic load or store, or  *)
(* one answer of the session store; everything between two of them is      *)
(* local to a goroutine.                                                   *)
(***************************************************************************)
EXTENDS Integers, FiniteSets

CONSTANTS
  Conn,         \* upgrade requests, each served once by one handler goroutine
  User, Session, Token,
  None,         \* the empty string of the Go code
  Upgrades,     \* what Authenticate may resolve a request to (ws.Upgrade)
  BypassActor,  \* the dev bypass actor's user id, or None in production
  Ending        \* a bound on instances: the sessions and tokens that may end

UpgradeType == [user : User \cup {None}, session : Session \cup {None},
                token : Token \cup {None}]

ASSUME NoneAssumption == None \notin Conn \cup User \cup Session \cup Token
ASSUME UpgradeAssumption == Upgrades \subseteq UpgradeType
ASSUME BypassAssumption == BypassActor \in User \cup {None}
ASSUME EndingAssumption == Ending \subseteq Session \cup Token

VARIABLES
  clients, byUser, bySession,  \* Hub: the three indexes over registered sockets
  epoch,                       \* Hub.epoch: the number of revocations swept
  pc,                          \* where the handler goroutine of a connection is
  cred,                        \* the (user, session, token) it was accepted with
  epochAt,                     \* its snapshot of epoch, taken before Authenticate
  revoked, cancelled,          \* client.revoked, and client.cancel has been called
  code,                        \* the close status put on the wire
  check,                       \* its connect-time re-check goroutine
  pumps,                       \* Hub.pumps: key -> handle
  refs, pumpPc,                \* per handle: sessionPump.refs, runSessionPump's place
  handle,                      \* the handle the connection must release
  doomed,                      \* unindexed by a sweep that has still to revoke them
  row,                         \* per session: its row, and its announcement's progress
  dead                         \* tokens that stopped resolving with no announcement

indexVars == <<clients, byUser, bySession>>
connVars  == <<pc, cred, epochAt, code>>
stopVars  == <<revoked, cancelled>>
pumpVars  == <<pumps, refs, pumpPc, handle>>
authVars  == <<row, dead>>
vars == <<indexVars, epoch, connVars, stopVars, check, pumpVars, doomed, authVars>>

(***************************************************************************)
(* A pump is shared by the sockets that agree on all three fields.  Its    *)
(* handle is named after the connection that started it: a connection      *)
(* starts at most one pump, and cred[p] is then the pump's key.            *)
(***************************************************************************)
PumpKey == {u \in UpgradeType : u.session # None /\ u.token # None}

Credential(u, s, t) == [user |-> u, session |-> s, token |-> t]
Anonymous == Credential(None, None, None)

\* Does the store still resolve what this upgrade was authorised by?
Authorised(u) == /\ u.session # None => row[u.session] = "live"
                 /\ u.token \notin dead

\* A connection whose upgrade named no session is degraded to broadcast-only.
Resolved(u) == IF u.session = None THEN Credential(None, None, u.token) ELSE u

Init ==
  /\ clients = {} /\ epoch = 0
  /\ byUser = [u \in User |-> {}]
  /\ bySession = [s \in Session |-> {}]
  /\ pc = [c \in Conn |-> "idle"]
  /\ cred = [c \in Conn |-> Anonymous]
  /\ epochAt = [c \in Conn |-> 0]
  /\ revoked = [c \in Conn |-> FALSE]
  /\ cancelled = [c \in Conn |-> FALSE]
  /\ code = [c \in Conn |-> "none"]
  /\ check = [c \in Conn |-> "none"]
  /\ pumps = [k \in PumpKey |-> None]
  /\ refs = [p \in Conn |-> 0]
  /\ pumpPc = [p \in Conn |-> "none"]
  /\ handle = [c \in Conn |-> None]
  /\ doomed = {}
  /\ row = [s \in Session |-> "live"]
  /\ dead = {}

----------------------------------------------------------------------------
(* The index operations, each one critical section of Hub.mu. *)

Index(c) ==
  /\ clients' = clients \cup {c}
  /\ byUser' = [u \in User |-> IF u = cred[c].user THEN byUser[u] \cup {c} ELSE byUser[u]]
  /\ bySession' = [s \in Session |->
                     IF s = cred[c].session THEN bySession[s] \cup {c} ELSE bySession[s]]

\* Mutant: remove forgets the session index.
UnindexKeepsSession(C) ==
  /\ clients' = clients \ C
  /\ byUser' = [u \in User |-> byUser[u] \ C]
  /\ UNCHANGED bySession

Unindex(C) ==
  /\ clients' = clients \ C
  /\ byUser' = [u \in User |-> byUser[u] \ C]
  /\ bySession' = [s \in Session |-> bySession[s] \ C]

\* client.revoke: the reason is recorded before the connection is cancelled.
Revoke(c) ==
  /\ revoked' = [revoked EXCEPT ![c] = TRUE]
  /\ cancelled' = [cancelled EXCEPT ![c] = TRUE]

----------------------------------------------------------------------------
(* The upgrade handler. *)

\* The epoch is read before the upgrade decision's Lookup.
Begin(c) ==
  /\ pc[c] = "idle"
  /\ pc' = [pc EXCEPT ![c] = "snapped"]
  /\ epochAt' = [epochAt EXCEPT ![c] = epoch]
  /\ UNCHANGED <<indexVars, epoch, cred, code, stopVars, check, pumpVars, doomed, authVars>>

\* Authenticate looks the session up; the dev bypass never calls it.
Authenticate(c) ==
  /\ pc[c] = "snapped"
  /\ IF BypassActor # None
     THEN cred' = [cred EXCEPT ![c] = Credential(BypassActor, None, None)]
     ELSE \E u \in Upgrades : Authorised(u) /\ cred' = [cred EXCEPT ![c] = Resolved(u)]
  /\ pc' = [pc EXCEPT ![c] = "authed"]
  /\ UNCHANGED <<indexVars, epoch, epochAt, code, stopVars, check, pumpVars, doomed, authVars>>

\* A 401, or an Accept that failed: nothing has been registered yet.
Refuse(c) ==
  /\ pc[c] \in {"snapped", "authed"}
  /\ pc' = [pc EXCEPT ![c] = "refused"]
  /\ UNCHANGED <<indexVars, epoch, cred, epochAt, code, stopVars, check, pumpVars,
                 doomed, authVars>>

\* h.add, after Accept.
Register(c) ==
  /\ pc[c] = "authed"
  /\ Index(c)
  /\ pc' = [pc EXCEPT ![c] = "registered"]
  /\ UNCHANGED <<epoch, cred, epochAt, code, stopVars, check, pumpVars, doomed, authVars>>

\* The connect-time re-check runs in a goroutine, and only when the epoch moved.
CompareEpoch(c) ==
  /\ pc[c] = "registered"
  /\ pc' = [pc EXCEPT ![c] = "compared"]
  /\ check' = IF cred[c].token # None /\ epoch # epochAt[c]
              THEN [check EXCEPT ![c] = "pending"] ELSE check
  /\ UNCHANGED <<indexVars, epoch, cred, epochAt, code, stopVars, pumpVars, doomed, authVars>>

\* startSessionPump: join the ticker registered for this key, or start one.
JoinPump(c) ==
  /\ pc[c] = "compared"
  /\ pc' = [pc EXCEPT ![c] = "open"]
  /\ IF cred[c] \notin PumpKey THEN UNCHANGED pumpVars
     ELSE LET p == IF pumps[cred[c]] = None THEN c ELSE pumps[cred[c]] IN
          /\ handle' = [handle EXCEPT ![c] = p]
          /\ refs' = [refs EXCEPT ![p] = @ + 1]
          /\ pumps' = [pumps EXCEPT ![cred[c]] = p]
          /\ pumpPc' = IF p = c THEN [pumpPc EXCEPT ![p] = "ticking"] ELSE pumpPc
  /\ UNCHANGED <<indexVars, epoch, cred, epochAt, code, stopVars, check, doomed, authVars>>

\* readPump: the browser closed the connection, or the network did.
ClientGone(c) ==
  /\ pc[c] \in {"registered", "compared", "open"}
  /\ ~cancelled[c]
  /\ cancelled' = [cancelled EXCEPT ![c] = TRUE]
  /\ UNCHANGED <<indexVars, epoch, connVars, revoked, check, pumpVars, doomed, authVars>>

\* writePump returned; the first deferred call is releaseSessionPump.
ReleasePump(c) ==
  /\ pc[c] = "open" /\ cancelled[c]
  /\ pc' = [pc EXCEPT ![c] = "released"]
  /\ IF handle[c] = None \/ pumps[cred[c]] # handle[c]
     THEN UNCHANGED <<pumps, refs, pumpPc>>   \* retired: its goroutine is gone
     ELSE LET p == handle[c] IN
          /\ refs' = [refs EXCEPT ![p] = @ - 1]
          /\ IF refs[p] > 1 THEN UNCHANGED <<pumps, pumpPc>>
             ELSE /\ pumps' = [pumps EXCEPT ![cred[c]] = None]
                  /\ pumpPc' = IF pumpPc[p] = "ticking"
                               THEN [pumpPc EXCEPT ![p] = "stopped"] ELSE pumpPc
  /\ handle' = [handle EXCEPT ![c] = None]
  /\ UNCHANGED <<indexVars, epoch, cred, epochAt, code, stopVars, check, doomed, authVars>>

\* The deferred h.remove.
Remove(c) ==
  /\ pc[c] = "released"
  /\ Unindex({c})
  /\ pc' = [pc EXCEPT ![c] = "removed"]
  /\ UNCHANGED <<epoch, cred, epochAt, code, stopVars, check, pumpVars, doomed, authVars>>

\* The deferred conn.Close, whose status tells a revocation from a restart.
Close(c) ==
  /\ pc[c] = "removed"
  /\ pc' = [pc EXCEPT ![c] = "closed"]
  /\ code' = [code EXCEPT ![c] = IF revoked[c] THEN "policy" ELSE "normal"]
  /\ UNCHANGED <<indexVars, epoch, cred, epochAt, stopVars, check, pumpVars, doomed, authVars>>

----------------------------------------------------------------------------
(* The connect-time re-check goroutine. *)

\* Gone closes; a live row, or a store that cannot answer, keeps the socket.
CheckAnswers(c) ==
  /\ check[c] = "pending"
  /\ \E verdict \in {"gone", "valid", "unknown"} :
       /\ verdict = "gone" => ~Authorised(cred[c])
       /\ verdict = "valid" => Authorised(cred[c])
       /\ check' = [check EXCEPT ![c] = verdict]
  /\ UNCHANGED <<indexVars, epoch, connVars, stopVars, pumpVars, doomed, authVars>>

CheckRemoves(c) ==
  /\ check[c] = "gone"
  /\ Unindex({c})
  /\ check' = [check EXCEPT ![c] = "removed"]
  /\ UNCHANGED <<epoch, connVars, stopVars, pumpVars, doomed, authVars>>

CheckRevokes(c) ==
  /\ check[c] = "removed"
  /\ Revoke(c)
  /\ check' = [check EXCEPT ![c] = "done"]
  /\ UNCHANGED <<indexVars, epoch, connVars, pumpVars, doomed, authVars>>

----------------------------------------------------------------------------
(* runSessionPump.  A tick whose verdict keeps the sockets changes nothing. *)

TickGone(p) ==
  /\ pumpPc[p] = "ticking"
  /\ ~Authorised(cred[p])
  /\ pumpPc' = [pumpPc EXCEPT ![p] = "gone"]
  /\ UNCHANGED <<indexVars, epoch, connVars, stopVars, check, pumps, refs, handle, doomed,
                 authVars>>

\* Mutant: a pump that took its verdict stays registered.
RetirePumpKeepsEntry(p) ==
  /\ pumpPc[p] = "gone"
  /\ pumpPc' = [pumpPc EXCEPT ![p] = "retired"]
  /\ UNCHANGED <<indexVars, epoch, connVars, stopVars, check, pumps, refs, handle, doomed,
                 authVars>>

\* retireSessionPump, before the sweep: a later socket starts a live ticker.
RetirePump(p) ==
  /\ pumpPc[p] = "gone"
  /\ pumpPc' = [pumpPc EXCEPT ![p] = "retired"]
  /\ pumps' = [k \in PumpKey |-> IF k = cred[p] /\ pumps[k] = p THEN None ELSE pumps[k]]
  /\ UNCHANGED <<indexVars, epoch, connVars, stopVars, check, refs, handle, doomed, authVars>>

\* Mutant: a retiring pump closes every socket of its session.
PumpTargetsSession(p) == bySession[cred[p].session]

\* The sockets a pump's verdict was about: those sharing all three fields.
PumpTargets(p) ==
  {c \in bySession[cred[p].session] : cred[c].user = cred[p].user /\ cred[c].token = cred[p].token}

\* disconnectPump up to the unlock.
SweepPump(p) ==
  /\ pumpPc[p] = "retired"
  /\ epoch' = epoch + 1
  /\ doomed' = doomed \cup PumpTargets(p)
  /\ Unindex(PumpTargets(p))
  /\ pumpPc' = [pumpPc EXCEPT ![p] = "stopped"]
  /\ UNCHANGED <<connVars, stopVars, check, pumps, refs, handle, authVars>>

----------------------------------------------------------------------------
(* Auth, as the hub sees it: rows that stop resolving, announced or not. *)

\* A logout or a fail-closed re-mint commits the revocation of a session row.
RevokeRow(s) ==
  /\ s \in Ending /\ row[s] = "live"
  /\ row' = [row EXCEPT ![s] = "revoked"]
  /\ UNCHANGED <<indexVars, epoch, connVars, stopVars, check, pumpVars, doomed, dead>>

\* Mutant: a sweep that finds nobody does not move the epoch.
SweepSessionLazyEpoch(s) ==
  /\ row[s] = "revoked"
  /\ row' = [row EXCEPT ![s] = "announced"]
  /\ epoch' = IF bySession[s] = {} THEN epoch ELSE epoch + 1
  /\ doomed' = doomed \cup bySession[s]
  /\ Unindex(bySession[s])
  /\ UNCHANGED <<connVars, stopVars, check, pumpVars, dead>>

\* ... and announces it: DisconnectSession up to the unlock.
SweepSession(s) ==
  /\ row[s] = "revoked"
  /\ row' = [row EXCEPT ![s] = "announced"]
  /\ epoch' = epoch + 1
  /\ doomed' = doomed \cup bySession[s]
  /\ Unindex(bySession[s])
  /\ UNCHANGED <<connVars, stopVars, check, pumpVars, dead>>

\* After the unlock the sweep revokes its sockets one at a time.  A socket is
\* doomed by one sweep at most, for the next one no longer finds it indexed.
RevokeDoomed(c) ==
  /\ c \in doomed
  /\ Revoke(c)
  /\ doomed' = doomed \ {c}
  /\ UNCHANGED <<indexVars, epoch, connVars, check, pumpVars, authVars>>

\* A TTL expires, a row is revoked out of band: nothing tells the hub.
ExpireToken(t) ==
  /\ t \in Ending \ dead
  /\ dead' = dead \cup {t}
  /\ UNCHANGED <<indexVars, epoch, connVars, stopVars, check, pumpVars, doomed, row>>

----------------------------------------------------------------------------

Handler(c) == \/ Begin(c) \/ Authenticate(c) \/ Refuse(c) \/ Register(c) \/ CompareEpoch(c)
              \/ JoinPump(c) \/ ReleasePump(c) \/ Remove(c) \/ Close(c)
Recheck(c) == CheckAnswers(c) \/ CheckRemoves(c) \/ CheckRevokes(c)
Pump(p)    == TickGone(p) \/ RetirePump(p) \/ SweepPump(p)
Auth       == \/ \E s \in Session : RevokeRow(s) \/ SweepSession(s)
              \/ \E t \in Token : ExpireToken(t)

Next == \/ \E c \in Conn : \/ Handler(c) \/ ClientGone(c) \/ Recheck(c)
                           \/ Pump(c) \/ RevokeDoomed(c)
        \/ Auth

Spec == Init /\ [][Next]_vars

(***************************************************************************)
(* Goroutines are scheduled, a Write gives up after five seconds, and a    *)
(* ticker re-arms until it gets a verdict.  No fairness is assumed of the  *)
(* browser, of auth's revocations, or of an upgrade ever being requested.  *)
(***************************************************************************)
Fairness ==
  \A c \in Conn :    /\ WF_vars(Register(c)) /\ WF_vars(CompareEpoch(c)) /\ WF_vars(JoinPump(c))
                     /\ WF_vars(ReleasePump(c)) /\ WF_vars(Remove(c)) /\ WF_vars(Close(c))
                     /\ WF_vars(Recheck(c)) /\ WF_vars(Pump(c)) /\ WF_vars(RevokeDoomed(c))

FairSpec == Spec /\ Fairness

----------------------------------------------------------------------------
(* Properties. *)

PcType == {"idle", "snapped", "authed", "refused", "registered", "compared", "open",
           "released", "removed", "closed"}
CheckType == {"none", "pending", "gone", "valid", "unknown", "removed", "done"}

\* The type invariant: what each field of the hub, the handlers and the pumps may hold.
TypeOK ==
  /\ clients \subseteq Conn /\ epoch \in Nat
  /\ byUser \in [User -> SUBSET Conn] /\ bySession \in [Session -> SUBSET Conn]
  /\ pc \in [Conn -> PcType] /\ cred \in [Conn -> UpgradeType] /\ epochAt \in [Conn -> Nat]
  /\ revoked \in [Conn -> BOOLEAN] /\ cancelled \in [Conn -> BOOLEAN]
  /\ code \in [Conn -> {"none", "policy", "normal"}]
  /\ check \in [Conn -> CheckType]
  /\ pumps \in [PumpKey -> Conn \cup {None}]
  /\ refs \in [Conn -> Int]
  /\ pumpPc \in [Conn -> {"none", "ticking", "gone", "retired", "stopped"}]
  /\ handle \in [Conn -> Conn \cup {None}]
  /\ doomed \subseteq Conn
  /\ row \in [Session -> {"live", "revoked", "announced"}]
  /\ dead \subseteq Token

\* The three maps of the hub file the same sockets, and a connection is in them
\* only while its handler is between h.add and its own h.remove: no handler,
\* sweep or late re-check leaves a dead client behind in any of them.
IndexAgrees ==
  /\ \A u \in User : byUser[u] = {c \in clients : cred[c].user = u}
  /\ \A s \in Session : bySession[s] = {c \in clients : cred[c].session = s}
  /\ \A c \in clients : pc[c] \in {"registered", "compared", "open", "released"}

\* A revocation that was announced leaves no targetable socket of its session
\* behind, whatever stage of the upgrade the socket was at: one that is still
\* indexed is about to be re-checked, or was re-checked while the store could not
\* answer.  This is what Hub.epoch is for.
SweptIsCovered ==
  \A c \in clients :
    /\ cred[c].session # None /\ cred[c].token # None
    /\ row[cred[c].session] = "announced"
    => \/ pc[c] = "registered" /\ epochAt[c] # epoch
       \/ check[c] \in {"pending", "gone", "unknown"}

Holders(p) == {c \in Conn : handle[c] = p}

\* sessionPump.refs counts the sockets that will release it, a registered pump
\* is running and held by somebody, and a running ticker is registered: none is
\* orphaned, and none is stopped under a socket that still depends on it.
PumpRefs ==
  /\ \A k \in PumpKey, p \in Conn : pumps[k] = p =>
       /\ cred[p] = k /\ pumpPc[p] \in {"ticking", "gone"}
       /\ Holders(p) # {} /\ refs[p] = Cardinality(Holders(p))
  /\ \A p \in Conn : pumpPc[p] = "ticking" => cred[p] \in PumpKey /\ pumps[cred[p]] = p

\* Every open socket that can be re-checked is watched: its ticker runs, or has
\* reached the verdict that is about to close it.  Retiring a pump after the
\* sweep instead of before would leave a socket on a dead ticker for good.
OpenIsWatched ==
  \A c \in clients : pc[c] = "open" /\ cred[c] \in PumpKey =>
    LET p == handle[c] IN
    /\ p # None /\ cred[p] = cred[c]
    /\ \/ pumpPc[p] = "ticking" /\ pumps[cred[c]] = p
       \/ pumpPc[p] \in {"gone", "retired"}

\* The hub's tables are true of its sockets: the indexes agree, the pumps are counted, and
\* every open socket hangs on one that still runs (hub.go:510-560, 690-740).
RegistryHolds == IndexAgrees /\ PumpRefs /\ OpenIsWatched

\* Only a socket whose own session row or own token stopped resolving is closed
\* as revoked: a sibling token on the same session, another session of the same
\* member and a connection that merely went away are never signed out.
OnlyTheGoneAreRevoked ==
  \A c \in Conn : revoked[c] \/ c \in doomed => ~Authorised(cred[c])

\* A socket whose session has ended, announced or not, is closed in the end,
\* even if the announcement raced its upgrade and the re-check got no answer.
DeadSocketsClose ==
  \A c \in Conn : (pc[c] = "open" /\ cred[c] \in PumpKey /\ ~Authorised(cred[c]))
                    ~> (pc[c] = "closed")
============================================================================

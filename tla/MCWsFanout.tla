----------------------------- MODULE MCWsFanout -----------------------------
(***************************************************************************)
(* Instances of WsHub and WsFanout for TLC.                                *)
(***************************************************************************)
EXTENDS WsFanout, TLC

CONSTANTS c1, c2, c3, u1, s1, s2, t1, t2, m1, m2, m3

VARIABLE published  \* the messages of this behaviour

\* One cookie jar with two tabs' worth of tokens: sibling pumps on one session.
SiblingUpgrades == {Credential(u1, s1, t1), Credential(u1, s1, t2)}
\* One cookie jar, whose tabs agree on everything and share a pump.
TabUpgrades == {Credential(u1, s1, t1)}
\* A phone and a laptop of one member.
DeviceUpgrades == {Credential(u1, s1, t1), Credential(u1, s2, t2)}
\* The connections Authenticate may hand over with a field missing.
PartialUpgrades == {Credential(None, s1, t1), Credential(u1, None, t2), Credential(u1, s1, None)}
\* A tab, and a connection whose upgrade lost its session id.
TabsAndUnrevocable == {Credential(u1, s1, t1), Credential(u1, None, t1)}

\* Two targeted publishes; m3 goes to everybody.
TwoTargeted == [m \in {m1, m2} |-> {u1, None}]

(***************************************************************************)
(* The scenes an instance plays: how many requests arrive, what they       *)
(* resolve to, which sessions and tokens end, and what is published.  Each *)
(* is a bound; all are explored by one run, through the constraint         *)
(* OneScene.  The scene of three requests is about who holds a pump: none  *)
(* of them is refused, and none needs the connect-time re-check.           *)
(***************************************************************************)
Scenes ==
  {[conns |-> 2, upgrades |-> PartialUpgrades, ending |-> {s1, t1}, msgs |-> {}],
   [conns |-> 2, upgrades |-> DeviceUpgrades,  ending |-> {s1},     msgs |-> {}],
   [conns |-> 3, upgrades |-> TabUpgrades,     ending |-> {t1},     msgs |-> {}],
   [conns |-> 2, upgrades |-> SiblingUpgrades, ending |-> {t1, t2}, msgs |-> {}],
   [conns |-> 2, upgrades |-> TabsAndUnrevocable, ending |-> {},    msgs |-> {m1, m2}],
   [conns |-> 1, upgrades |-> TabsAndUnrevocable, ending |-> {s1},  msgs |-> {m1, m2}],
   [conns |-> 1, upgrades |-> TabsAndUnrevocable, ending |-> {s1},  msgs |-> {m1, m3}]}
AllUpgrades == UNION {sc.upgrades : sc \in Scenes}

(***************************************************************************)
(* A view that drops what no later step and no invariant reads: an epoch   *)
(* is only compared for equality and only until its handler has compared   *)
(* it, a finished connection's credential matters only as a pump's key,    *)
(* and nothing more happens to a closed socket.                            *)
(***************************************************************************)
Over == {c \in Conn : pc[c] \in {"refused", "closed"}}
Forgotten == {c \in Over : pumpPc[c] \in {"none", "stopped"}}
Checking  == {c \in Conn : check[c] \notin {"none", "valid", "done"}}
EpochMoved == {c \in Conn : pc[c] \in {"snapped", "authed", "registered"} /\ epochAt[c] # epoch}
HubView ==
  <<indexVars, EpochMoved, pc, pumpVars, authVars,
    [c \in Conn |-> IF c \in Forgotten THEN Anonymous ELSE cred[c]],
    [c \in Conn \ Over |-> <<revoked[c], cancelled[c]>>],
    [c \in Checking |-> check[c]],
    doomed \ Over>>
FanView == <<indexVars, EpochMoved, pc, cred, code, stopVars, check, pumpVars, doomed, authVars>>
SocketsView == IF published = {} THEN HubView ELSE <<published, FanView, fanVars>>

\* What an instance publishes is chosen at its start.
SocketsInit == FanInit /\ published \in {sc.msgs : sc \in Scenes}
SocketsNext == /\ UNCHANGED published
               /\ \/ HubStep
                  \/ \E m \in published : Publisher(m)
                  \/ published # {} /\ \E c \in Conn : Writer(c)
SocketsSpec == SocketsInit /\ [][SocketsNext]_<<allVars, published>>

Ended == {s \in Session : row[s] # "live"} \cup dead
OneScene ==
  \E sc \in {x \in Scenes : x.msgs = published} :
    /\ Cardinality({c \in Conn : pc[c] # "idle"}) <= sc.conns
    /\ \A c \in Conn \ Forgotten :
         cred[c] = Anonymous \/ \E u \in sc.upgrades : cred[c] = Resolved(u)
    /\ sc.conns = 3 => \A c \in Conn : pc[c] # "refused" /\ c \notin Checking
    /\ Ended \subseteq sc.ending

ConnSymmetry == Permutations(Conn)
=============================================================================

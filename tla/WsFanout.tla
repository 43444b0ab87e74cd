------------------------------ MODULE WsFanout ------------------------------
(***************************************************************************)
(* What the hub publishes over the sockets of WsHub: Publish to every      *)
(* client, PublishTo to the sockets of a member set, the bounded send      *)
(* queue of each client and the write pump that drains it.                 *)
(*                                                                         *)
(* The steps of WsHub are kept as they are; only a handler that unwinds    *)
(* has to wait for its write pump to be back in its select.                *)
(***************************************************************************)
EXTENDS WsHub, Sequences

CONSTANTS
  Msg,          \* the publishes an instance makes
  Audience,     \* the ids handed to PublishTo, for the messages that are targeted
  SendBuffer    \* the capacity of client.send

Targeted == DOMAIN Audience

\* What an instance has to assume.
ASSUME FanoutAssumption ==
  /\ Targeted \subseteq Msg /\ None \notin Msg
  /\ \A m \in Targeted : Audience[m] \subseteq User \cup {None}
  /\ SendBuffer \in Nat \ {0}

VARIABLES
  pub,       \* Hub.pub: the targeted publish that holds the lock, or None
  mpc,       \* where the publishing goroutine of a message is
  targets,   \* the clients of its snapshot fanOut has still to visit
  chosen,    \* the client whose revoked flag it has just read as false, or None
  queue,     \* client.send
  writer,    \* where the write pump of a connection is
  frame,     \* the frame it has taken off the queue, or None
  wire,      \* the frames it has written
  late,      \* how many of them after the socket was revoked
  barred     \* per message: the sockets already condemned when it was snapshotted

pubVars    == <<pub, mpc, targets, chosen, barred>>
writerVars == <<writer, frame, wire, late>>
fanVars    == <<pubVars, queue, writerVars>>
allVars    == <<vars, fanVars>>

FanInit ==
  /\ Init
  /\ pub = None
  /\ mpc = [m \in Msg |-> "idle"]
  /\ targets = [m \in Msg |-> {}]
  /\ chosen = [m \in Msg |-> None]
  /\ barred = [m \in Msg |-> {}]
  /\ queue = [c \in Conn |-> <<>>]
  /\ writer = [c \in Conn |-> "select"]
  /\ frame = [c \in Conn |-> None]
  /\ wire = [c \in Conn |-> <<>>]
  /\ late = [c \in Conn |-> 0]

\* The snapshot both publishes take of their recipients, under Hub.mu.
Snapshot(m, recipients) ==
  /\ mpc' = [mpc EXCEPT ![m] = IF recipients = {} THEN "done" ELSE "fanning"]
  /\ targets' = [targets EXCEPT ![m] = recipients]
  /\ barred' = [barred EXCEPT ![m] = doomed \cup {c \in Conn : revoked[c]}]

\* Mutant: targeted publishes are not serialised.
PublishToUnlocked(m) ==
  /\ m \in Targeted /\ mpc[m] = "idle"
  /\ Snapshot(m, UNION {byUser[u] : u \in Audience[m] \ {None}})
  /\ UNCHANGED <<vars, pub, chosen, queue, writerVars>>

\* PublishTo holds Hub.pub from its snapshot to its last send.
PublishTo(m) ==
  /\ m \in Targeted /\ mpc[m] = "idle" /\ pub = None
  /\ LET recipients == UNION {byUser[u] : u \in Audience[m] \ {None}} IN
     /\ Snapshot(m, recipients)
     /\ pub' = IF recipients = {} THEN None ELSE m
  /\ UNCHANGED <<vars, chosen, queue, writerVars>>

Publish(m) ==
  /\ m \notin Targeted /\ mpc[m] = "idle"
  /\ Snapshot(m, clients)
  /\ UNCHANGED <<vars, pub, chosen, queue, writerVars>>

\* fanOut reads the revoked flag of the next client of the snapshot...
FanCheck(m) ==
  /\ mpc[m] = "fanning" /\ chosen[m] = None
  /\ \E c \in targets[m] :
       /\ targets' = [targets EXCEPT ![m] = @ \ {c}]
       /\ chosen' = [chosen EXCEPT ![m] = IF revoked[c] THEN None ELSE c]
  /\ UNCHANGED <<vars, pub, mpc, barred, queue, writerVars>>

\* ... and sends to it without blocking: a full queue drops the frame.
FanSend(m) ==
  /\ chosen[m] # None
  /\ LET c == chosen[m] IN
     queue' = IF Len(queue[c]) < SendBuffer THEN [queue EXCEPT ![c] = Append(@, m)] ELSE queue
  /\ chosen' = [chosen EXCEPT ![m] = None]
  /\ UNCHANGED <<vars, pub, mpc, targets, barred, writerVars>>

FanDone(m) ==
  /\ mpc[m] = "fanning" /\ targets[m] = {} /\ chosen[m] = None
  /\ mpc' = [mpc EXCEPT ![m] = "done"]
  /\ pub' = IF pub = m THEN None ELSE pub
  /\ UNCHANGED <<vars, targets, chosen, barred, queue, writerVars>>

\* writePump takes a frame, though ctx may be done as well: select picks either.
TakeFrame(c) ==
  /\ pc[c] = "open" /\ writer[c] = "select" /\ queue[c] # <<>>
  /\ frame' = [frame EXCEPT ![c] = Head(queue[c])]
  /\ queue' = [queue EXCEPT ![c] = Tail(@)]
  /\ writer' = [writer EXCEPT ![c] = "taken"]
  /\ UNCHANGED <<vars, pubVars, wire, late>>

\* Mutant: only fanOut looks at the revoked flag.
CheckFrameNever(c) ==
  /\ writer[c] = "taken"
  /\ writer' = [writer EXCEPT ![c] = "writing"]
  /\ UNCHANGED <<vars, pubVars, queue, frame, wire, late>>

\* The revoked flag is read once more, right before the write.
CheckFrame(c) ==
  /\ writer[c] = "taken"
  /\ writer' = [writer EXCEPT ![c] = IF revoked[c] THEN "select" ELSE "writing"]
  /\ frame' = IF revoked[c] THEN [frame EXCEPT ![c] = None] ELSE frame
  /\ UNCHANGED <<vars, pubVars, queue, wire, late>>

WriteFrame(c) ==
  /\ writer[c] = "writing"
  /\ wire' = [wire EXCEPT ![c] = Append(@, frame[c])]
  /\ late' = IF revoked[c] THEN [late EXCEPT ![c] = @ + 1] ELSE late
  /\ writer' = [writer EXCEPT ![c] = "select"]
  /\ frame' = [frame EXCEPT ![c] = None]
  /\ UNCHANGED <<vars, pubVars, queue>>

\* A write that fails, or runs into its five seconds, ends the connection.
WriteFails(c) ==
  /\ writer[c] = "writing"
  /\ cancelled' = [cancelled EXCEPT ![c] = TRUE]
  /\ writer' = [writer EXCEPT ![c] = "returned"]
  /\ frame' = [frame EXCEPT ![c] = None]
  /\ UNCHANGED <<indexVars, epoch, connVars, revoked, check, pumpVars, doomed, authVars,
                 pubVars, queue, wire, late>>

\* A step of the hub: the handler unwinds only from the write pump's select.
HubStep ==
  /\ Next
  /\ \A c \in Conn : writer[c] \in {"taken", "writing"} => pc'[c] = pc[c]
  /\ UNCHANGED fanVars

Publisher(m) == PublishTo(m) \/ Publish(m) \/ FanCheck(m) \/ FanSend(m) \/ FanDone(m)
Writer(c)    == TakeFrame(c) \/ CheckFrame(c) \/ WriteFrame(c) \/ WriteFails(c)

FanNext == \/ HubStep
           \/ \E m \in Msg : Publisher(m)
           \/ \E c \in Conn : Writer(c)

FanSpec == FanInit /\ [][FanNext]_allVars

----------------------------------------------------------------------------
(* Properties. *)

\* Everything that was ever queued for a connection and not discarded, in order.
Fed(c) == wire[c] \o (IF frame[c] = None THEN <<>> ELSE <<frame[c]>>) \o queue[c]
IsFed(c, m) == \E i \in 1..Len(Fed(c)) : Fed(c)[i] = m

\* A publish snapshotted after a socket was condemned never reaches it, not even
\* its queue: the sweeps unindex a socket in the step that condemns it.
NothingAfterTheVerdict ==
  \A m \in Msg, c \in Conn : c \in barred[m] => ~IsFed(c, m) /\ c \notin targets[m]

\* Of the publishes already under way, at most the frame being written when the
\* socket is revoked still reaches the wire.
AtMostOneLateFrame == \A c \in Conn : late[c] <= 1

\* Two targeted publishes reach all their common recipients in one order: a
\* reordering would read as a gap in the chat's prev_message_id chain.
Before(c, m, n) == \E i, j \in 1..Len(Fed(c)) : i < j /\ Fed(c)[i] = m /\ Fed(c)[j] = n
TargetedOrderAgrees ==
  \A c, d \in Conn, m, n \in Targeted : Before(c, m, n) => ~Before(d, n, m)

\* A connection no revocation could reach, because its upgrade named no session,
\* is never handed a member-restricted payload.
UnrevocableIsBroadcastOnly ==
  BypassActor = None =>
    \A c \in Conn, m \in Targeted : IsFed(c, m) => cred[c].session # None

\* A verdict on a socket is final: of what is published, what it may still hear is
\* one frame that was being written when it fell, and what nobody could ever take
\* back is not sent to it in the first place.
VerdictIsFinal == NothingAfterTheVerdict /\ AtMostOneLateFrame /\ UnrevocableIsBroadcastOnly
============================================================================

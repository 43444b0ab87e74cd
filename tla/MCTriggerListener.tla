-------------------------- MODULE MCTriggerListener --------------------------
(***************************************************************************)
(* Instances for TLC of what reaches the members when something happens:   *)
(* the listener's notifications, for a rule that sends at once and one     *)
(* with a coalescing window, both matching every event, and a conversation *)
(* with its tabs.  They share no state; a behaviour moves the variables of *)
(* one.                                                                    *)
(***************************************************************************)
EXTENDS TriggerListener, ChatThread

CONSTANTS atOnce, windowed, w1, u1, u2, k1, k2, Scenes

VARIABLE scene

AllMatch == [r \in Rule |-> Id]

\* What the proofs take of the constants, here of these.
ASSUME ConversationIsSound == ChatConstants

\* Who joins while messages are sent, and while one is answered or changed.
Busy == {c \in {k1, k2} : calls[c] # None}
Joining ==
  \/ \E m \in {u1, u2} :
       Room(m) \/ (Busy = {} /\ \E id \in {thread[k].id : k \in DOMAIN thread} : AdvanceRead(m, id))
  \/ \E c \in {k1, k2}, m \in {u1, u2} :
       \/ InRoom(m) /\ Len(thread) + Cardinality(Busy) < 2 /\ AsksToSend(c, m, 0)
       \/ /\ Busy = {} /\ Len(thread) < 2
          /\ \E id \in {thread[k].id : k \in DOMAIN thread} :
               AsksToSend(c, m, id) \/ \E op \in {"edit", "delete"} : AsksToChange(c, op, m, id)
  \/ \E c \in {k1, k2} : \/ SendMessage(c) \/ QuoteIsRead(c) \/ EditMessage(c)
                         \/ DeleteMessage(c) \/ Publishes(c, {}) \/ AnswerLands(c)
\* One member's tab while the other sends, and once the member; and while one message is
\* changed and marked.
OwnSent == {k \in DOMAIN thread : thread[k].author = u2}
TwoIn == CreateConversation(u1, {u2})
Following ==
  \/ TwoIn \/ Tabs(u2)
  \/ \E c \in {k1, k2}, m \in {u1, u2} :
       /\ InRoom(m) /\ Len(thread) + Cardinality(Sends) < 3
       /\ m = u2 => OwnSent = {} /\ \A s \in Sends : calls[s].actor # u2
       /\ AsksToSend(c, m, 0)
  \/ \E c \in {k1, k2} : Handles(c)
Reacting ==
  \/ TwoIn \/ Tabs(u2)
  \/ InRoom(u1) /\ thread = <<>> /\ Sends = {} /\ AsksToSend(k1, u1, 0)
  \/ \E id \in Offered(u1), op \in {"edit", "delete"} : AsksToChange(k1, op, u1, id)
  \/ \E id \in Offered(u2), on \in BOOLEAN : AsksToReact(k2, u2, id, on)
  \/ \E c \in {k1, k2} : Handles(c)

HeardInit == scene \in Scenes /\ Init /\ ChatInit /\ (scene # "rules" => rules = [r \in Rule |-> <<TRUE>>])
HeardNext ==
  /\ UNCHANGED scene
  /\ \/ scene = "rules" /\ Next /\ UNCHANGED chatVars
     \/ scene = "joining" /\ Joining /\ UNCHANGED vars
     \/ scene = "following" /\ Following /\ UNCHANGED vars
     \/ scene = "reacting" /\ Reacting /\ UNCHANGED vars
HeardSpec == HeardInit /\ [][HeardNext]_<<scene, vars, chatVars>>

(***************************************************************************)
(* The listener: around rules nobody edits, one fault with both of them    *)
(* and two with one of them off; and edits of the windowed rule, alone,    *)
(* around a tailer without a fault: one edit and two events, or two edits  *)
(* and one event.                                                          *)
(***************************************************************************)
OneScene ==
  \/ \A r \in Rule : Version(r) = 1 /\ (breaks > 1 => \E q \in Rule : rules[q] = <<FALSE>>)
  \/ /\ breaks = 0 /\ ctx = "live" /\ rules[atOnce] = <<FALSE>>
     /\ Version(windowed) > 2 => Cardinality(table) < 2

=============================================================================

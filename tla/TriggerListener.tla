--------------------------- MODULE TriggerListener ---------------------------
(***************************************************************************)
(* The trigger rules over the audit outbox (modules/admin/listener.go):    *)
(* the dedupe set, the cached rule set with its generation stamp, the      *)
(* coalescing windows and their timers, the detached sends, the edits of   *)
(* administrators, and the flush of an orderly shutdown.                   *)
(*                                                                         *)
(* A step under the listener's mutex is one action.  AuditOutbox's         *)
(* HandOver is expanded into the calls it makes.  Events of the admin      *)
(* module, which OnEvent ignores, are left out of the log.                 *)
(***************************************************************************)
EXTENDS AuditOutbox, Sequences, SequencesExt

CONSTANTS
  Rule,
  Windowed,   \* the rules with a coalescing window
  Matching,   \* Matching[r]: the events that rule r matches
  SeenCap,    \* seenCapacity
  MaxEdits    \* a bound: the edits of a rule

ASSUME ListenerAssumption ==
  /\ IsFiniteSet(Rule) /\ Windowed \subseteq Rule
  /\ Matching \in [Rule -> SUBSET Id]
  /\ SeenCap \in Nat \ {0} /\ MaxEdits \in Nat

Tailer == <<"tailer">>
Send   == Rule \X Id      \* a send: its rule and the event it describes
Reader == {Tailer} \cup Send

VARIABLES
  rules,     \* per rule: whether it is enabled, one entry per version
  settled,   \* per rule: the version that its last finished edit left
  editing,   \* the rules with an edit committed and not yet invalidated
  cache,     \* l.rules, l.loaded, l.generation
  load,      \* per reader of the rules: its load of the set under way
  call,      \* the tailer's call of the listener, and what it has to match yet
  seen,      \* l.seenSeq
  buffers,   \* per rule: its coalescing window
  sends,     \* the detached sends under way
  inflight,  \* the wait group's counter
  flush,     \* the shutdown flush: "none", "draining", "expired", "done"
  matched,   \* history of the process: per rule and event, how often they matched
  spent      \* and how often a send that covers the match ended

ruleVars     == <<rules, settled, editing>>
matchVars    == <<call, seen, buffers, matched>>
sendVars     == <<sends, inflight, flush, spent>>
listenerVars == <<ruleVars, cache, load, matchVars, sendVars>>
vars         == <<outboxVars, listenerVars>>

Version(r)    == Len(rules[r])
NoRules       == [r \in {} |-> 0]
Enabled       == [r \in {q \in Rule : Last(rules[q])} |-> Version(r)]
Unloaded(gen) == [loaded |-> FALSE, rules |-> NoRules, gen |-> gen]
NoLoad        == [step |-> "none", gen |-> 0, rules |-> NoRules, floor |-> <<>>]
NoCall        == [step |-> "none", rules |-> NoRules]
NoBuffer      == [ver |-> 0, event |-> 0, count |-> 0, covers |-> {}]
NoSends       == [k \in {} |-> 0]

Init ==
  /\ OutboxInit
  /\ cache = Unloaded(0) /\ load = [p \in Reader |-> NoLoad] /\ call = NoCall
  /\ seen = <<>> /\ buffers = [r \in Rule |-> NoBuffer]
  /\ sends = NoSends /\ inflight = 0 /\ flush = "none"
  /\ matched = [k \in Send |-> 0] /\ spent = [k \in Send |-> 0]
  /\ rules \in [Rule -> {<<TRUE>>, <<FALSE>>}]
  /\ settled = [r \in Rule |-> 1] /\ editing = {}

----------------------------------------------------------------------------
(* enabledRules: the cached set, or a load off the lock. *)

\* Who may ask for the rules now: NeedsChanges and OnEvent, and a starting send.
Asks(p) ==
  \/ p = Tailer /\ pc = "handing" /\ call.step \in {"none", "marked"}
  \/ p \in DOMAIN sends /\ sends[p].step = "start"

Stamp(p) ==
  /\ Asks(p) /\ load[p].step = "none" /\ ~cache.loaded
  /\ load' = [load EXCEPT ![p] =
       [NoLoad EXCEPT !.step = "stamped", !.gen = cache.gen, !.floor = settled]]
  /\ UNCHANGED <<outboxVars, ruleVars, cache, matchVars, sendVars>>

\* OnEvent reads under the tailer's context and a flushed send under the flush's
\* deadline; NeedsChanges and the other sends under one that is never cancelled.
Readable(p) ==
  IF p = Tailer THEN call.step = "marked" => ctx = "live"
  ELSE sends[p].bound => flush # "expired"

ReadRules(p) ==
  /\ load[p].step = "stamped" /\ ConnFree /\ Readable(p)
  /\ load' = [load EXCEPT ![p].step = "read", ![p].rules = Enabled]
  /\ UNCHANGED <<outboxVars, ruleVars, cache, matchVars, sendVars>>

CacheRules(l) ==
  IF l.gen = cache.gen THEN [loaded |-> TRUE, rules |-> l.rules, gen |-> cache.gen]
  ELSE cache

\* The set p obtains, from the cache or from its own load.
Obtains(p, R) ==
  \/ /\ Asks(p) /\ load[p].step = "none" /\ cache.loaded /\ R = cache.rules
     /\ UNCHANGED <<cache, load>>
  \/ /\ load[p].step = "read" /\ R = load[p].rules
     /\ cache' = CacheRules(load[p]) /\ load' = [load EXCEPT ![p] = NoLoad]

Obtainable == {cache.rules} \cup {load[p].rules : p \in Reader}

\* The oldest versions p may have obtained: what was settled when it asked.
Floor(p) == IF load[p].step = "read" THEN load[p].floor ELSE settled

Misses(p) ==
  /\ load[p].step = "stamped" /\ (ConnFree \/ ~Readable(p))
  /\ load' = [load EXCEPT ![p] = NoLoad]
  /\ UNCHANGED cache

----------------------------------------------------------------------------
(* Sends. *)

NewSend(ver, count, covers, bound) ==
  [step |-> "start", ver |-> ver, floor |-> 0, count |-> count, covers |-> covers,
   bound |-> bound]
With(new) == [k \in DOMAIN new \cup DOMAIN sends |-> IF k \in DOMAIN new THEN new[k] ELSE sends[k]]

\* dispatch, under the mutex: counted before it starts.
Dispatch(k, ver, count, covers) ==
  /\ sends' = With([j \in {k} |-> NewSend(ver, count, covers, FALSE)])
  /\ inflight' = inflight + 1
  /\ UNCHANGED <<flush, spent>>

EndSend(k) ==
  /\ sends' = [j \in DOMAIN sends \ {k} |-> sends[j]]
  /\ inflight' = inflight - 1
  /\ spent' = [j \in Send |->
       IF j[1] = k[1] /\ j[2] \in sends[k].covers THEN spent[j] + 1 ELSE spent[j]]
  /\ UNCHANGED flush

\* Mutant: the rule is sent as it was when its event matched.
ResolveRuleAsMatched(k) ==
  /\ k \in DOMAIN sends /\ sends[k].step = "start"
  /\ sends' = [sends EXCEPT ![k].step = "sending", ![k].floor = settled[k[1]]]
  /\ UNCHANGED <<outboxVars, ruleVars, cache, load, matchVars, inflight, flush, spent>>

\* currentRule: the rule as it is now, none if it is off or gone, and the copy in
\* hand if the rules cannot be read.
ResolveRule(k) ==
  /\ k \in DOMAIN sends /\ sends[k].step = "start"
  /\ \/ \E R \in Obtainable :
          /\ Obtains(k, R)
          /\ IF k[1] \in DOMAIN R
             THEN /\ sends' = [sends EXCEPT ![k].step = "sending", ![k].ver = R[k[1]],
                                            ![k].floor = Floor(k)[k[1]]]
                  /\ UNCHANGED <<inflight, flush, spent>>
             ELSE EndSend(k)
     \/ /\ Misses(k)
        /\ sends' = [sends EXCEPT ![k].step = "sending"]
        /\ UNCHANGED <<inflight, flush, spent>>
  /\ UNCHANGED <<outboxVars, ruleVars, matchVars>>

\* The push goes out, or the window, the conditions or the audience rule it out.
Push(k) ==
  /\ k \in DOMAIN sends /\ sends[k].step = "sending" /\ EndSend(k)
  /\ UNCHANGED <<outboxVars, ruleVars, cache, load, matchVars>>

----------------------------------------------------------------------------
(* A call of the tailer: NeedsChanges, then OnEvent. *)

InHand == CHOOSE e \in batch : IsLeast(e, batch)

Ask ==
  /\ call.step = "none" /\ pc = "handing"
  /\ Misses(Tailer) \/ \E R \in Obtainable : Obtains(Tailer, R)
  /\ call' = [call EXCEPT !.step = "asked"]
  /\ UNCHANGED <<outboxVars, ruleVars, seen, buffers, matched, sendVars>>

Return == HandOver /\ call' = NoCall

Remember(e) == IF Len(seen) < SeenCap THEN Append(seen, e) ELSE Append(Tail(seen), e)

\* alreadySeen: a redelivery within the process ends here.
See ==
  /\ call.step = "asked"
  /\ IF InHand \in Range(seen)
     THEN Return /\ UNCHANGED seen
     ELSE /\ seen' = Remember(InHand)
          /\ call' = [call EXCEPT !.step = "marked"]
          /\ UNCHANGED outboxVars
  /\ UNCHANGED <<ruleVars, cache, load, buffers, matched, sendVars>>

Evaluate ==
  /\ call.step = "marked"
  /\ \E R \in Obtainable :
       /\ Obtains(Tailer, R)
       /\ call' = [step |-> "matching",
                   rules |-> [r \in {q \in DOMAIN R : InHand \in Matching[q]} |-> R[r]]]
  /\ UNCHANGED <<outboxVars, ruleVars, seen, buffers, matched, sendVars>>

\* forget: the mark goes, wherever it is.
Forget(e) ==
  IF e \notin Range(seen) THEN UNCHANGED seen
  ELSE \E i \in 1..Len(seen) : /\ seen[i] = e /\ \A j \in 1..(i - 1) : seen[j] # e
                               /\ seen' = RemoveAt(seen, i)

\* Mutant: a listener that fails ends the scan.
UnevaluatedStalls ==
  /\ call.step = "marked"
  /\ Misses(Tailer)
  /\ Forget(InHand)
  /\ pc' = "idle" /\ batch' = {} /\ call' = NoCall
  /\ UNCHANGED <<txVars, table, nudged, ctx, from, full, cursor, handed, breaks>>
  /\ UNCHANGED <<ruleVars, buffers, matched, sendVars>>

\* The rules cannot be read: the mark is dropped and an error reported, which
\* the tailer logs.
Unevaluated ==
  /\ call.step = "marked"
  /\ Misses(Tailer)
  /\ Forget(InHand)
  /\ Return
  /\ UNCHANGED <<ruleVars, buffers, matched, sendVars>>

\* A later match of an open window: the newest event, and one more.
Fold(b, e) == [b EXCEPT !.event = e, !.count = @ + 1, !.covers = @ \cup {e}]

\* handleMatch: send now, join the rule's window, or open one.
HandleMatch(r) ==
  /\ call.step = "matching" /\ r \in DOMAIN call.rules
  /\ IF r \notin Windowed
     THEN Dispatch(<<r, InHand>>, call.rules[r], 1, {InHand}) /\ UNCHANGED buffers
     ELSE /\ buffers' = [buffers EXCEPT ![r] =
               IF @.count > 0 THEN Fold(@, InHand)
               ELSE Fold([NoBuffer EXCEPT !.ver = call.rules[r]], InHand)]
          /\ UNCHANGED sendVars
  /\ call' = [call EXCEPT !.rules = [q \in DOMAIN @ \ {r} |-> @[q]]]
  /\ matched' = [matched EXCEPT ![<<r, InHand>>] = @ + 1]
  /\ UNCHANGED <<outboxVars, ruleVars, cache, load, seen>>

Matched ==
  /\ call.step = "matching" /\ DOMAIN call.rules = {}
  /\ Return
  /\ UNCHANGED <<ruleVars, cache, load, seen, buffers, matched, sendVars>>

\* The window of a rule closes, on the timer's own goroutine.
TimerFires(r) ==
  /\ buffers[r].count > 0
  /\ LET b == buffers[r] IN Dispatch(<<r, b.event>>, b.ver, b.count, b.covers)
  /\ buffers' = [buffers EXCEPT ![r] = NoBuffer]
  /\ UNCHANGED <<outboxVars, ruleVars, cache, load, call, seen, matched>>

----------------------------------------------------------------------------
(* Administrators, and the process. *)

\* CreateRule, UpdateRule or DeleteRule up to its commit, and InvalidateRules.
EditRule(r) ==
  /\ pc # "down" /\ ConnFree /\ r \notin editing /\ Version(r) <= MaxEdits
  /\ \E on \in BOOLEAN : rules' = [rules EXCEPT ![r] = Append(@, on)]
  /\ editing' = editing \cup {r}
  /\ UNCHANGED <<outboxVars, settled, cache, load, matchVars, sendVars>>

InvalidateRules(r) ==
  /\ r \in editing
  /\ cache' = Unloaded(cache.gen + 1)
  /\ editing' = editing \ {r} /\ settled' = [settled EXCEPT ![r] = Version(r)]
  /\ UNCHANGED <<outboxVars, rules, load, matchVars, sendVars>>

\* Mutant: the tailer is cancelled, and not joined.
FlushBeginUnjoined ==
  /\ ctx = "cancelled" /\ pc # "down" /\ flush = "none"
  /\ flush' = "draining"
  /\ LET open == {<<r, buffers[r].event>> : r \in {q \in Rule : buffers[q].count > 0}} IN
     /\ sends' = With([k \in open |-> LET b == buffers[k[1]]
                                     IN NewSend(b.ver, b.count, b.covers, TRUE)])
     /\ inflight' = inflight + Cardinality(open)
  /\ buffers' = [r \in Rule |-> NoBuffer]
  /\ UNCHANGED <<outboxVars, ruleVars, cache, load, call, seen, matched, spent>>

\* flush: every open window is dispatched in one hold of the mutex.
FlushBegin ==
  /\ pc = "stopped" /\ flush = "none"
  /\ flush' = "draining"
  /\ LET open == {<<r, buffers[r].event>> : r \in {q \in Rule : buffers[q].count > 0}} IN
     /\ sends' = With([k \in open |-> LET b == buffers[k[1]]
                                     IN NewSend(b.ver, b.count, b.covers, TRUE)])
     /\ inflight' = inflight + Cardinality(open)
  /\ buffers' = [r \in Rule |-> NoBuffer]
  /\ UNCHANGED <<outboxVars, ruleVars, cache, load, call, seen, matched, spent>>

FlushEnd ==
  /\ flush = "draining"
  /\ \/ inflight = 0 /\ flush' = "done"
     \/ flush' = "expired"
  /\ UNCHANGED <<outboxVars, ruleVars, cache, load, matchVars, sends, inflight, spent>>

\* The memory of the process.
Reset ==
  /\ cache' = Unloaded(0) /\ load' = [p \in Reader |-> NoLoad] /\ call' = NoCall
  /\ seen' = <<>> /\ buffers' = [r \in Rule |-> NoBuffer]
  /\ sends' = NoSends /\ inflight' = 0 /\ flush' = "none"
  /\ matched' = [k \in Send |-> 0] /\ spent' = [k \in Send |-> 0]
  /\ editing' = {} /\ settled' = [r \in Rule |-> Version(r)]
  /\ UNCHANGED rules

Outbox   == (Writing \/ Tailing \/ Cancel \/ Restart) /\ UNCHANGED listenerVars
Halting  == (Crash \/ (flush \in {"done", "expired"} /\ Exit)) /\ Reset
Reading  == \E p \in Reader : Stamp(p) \/ ReadRules(p)
Calling  == Ask \/ See \/ Evaluate \/ Unevaluated \/ Matched \/ \E r \in Rule : HandleMatch(r)
Sending  == \/ \E k \in Send : ResolveRule(k) \/ Push(k)
            \/ \E r \in Rule : TimerFires(r)
Editing  == \E r \in Rule : EditRule(r) \/ InvalidateRules(r)
Flushing == FlushBegin \/ FlushEnd

Next == Outbox \/ Halting \/ Reading \/ Calling \/ Sending \/ Editing \/ Flushing
Spec == Init /\ [][Next]_vars

----------------------------------------------------------------------------
(* Properties. *)

\* Nobody runs on stale configuration: a cached set shows each rule in a version
\* no older than the one its last finished edit left, also when that edit landed
\* in the middle of the load that filled the cache.
AtVersion(R, r, v) == IF rules[r][v] THEN r \in DOMAIN R /\ R[r] = v ELSE r \notin DOMAIN R
CacheIsCurrent ==
  cache.loaded =>
    \A r \in Rule : \E v \in settled[r]..Version(r) : AtVersion(cache.rules, r, v)

\* An edited rule gets no last word: what a send sends is in no older a version
\* than was settled when the send asked for it, however long its window was open.
NoLastWord ==
  \A k \in DOMAIN sends : sends[k].step = "sending" =>
    /\ sends[k].ver >= sends[k].floor
    /\ sends[k].floor > 0 => rules[k[1]][sends[k].ver]

\* An exit that was not cut short by the flush's deadline leaves nothing unsent:
\* the cursor is past those events and they would never be handed over again.
FlushLeavesNothing ==
  flush = "done" => DOMAIN sends = {} /\ \A r \in Rule : buffers[r].count = 0

\* Nobody runs on stale rules, neither who matches nor who sends.
NobodyRunsOnStaleRules == CacheIsCurrent /\ NoLastWord

\* Within a process a match is neither doubled, whatever is redelivered because the
\* cursor could not be saved, nor lost between the window, its timer and the send;
\* and the number of changes a push announces is that of the events it stands for.
Holds(r, e) == (IF e \in buffers[r].covers THEN 1 ELSE 0)
               + Cardinality({k \in DOMAIN sends : k[1] = r /\ e \in sends[k].covers})
MatchesAccounted ==
  /\ FlushLeavesNothing
  /\ \A r \in Rule, e \in Id : matched[r, e] <= 1 /\ matched[r, e] = Holds(r, e) + spent[r, e]
  /\ \A r \in Rule : buffers[r].count = Cardinality(buffers[r].covers)
  /\ \A k \in DOMAIN sends : sends[k].count = Cardinality(sends[k].covers)
=============================================================================

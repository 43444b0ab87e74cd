---------------------------- MODULE MCAuthSession ----------------------------
(***************************************************************************)
(* Instances for TLC of the modules that decide who may call: the members' *)
(* sessions, the assistants' front door, the limit on failed logins.  The  *)
(* scenes share no state; a behaviour moves the variables of one.          *)
(***************************************************************************)
EXTENDS AuthSession, McpHost, LoginLimiter, TLC

CONSTANTS u1, s1, s2, c1, c2, c3, t1, t2, ip1, ip2, notes, write,
          Scenes   \* the scenes a run plays

VARIABLE scene

\* One member's sessions.
OwnedByOne == [x \in Session |-> u1]

\* One tool, and what is asked of it with a bearer and without.
OfNotes == write :> notes
AskedOnce == {<<t1, write>>, <<"unknown", "list">>, <<None, "list">>, <<None, "initialize">>}

\* What the proofs take of the constants, here of these.
ASSUME LimitsAreSound == HostConstants /\ LoginConstants

MCInit == scene \in Scenes /\ Init /\ HostInit /\ LoginInit
MCNext ==
  /\ UNCHANGED scene
  /\ \/ scene = "sessions" /\ Next /\ UNCHANGED <<hostVars, loginVars>>
     \/ scene = "host" /\ HostNext /\ UNCHANGED <<vars, loginVars>>
     \/ scene = "logins" /\ LoginNext /\ UNCHANGED <<vars, hostVars>>
     \/ scene \in {"host", "logins"} /\ UNCHANGED <<vars, hostVars, loginVars>>
\* The clocks stop at their bounds.
MCSpec == MCInit /\ [][MCNext]_<<scene, vars, hostVars, loginVars>>

\* A bound: a bearer call in progress meets logins, requests and other bearer calls.
BearersMeetRequests ==
  (\E c \in Caller : Busy(c) /\ call[c].kind = "bearer")
    => \A c \in Caller : Busy(c) => call[c].kind \in {"bearer", "request", "login"}

\* A bound: one of the host's budgets is spent at a time; tokens are minted and narrowed
\* at the start; a narrowed token, a changed role, a token that expires and a remembered
\* role are met one at a time.
Quiet(l) == \A k \in DOMAIN l.hits : l.hits[k] = <<>>
HostIsNarrow ==
  scene = "host" =>
    LET Doing(pcs) == {c \in {c1, c2} : req[c].pc \in pcs}
        asking == {c1, c2} \ Doing({"done", "minting", "patching", "revoking"})
        quiet == Quiet(calls) /\ Quiet(fails)
    IN /\ Doing({"minting", "patching"}) # {} \/ rows[t2] # None => asking = {} /\ quiet
       /\ Quiet(calls) \/ Quiet(fails)
       /\ ~Quiet(anon) => quiet /\ asking = {} /\ rows[t1] = None
       /\ rows[t1] = None => minute = 0 /\ role[u1] = "editor" /\ known[u1] = None
       /\ \A ip \in {ip1} : Len(fails.hits[ip]) <= 3
       /\ ~Quiet(fails) /\ rows[t1] # None =>
            ~rows[t1].revoked /\ rows[t1].modules = {} /\ known[u1] = None /\ role[u1] = "editor"
       /\ rows[t1] # None =>
            Cardinality({n \in 1..4 : <<rows[t1].modules # {}, role[u1] # "editor",
                                           rows[t1].expires # NoExpiry \/ rows[t1].revoked, known[u1] # None>>[n]}) <= 1
Bounded == BearersMeetRequests /\ HostIsNarrow

\* How a call ended, and which of its two tellers told of a session, no action asks.
Seen ==
  <<scene, clock, authVars, row, token, historyVars, announced \cup dropped,
    [c \in Caller |-> IF Busy(c) THEN call[c] ELSE NoCall], hostVars, loginVars>>

Alike == Permutations({c1, c2, c3} \cap Caller)

=============================================================================

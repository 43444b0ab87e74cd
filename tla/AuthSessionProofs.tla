-------------------------- MODULE AuthSessionProofs --------------------------
(* Theorems of AuthSession, for every number of members, sessions and callers. *)
EXTENDS AuthSession, TLAPS

Logging == {"authenticating", "authenticated", "creating"}
Asking  == {"minting", "waiting", "asking", "answered", "minted"}

\* Which kinds of call are at which point, and for whom they act.
Fits(k) ==
  /\ k.pc \notin Ended /\ k.kind # "bearer" => k.sess \in Session
  /\ k.pc \in Logging <=> k.pc \notin Ended /\ k.kind = "login"
  /\ k.pc \in Asking => k.kind \in {"request", "revalidation", "bearer"}
  /\ k.pc \in {"reading", "serving"} => k.kind = "bearer"
  /\ k.pc \in {"authenticated", "creating"} => k.answer \in Version
  /\ k.pc = "touching" => k.kind = "request"
  /\ k.pc = "revoking" => k.kind = "logout"
  /\ k.pc = "announcing" => k.kind \in {"request", "logout"}
  /\ k.sess # NoSession => Owner[k.sess] = k.user

KindsFit == \A c \in Caller : Fits(call[c])

TInv == TypeOK /\ KindsFit

LEMMA NoCallTyped ==
  /\ NoCall \in Call /\ NoRow \in Row
  /\ NoCall.pc = "done" /\ NoCall.kind = "recheck" /\ NoCall.sess = NoSession
  /\ NoCall.answer = Unasked
  <1> USE AuthAssumption DEF AuthAssumption
  <1>1. (CHOOSE u \in User : TRUE) \in User
    OBVIOUS
  <1>2. NoRow \in Row
    BY SMTT(30) DEF NoRow, Row, RowState, Version, Time
  <1> QED
    BY <1>1, <1>2, SMTT(30) DEF NoCall, Call, Pc, Ended, Version, Time, CookieKind, Unasked

LEMMA InitTyped == Init => TInv
  <1> SUFFICES ASSUME Init PROVE TInv
    OBVIOUS
  <1> USE AuthAssumption, NoCallTyped DEF AuthAssumption, Init
  <1>1. clock \in Time /\ version \in [User -> Version] /\ open \in [User -> SUBSET Version]
    BY DEF Time, Version
  <1>2. ended \in [User -> [Version -> 0..Forever]]
    BY DEF Forever, Version
  <1>3. row \in [Session -> Row] /\ token \in [User -> RowState] /\ call \in [Caller -> Call]
    BY DEF RowState
  <1>4. used \in [Session -> Time]
    BY DEF Time
  <1>5. TypeOK
    BY <1>1, <1>2, <1>3, <1>4 DEF TypeOK
  <1>6. KindsFit
    BY DEF KindsFit, Fits, Ended, Logging, Asking
  <1> QED
    BY <1>5, <1>6 DEF TInv
\* One call changes, and stays in its type.
LEMMA OneCall ==
  ASSUME TInv, NEW c \in Caller, NEW k \in Call, Fits(k), call' = [call EXCEPT ![c] = k]
  PROVE  call' \in [Caller -> Call] /\ KindsFit'
         /\ \A d \in Caller : call'[d].sess # NoSession => Owner[call'[d].sess] = call'[d].user
  <1>1. call' \in [Caller -> Call] /\ \A d \in Caller : call'[d] = IF d = c THEN k ELSE call[d]
    BY DEF TInv, TypeOK
  <1>2. \A d \in Caller : Fits(call'[d])
    BY <1>1 DEF TInv, KindsFit
  <1>3. KindsFit'
    BY <1>2 DEF KindsFit, Fits
  <1> QED
    BY <1>1, <1>2, <1>3 DEF Fits

LEMMA EndedFits ==
  ASSUME NEW p \in Ended
  PROVE  [NoCall EXCEPT !.pc = p] \in Call /\ Fits([NoCall EXCEPT !.pc = p])
  <1> DEFINE k == [NoCall EXCEPT !.pc = p]
  <1>1. k \in Call /\ k.pc = p /\ k.kind = "recheck" /\ k.sess = NoSession
    BY NoCallTyped DEF Call, Pc
  <1>2. k.pc \notin Logging /\ k.pc \notin Asking
        /\ k.pc \notin {"authenticated", "creating", "reading", "serving", "touching", "revoking", "announcing"}
    BY <1>1 DEF Ended, Logging, Asking
  <1> QED
    BY <1>1, <1>2 DEF Fits

\* A call moves on to where its kind may go, or ends.
LEMMA MoveFits ==
  ASSUME TInv, NEW c \in Caller, NEW p \in Pc, Moves(c, p),
         p \notin Ended => Fits([call[c] EXCEPT !.pc = p])
  PROVE  call' \in [Caller -> Call] /\ KindsFit'
         /\ \A d \in Caller : call'[d].sess # NoSession => Owner[call'[d].sess] = call'[d].user
  <1>1. CASE p \in Ended
    BY <1>1, OneCall, EndedFits DEF Moves
  <1>2. CASE p \notin Ended
    <2>1. call[c] \in Call
      BY DEF TInv, TypeOK
    <2>2. [call[c] EXCEPT !.pc = p] \in Call
      BY <2>1 DEF Call
    <2> QED
      BY <1>2, <2>2, OneCall DEF Moves
  <1> QED
    BY <1>1, <1>2

LEMMA Assemble ==
  ASSUME TInv, UNCHANGED <<clock, authVars>>, call' \in [Caller -> Call], KindsFit',
         \A d \in Caller : call'[d].sess # NoSession => Owner[call'[d].sess] = call'[d].user,
         row' \in [Session -> Row], token' \in [User -> RowState],
         announced' \subseteq Session, dropped' \subseteq Session, loggedOut' \subseteq Session,
         withdrawn' \subseteq User, used' \in [Session -> Time]
  PROVE  TInv'
  BY DEF TInv, TypeOK, authVars

LEMMA StartTyped == ASSUME TInv, NEW c \in Caller, Start(c) PROVE TInv'
  <1> USE AuthAssumption DEF AuthAssumption
  <1>1. ASSUME NEW kind \in Kinds, NEW s \in Session, Begin(c, kind, s) PROVE TInv'
    <2> DEFINE k == [NoCall EXCEPT !.pc = "looking", !.kind = kind, !.now = clock,
                                   !.sess = s, !.user = Owner[s]]
    <2>1. k \in Call /\ Fits(k)
      BY NoCallTyped DEF TInv, TypeOK, Call, Pc, CookieKind, Fits, Ended, Logging, Asking
    <2>2. call' = [call EXCEPT ![c] = k]
      BY <1>1 DEF Begin
    <2> HIDE DEF k
    <2> QED
      BY <1>1, <2>1, <2>2, OneCall, Assemble DEF Begin, historyVars, TInv, TypeOK
  <1>2. ASSUME NEW u \in User, BeginBearer(c, u) PROVE TInv'
    <2> DEFINE k == [NoCall EXCEPT !.pc = "looking", !.kind = "bearer", !.now = clock, !.user = u]
    <2>1. k \in Call /\ Fits(k)
      BY NoCallTyped DEF TInv, TypeOK, Call, Pc, CookieKind, Fits, Ended, Logging, Asking
    <2>2. call' = [call EXCEPT ![c] = k]
      BY <1>2 DEF BeginBearer
    <2> HIDE DEF k
    <2> QED
      BY <1>2, <2>1, <2>2, OneCall, Assemble DEF BeginBearer, historyVars, TInv, TypeOK
  <1>3. ASSUME NEW s \in Session, BeginLogin(c, s) PROVE TInv'
    <2> DEFINE k == [NoCall EXCEPT !.pc = "authenticating", !.kind = "login", !.now = clock,
                                   !.sess = s, !.user = Owner[s]]
    <2>1. k \in Call /\ Fits(k)
      BY NoCallTyped DEF TInv, TypeOK, Call, Pc, CookieKind, Fits, Ended, Logging, Asking
    <2>2. call' = [call EXCEPT ![c] = k]
      BY <1>3 DEF BeginLogin
    <2> HIDE DEF k
    <2> QED
      BY <1>3, <2>1, <2>2, OneCall, Assemble DEF BeginLogin, historyVars, TInv, TypeOK
  <1> QED
    BY <1>1, <1>2, <1>3 DEF Start

\* The same for an action that moves one call and writes at most the row or the token.
LEMMA Moved ==
  ASSUME TInv, NEW c \in Caller, NEW p \in Pc, Moves(c, p),
         p \notin Ended => Fits([call[c] EXCEPT !.pc = p]),
         UNCHANGED <<clock, authVars>>, row' \in [Session -> Row], token' \in [User -> RowState],
         announced' \subseteq Session, dropped' \subseteq Session, loggedOut' \subseteq Session,
         withdrawn' \subseteq User, used' \in [Session -> Time]
  PROVE  TInv'
  BY MoveFits, Assemble

\* Where a call goes next fits its kind.
LEMMA NextFits ==
  ASSUME TInv, NEW c \in Caller
  PROVE  /\ call[c].pc = "minting" => Fits([call[c] EXCEPT !.pc = "asking"])
         /\ call[c].pc = "minting" => Fits([call[c] EXCEPT !.pc = "waiting"])
         /\ call[c].pc = "reading" => Fits([call[c] EXCEPT !.pc = "minting"])
         /\ call[c].pc = "looking" /\ call[c].kind = "bearer" => Fits([call[c] EXCEPT !.pc = "reading"])
         /\ call[c].pc = "looking" /\ call[c].kind = "logout" => Fits([call[c] EXCEPT !.pc = "revoking"])
         /\ call[c].pc = "looking" /\ call[c].kind = "revalidation" =>
              Fits([call[c] EXCEPT !.pc = "minting"])
         /\ call[c].pc = "minted" /\ call[c].kind = "request" => Fits([call[c] EXCEPT !.pc = "announcing"])
         /\ call[c].pc = "minted" => Onward(c) \in Ended \/ Fits([call[c] EXCEPT !.pc = Onward(c)])
         /\ call[c].pc = "revoking" => Fits([call[c] EXCEPT !.pc = "announcing"])
  <1>1. call[c] \in Call /\ Fits(call[c])
    BY DEF TInv, TypeOK, KindsFit
  <1> QED
    BY <1>1 DEF Call, Fits, Ended, Logging, Asking, Onward

LEMMA ProceedTyped == ASSUME TInv, NEW c \in Caller, Proceed(c) PROVE TInv'
  <1> USE AuthAssumption DEF AuthAssumption
  <1>k. /\ call[c] \in Call /\ Fits(call[c])
        /\ Busy(c) /\ call[c].kind # "bearer" => call[c].sess \in Session
    BY DEF TInv, TypeOK, KindsFit, Fits, Busy
  <1>r. /\ row \in [Session -> Row] /\ token \in [User -> RowState]
        /\ announced \subseteq Session /\ dropped \subseteq Session
        /\ loggedOut \subseteq Session /\ withdrawn \subseteq User /\ used \in [Session -> Time]
    BY DEF TInv, TypeOK
  <1>1. ASSUME Authenticated(c) PROVE TInv'
    <2> DEFINE v == version[call[c].user]
               k == [call[c] EXCEPT !.pc = "authenticated", !.answer = v]
    <2>1. v \in Version /\ v \in Unasked..MaxVersion /\ call[c].pc = "authenticating"
      BY <1>1, <1>k DEF Authenticated, TInv, TypeOK, Call, Version, Unasked
    <2>2. call' = [call EXCEPT ![c] = k]
      BY <1>1, <1>k DEF Authenticated, TInv, TypeOK, Call
    <2> HIDE DEF v
    <2>3. k \in Call /\ Fits(k)
      BY <2>1, <1>k DEF Call, Pc, Fits, Ended, Logging, Asking
    <2> HIDE DEF k
    <2> QED
      BY <1>1, <2>2, <2>3, <1>r, OneCall, Assemble DEF Authenticated, historyVars
  <1>2. ASSUME LoginRefused(c) PROVE TInv'
    BY <1>2, <1>k, <1>r, Moved, NextFits DEF LoginRefused, Pc, Ended, historyVars
  <1>3. ASSUME LoginReturns(c) PROVE TInv'
    <2> DEFINE k == [call[c] EXCEPT !.pc = "creating", !.now = clock]
    <2>1. k \in Call /\ Fits(k)
      BY <1>3, <1>k DEF LoginReturns, TInv, TypeOK, Call, Pc, Fits, Ended, Logging, Asking, Version
    <2>2. call' = [call EXCEPT ![c] = k]
      BY <1>3, <1>k DEF LoginReturns, TInv, TypeOK, Call
    <2> HIDE DEF k
    <2> QED
      BY <1>3, <2>1, <2>2, <1>r, OneCall, Assemble DEF LoginReturns, historyVars
  <1>4. ASSUME Create(c) PROVE TInv'
    <2> DEFINE r == [state |-> "live", ver |-> call[c].answer,
                     stamp |-> call[c].now, seen |-> call[c].now]
    <2>1. r \in Row /\ call[c].sess \in Session
      BY <1>4, <1>k DEF Create, Call, Fits, Ended, Logging, Row, RowState
    <2>2. row' \in [Session -> Row]
      BY <1>4, <2>1, <1>r DEF Create
    <2> QED
      BY <1>4, <2>2, <1>r, Moved DEF Create, Pc, Ended, historyVars
  <1>5. ASSUME Lookup(c) PROVE TInv'
    <2> USE DEF Lookup, historyVars
    <2>1. CASE call[c].kind = "recheck"
      BY <1>5, <2>1, <1>r, Moved DEF Reads, Pc, Ended
    <2>2. CASE call[c].kind = "logout"
      BY <1>5, <2>2, <1>r, Moved, NextFits DEF Reads, Pc, Ended
    <2>3. CASE call[c].kind = "revalidation"
      BY <1>5, <2>3, <1>r, Moved, NextFits DEF Reads, Pc, Ended
    <2>4. CASE call[c].kind = "request"
      <3> DEFINE r == row[call[c].sess]
                 p == IF Fresh(r.stamp, call[c].now) THEN "touching" ELSE "minting"
                 k == [call[c] EXCEPT !.pc = p, !.cached = r.ver, !.seen = r.seen]
      <3>1. r \in Row
        BY <1>5, <2>4, <1>k, <1>r DEF Busy, Ended
      <3>2. k \in Call /\ Fits(k)
        BY <1>5, <2>4, <3>1, <1>k DEF Row, Call, Pc, Fits, Ended, Logging, Asking
      <3>3. call' = [call EXCEPT ![c] = k]
        BY <1>5, <2>4, <1>k DEF TInv, TypeOK, Call, Reads
      <3> HIDE DEF k
      <3> QED
        BY <1>5, <3>2, <3>3, <1>r, OneCall, Assemble
    <2> QED
      BY <1>5, <1>k, <2>1, <2>2, <2>3, <2>4 DEF Call, Fits, Ended, Logging, CookieKind
  <1>6. ASSUME LookupDead(c) PROVE TInv'
    <2>1. dropped' \subseteq Session
      BY <1>6, <1>k, <1>r DEF LookupDead, Busy, Ended
    <2> QED
      BY <1>6, <2>1, <1>r, Moved DEF LookupDead, Pc, Ended, historyVars
  <1>7. ASSUME StoreFails(c) PROVE TInv'
    BY <1>7, <1>k, <1>r, Moved, NextFits DEF StoreFails, Pc, Ended, historyVars
  <1>8. ASSUME LookupToken(c) PROVE TInv'
    BY <1>8, <1>k, <1>r, Moved, NextFits DEF LookupToken, Pc, Ended, historyVars
  <1>9. ASSUME ReadNewest(c) PROVE TInv'
    <2> PICK s \in SessionsOf(call[c].user) : ReadsFor(c, s)
      BY <1>9 DEF ReadNewest
    <2> DEFINE p == IF Fresh(row[s].stamp, call[c].now) THEN "serving" ELSE "minting"
               k == [call[c] EXCEPT !.pc = p, !.sess = s, !.cached = row[s].ver]
    <2>1. s \in Session /\ Owner[s] = call[c].user /\ row[s] \in Row
      BY <1>r DEF SessionsOf
    <2>2. k \in Call /\ Fits(k)
      BY <1>9, <2>1, <1>k DEF ReadNewest, Row, Call, Pc, Fits, Ended, Logging, Asking
    <2>3. call' = [call EXCEPT ![c] = k]
      BY <1>k DEF ReadsFor, TInv, TypeOK, Call
    <2> HIDE DEF k
    <2> QED
      BY <1>9, <2>2, <2>3, <1>r, OneCall, Assemble DEF ReadNewest, historyVars
  <1>10. ASSUME ReadNothing(c) PROVE TInv'
    BY <1>10, <1>k, <1>r, Moved, NextFits DEF ReadNothing, Pc, Ended, historyVars
  <1>11. ASSUME Mint(c) PROVE TInv'
    BY <1>11, <1>k, <1>r, Moved, NextFits DEF Mint, Pc, Ended, historyVars
  <1>12. ASSUME Join(c) PROVE TInv'
    BY <1>12, <1>k, <1>r, Moved, NextFits DEF Join, Pc, Ended, historyVars
  <1>13. ASSUME Answer(c) PROVE TInv'
    <2> PICK a \in {Truth(call[c].user), Transient} :
               call' = [call EXCEPT ![c].pc = "answered", ![c].answer = a]
      BY <1>13 DEF Answer
    <2> DEFINE k == [call[c] EXCEPT !.pc = "answered", !.answer = a]
    <2>0. Truth(call[c].user) \in {Closed} \cup Version
      BY <1>k DEF Truth, TInv, TypeOK, Call
    <2>1. a \in Unasked..MaxVersion
      BY <2>0 DEF Closed, Transient, Unasked, Version
    <2>2. k \in Call /\ Fits(k)
      BY <1>13, <2>1, <1>k DEF Answer, Call, Pc, Fits, Ended, Logging, Asking
    <2>3. call' = [call EXCEPT ![c] = k]
      BY <1>k DEF TInv, TypeOK, Call
    <2> HIDE DEF k
    <2> QED
      BY <1>13, <2>2, <2>3, <1>r, OneCall, Assemble DEF Answer, historyVars
  <1>14. ASSUME Returns(c) PROVE TInv'
    <2>1. ASSUME NEW d \in Caller
          PROVE  call'[d] \in Call /\ Fits(call'[d])
      <3> DEFINE k == [call[d] EXCEPT !.pc = "minted", !.answer = call[c].answer]
      <3>1. call[d] \in Call /\ Fits(call[d])
        BY DEF TInv, TypeOK, KindsFit
      <3>2. call[d].pc \in {"answered", "waiting"} => k \in Call /\ Fits(k)
        BY <3>1, <1>k DEF Call, Pc, Fits, Ended, Logging, Asking
      <3> HIDE DEF k
      <3>3. call'[d] = k \/ call'[d] = call[d]
        BY <1>14 DEF Returns, k
      <3>4. call'[d] = k => call[d].pc \in {"answered", "waiting"} \/ call'[d] = call[d]
        BY <1>14 DEF Returns, k
      <3> QED
        BY <3>1, <3>2, <3>3, <3>4
    <2>2. call' \in [Caller -> Call]
      BY <1>14, <2>1 DEF Returns
    <2>3. KindsFit' /\ \A d \in Caller : call'[d].sess # NoSession => Owner[call'[d].sess] = call'[d].user
      BY <2>1 DEF KindsFit, Fits
    <2> QED
      BY <1>14, <2>2, <2>3, <1>r, Assemble DEF Returns, historyVars
  <1>15. ASSUME RevokeClosed(c) PROVE TInv'
    <2>1. call[c].sess \in Session /\ row[call[c].sess] \in Row
      BY <1>15, <1>k, <1>r DEF RevokeClosed, Busy, Ended, Says, Revoked
    <2>2. row' \in [Session -> Row]
      BY <1>15, <2>1, <1>k, <1>r DEF RevokeClosed, Row, RowState, Call, Says, Revoked
    <2> QED
      BY <1>15, <2>1, <2>2, <1>k, <1>r, Moved, NextFits DEF RevokeClosed, Pc, Ended, historyVars, Says, Revoked
  <1>16. ASSUME RevokeForSocket(c) PROVE TInv'
    <2>1. call[c].sess \in Session /\ row[call[c].sess] \in Row
      BY <1>16, <1>k, <1>r DEF RevokeForSocket, Busy, Ended, Says, Revoked
    <2>2. row' \in [Session -> Row]
      BY <1>16, <2>1, <1>k, <1>r DEF RevokeForSocket, Row, RowState, Call, Says, Revoked
    <2> QED
      BY <1>16, <2>1, <2>2, <1>k, <1>r, Moved, NextFits DEF RevokeForSocket, Pc, Ended, historyVars, Says, Revoked
  <1>17. ASSUME RevokeForBearer(c) PROVE TInv'
    BY <1>17, <1>k, <1>r, Moved, NextFits DEF RevokeForBearer, Pc, Ended, historyVars, RowState, Says
  <1>18. ASSUME RevokeFails(c) PROVE TInv'
    BY <1>18, <1>k, <1>r, Moved, NextFits DEF RevokeFails, Pc, Ended, historyVars
  <1>19. ASSUME Refresh(c) PROVE TInv'
    <2>1. call[c].sess \in Session /\ row[call[c].sess] \in Row
      BY <1>19, <1>k, <1>r DEF Refresh, Call
    <2>2. row' \in [Session -> Row]
      <3> DEFINE q == Confirmed(row[call[c].sess], call[c].answer, call[c].now)
      <3>1. q \in Row
        BY <1>19, <2>1, <1>k DEF Refresh, Confirmed, Row, Call
      <3>2. row' = [row EXCEPT ![call[c].sess] = q]
        BY <1>19, <2>1, <1>r DEF Refresh
      <3> HIDE DEF q
      <3> QED
        BY <3>1, <3>2, <1>r
    <2> QED
      BY <1>19, <2>1, <2>2, <1>k, <1>r, Moved, NextFits DEF Refresh, Pc, Ended, historyVars, Onward
  <1>20. ASSUME RefreshFails(c) PROVE TInv'
    BY <1>20, <1>k, <1>r, Moved, NextFits DEF RefreshFails, Pc, Ended, historyVars, Onward
  <1>21. ASSUME FallBack(c) PROVE TInv'
    BY <1>21, <1>k, <1>r, Moved, NextFits DEF FallBack, Pc, Ended, historyVars, Says, Onward
  <1>22. ASSUME Slide(c) PROVE TInv'
    <2>1. call[c].sess \in Session /\ row[call[c].sess] \in Row
      BY <1>22, <1>k, <1>r DEF Slide, Busy, Ended, Fits
    <2>2. row' \in [Session -> Row]
      BY <1>22, <2>1, <1>k, <1>r DEF Slide, Row, Call
    <2>3. used' \in [Session -> Time]
      BY <1>22, <2>1, <1>k, <1>r DEF Slide, Slid, Later, Call
    <2> QED
      BY <1>22, <2>2, <2>3, <1>r, Moved DEF Slide, Pc, Ended
  <1>23. ASSUME SlideFails(c) PROVE TInv'
    BY <1>23, <1>k, <1>r, Moved, NextFits DEF SlideFails, Pc, Ended, historyVars
  <1>24. ASSUME Serve(c) PROVE TInv'
    BY <1>24, <1>k, <1>r, Moved, NextFits DEF Serve, Pc, Ended, historyVars
  <1>25. ASSUME LogOut(c) PROVE TInv'
    <2>1. call[c].sess \in Session /\ row[call[c].sess] \in Row
      BY <1>25, <1>k, <1>r DEF LogOut, Busy, Ended, Revoked, Fits
    <2>2. row' \in [Session -> Row]
      BY <1>25, <2>1, <1>k, <1>r DEF LogOut, Row, RowState, Call, Revoked, Fits
    <2> QED
      BY <1>25, <2>1, <2>2, <1>k, <1>r, Moved, NextFits DEF LogOut, Pc, Ended, historyVars, Revoked, Fits
  <1>26. ASSUME Announce(c) PROVE TInv'
    <2>1. announced' \subseteq Session
      BY <1>26, <1>k, <1>r DEF Announce, Busy, Ended, Fits
    <2> QED
      BY <1>26, <2>1, <1>r, Moved DEF Announce, Pc, Ended, historyVars
  <1> QED
    BY <1>1, <1>2, <1>3, <1>4, <1>5, <1>6, <1>7, <1>8, <1>9, <1>10, <1>11, <1>12, <1>13, <1>14, <1>15, <1>16, <1>17, <1>18, <1>19, <1>20, <1>21, <1>22, <1>23, <1>24, <1>25, <1>26 DEF Proceed

LEMMA StepTyped == TInv /\ [Next]_vars => TInv'
  <1> SUFFICES ASSUME TInv, [Next]_vars PROVE TInv'
    OBVIOUS
  <1> USE AuthAssumption DEF AuthAssumption
  <1>1. CASE Tick
    <2>1. clock' \in Time
      BY <1>1 DEF Tick, TInv, TypeOK, Time
    <2> QED
      BY <1>1, <2>1 DEF Tick, authVars, historyVars, TInv, TypeOK, KindsFit, Fits
  <1>2. ASSUME NEW u \in User, AccountChanges(u) PROVE TInv'
    <2>1. version' \in [User -> Version] /\ open' \in [User -> SUBSET Version]
      <3>1. version[u] + 1 \in Version
        BY <1>2 DEF AccountChanges, TInv, TypeOK, Version
      <3>2. version' \in [User -> Version]
        BY <1>2, <3>1 DEF AccountChanges, TInv, TypeOK
      <3>3. [open EXCEPT ![u] = @ \cup {version[u] + 1}] \in [User -> SUBSET Version]
        BY <3>1 DEF TInv, TypeOK
      <3> QED
        BY <1>2, <3>2, <3>3 DEF AccountChanges, TInv, TypeOK
    <2>2. ended' \in [User -> [Version -> 0..Forever]]
      BY <1>2 DEF AccountChanges, TInv, TypeOK, Time, Forever
    <2> QED
      BY <1>2, <2>1, <2>2 DEF AccountChanges, historyVars, TInv, TypeOK, KindsFit, Fits
  <1>3. ASSUME NEW u \in User, Withdraw(u) PROVE TInv'
    BY <1>3 DEF Withdraw, authVars, TInv, TypeOK, KindsFit, Fits, RowState
  <1>4. CASE UNCHANGED vars
    BY <1>4 DEF vars, authVars, historyVars, TInv, TypeOK, KindsFit, Fits
  <1>5. ASSUME NEW c \in Caller, Start(c) \/ Proceed(c) PROVE TInv'
    BY <1>5, StartTyped, ProceedTyped
  <1> QED
    BY <1>1, <1>2, <1>3, <1>4, <1>5 DEF Next

\* The variables keep their types in every behaviour (the whole session path).
THEOREM TypeCorrect == Spec => []TypeOK
  <1>1. TInv => TypeOK
    BY DEF TInv
  <1> QED
    BY <1>1, InitTyped, StepTyped, PTL DEF Spec

----------------------------------------------------------------------------
(* What is revoked, and what is announced. *)

\* What a call knows of the row and the account it acts on.
Knows(k) ==
  /\ k.pc = "announcing" => row[k.sess].state = "revoked"
  /\ k.pc \in Logging => row[k.sess].state = "none"
  /\ k.pc \notin Ended \cup Logging /\ k.kind # "bearer" => row[k.sess].state # "none"
  /\ k.pc \in {"answered", "minted"} /\ k.answer = Closed => WasClosed(k.user)

OneLogin ==
  \A c, d \in Caller :
    c # d /\ call[c].pc \in Logging /\ call[d].pc \in Logging => call[c].sess # call[d].sess

CInv == RevokedForCause /\ AnnouncedIsRevoked /\ OneLogin /\ \A c \in Caller : Knows(call[c])

\* Steps that revoke, create and announce nothing.
LEMMA Quiet ==
  ASSUME TInv, CInv, NEW c \in Caller, Knows(call[c])', call' \in [Caller -> Call],
         \A d \in Caller : d # c => call'[d] = call[d],
         call'[c].pc \in Logging => call[c].pc \in Logging /\ call'[c].sess = call[c].sess,
         row' \in [Session -> Row], \A s \in Session : row'[s].state = row[s].state,
         \A d \in Caller : Fits(call[d]),
         UNCHANGED <<authVars, token, announced, loggedOut, withdrawn>>
  PROVE  CInv'
  <1>1. ASSUME NEW u PROVE WasClosed(u) <=> WasClosed(u)'
    BY DEF WasClosed, authVars
  <1>2. RevokedForCause' /\ AnnouncedIsRevoked'
    BY <1>1 DEF CInv, RevokedForCause, AnnouncedIsRevoked, TInv, TypeOK
  <1>3. OneLogin'
    BY DEF CInv, OneLogin
  <1>4. ASSUME NEW d \in Caller, d # c PROVE Knows(call[d])'
    BY <1>1, <1>4 DEF CInv, Knows, Fits, Ended, Logging, TInv, TypeOK
  <1> QED
    BY <1>2, <1>3, <1>4 DEF CInv

\* Steps that revoke session s, for a reason.
LEMMA Revoking ==
  ASSUME TInv, CInv, NEW c \in Caller, Knows(call[c])', call' \in [Caller -> Call],
         NEW s \in Session, row[s].state # "none", s \in loggedOut' \/ WasClosed(Owner[s]),
         \A d \in Caller : d # c => call'[d] = call[d],
         call'[c].pc \notin Logging,
         row' \in [Session -> Row], row' = [row EXCEPT ![s].state = "revoked"],
         \A d \in Caller : Fits(call[d]), loggedOut \subseteq loggedOut',
         UNCHANGED <<authVars, token, announced, withdrawn>>
  PROVE  CInv'
  <1>0. /\ \A r \in Session : r # s => row'[r].state = row[r].state
        /\ row'[s].state = "revoked"
    BY DEF TInv, TypeOK, Row
  <1>1. ASSUME NEW u PROVE WasClosed(u) <=> WasClosed(u)'
    BY DEF WasClosed, authVars
  <1>2. RevokedForCause' /\ AnnouncedIsRevoked'
    BY <1>0, <1>1 DEF CInv, RevokedForCause, AnnouncedIsRevoked, TInv, TypeOK
  <1>3. OneLogin'
    BY DEF CInv, OneLogin
  <1>4. ASSUME NEW d \in Caller, d # c PROVE Knows(call[d])'
    BY <1>0, <1>1, <1>4 DEF CInv, Knows, Fits, Ended, Logging, TInv, TypeOK
  <1> QED
    BY <1>2, <1>3, <1>4 DEF CInv

\* Those who share a mint act for the same member.
LEMMA SameMember ==
  ASSUME NEW c \in Caller, NEW d \in Caller, \A e \in Caller : Fits(call[e]),
         call[c].pc = "answered", d = c \/ SameKey(c, d)
  PROVE  call[d].user = call[c].user
  <1>1. CASE call[c].kind = "bearer"
    BY <1>1 DEF SameKey
  <1>2. CASE call[c].kind # "bearer"
    <2>1. call[c].sess \in Session /\ call[c].sess # NoSession
      BY <1>2, AuthAssumption DEF AuthAssumption, Fits, Ended
    <2>2. d # c => call[d].sess = call[c].sess
      BY <1>2 DEF SameKey
    <2> QED
      BY <2>1, <2>2 DEF Fits
  <1> QED
    BY <1>1, <1>2

LEMMA ProceedCaused == ASSUME TInv, TInv', CInv, NEW c \in Caller, Proceed(c) PROVE CInv'
  <1> USE AuthAssumption DEF AuthAssumption
  <1>k. /\ call \in [Caller -> Call] /\ \A d \in Caller : Fits(call[d])
        /\ row \in [Session -> Row] /\ token \in [User -> RowState]
    BY DEF TInv, TypeOK, KindsFit
  <1>1. ASSUME Authenticated(c) PROVE CInv'
    <2>1. /\ call' \in [Caller -> Call] /\ row' \in [Session -> Row]
          /\ \A d \in Caller : d # c => call'[d] = call[d]
      BY <1>1, <1>k DEF TInv, TypeOK, Authenticated, Moves
    <2>2. Knows(call[c])' /\ (call'[c].pc \in Logging => call[c].pc \in Logging /\ call'[c].sess = call[c].sess)
      BY <1>1, <1>k, NoCallTyped DEF Authenticated, Knows, WasClosed, Moves, Fits, Ended, Logging, Asking, Says, authVars, historyVars, Call, CInv
    <2> QED
      BY <1>1, <1>k, <2>1, <2>2, Quiet DEF Authenticated, historyVars
  <1>2. ASSUME LoginRefused(c) PROVE CInv'
    BY <1>2, <1>k, NoCallTyped, SMTT(20) DEF LoginRefused, CInv, Knows, OneLogin, RevokedForCause, AnnouncedIsRevoked,
      WasClosed, Moves, Fits, Ended, Logging, Asking, Says, authVars, historyVars, Call, Row
  <1>3. ASSUME LoginReturns(c) PROVE CInv'
    <2>1. /\ call' \in [Caller -> Call] /\ row' \in [Session -> Row]
          /\ \A d \in Caller : d # c => call'[d] = call[d]
      BY <1>3, <1>k DEF TInv, TypeOK, LoginReturns, Moves
    <2>2. Knows(call[c])' /\ (call'[c].pc \in Logging => call[c].pc \in Logging /\ call'[c].sess = call[c].sess)
      BY <1>3, <1>k, NoCallTyped DEF LoginReturns, Knows, WasClosed, Moves, Fits, Ended, Logging, Asking, Says, authVars, historyVars, Call, CInv
    <2> QED
      BY <1>3, <1>k, <2>1, <2>2, Quiet DEF LoginReturns, historyVars
  <1>4. ASSUME Create(c) PROVE CInv'
    BY <1>4, <1>k, NoCallTyped, SMTT(20) DEF Create, CInv, Knows, OneLogin, RevokedForCause, AnnouncedIsRevoked,
      WasClosed, Moves, Fits, Ended, Logging, Asking, Says, authVars, historyVars, Call, Row
  <1>5. ASSUME Lookup(c) PROVE CInv'
    <2>1. /\ call' \in [Caller -> Call]
          /\ call[c].pc = "looking" /\ call[c].kind \in {"recheck", "logout", "revalidation", "request"}
      BY <1>5, <1>k DEF Lookup, TInv, TypeOK, Call, Fits, Ended, Logging, CookieKind
    <2>2. \A d \in Caller : d # c => call'[d] = call[d]
      BY <1>5, <1>k, <2>1 DEF Lookup, Reads, Moves
    <2>3. /\ call'[c].pc \in {"served", "revoking", "touching", "minting"}
          /\ \/ call'[c].sess = call[c].sess /\ call'[c].kind = call[c].kind
             \/ call'[c].pc = "served"
      <3> USE <1>5, <1>k, <2>1 DEF Lookup, Reads, Ended
      <3>1. CASE call[c].kind = "recheck"
        BY <3>1, NoCallTyped DEF Moves, Call
      <3>2. CASE call[c].kind \in {"logout", "revalidation"}
        <4>1. PICK p \in {"revoking", "minting", "served"} : Moves(c, p)
          BY <3>2
        <4> QED
          BY <3>2, <4>1, NoCallTyped DEF Moves, Call
      <3>3. CASE call[c].kind = "request"
        BY <3>3 DEF Call
      <3> QED
        BY <3>1, <3>2, <3>3
    <2>4. Knows(call[c])' /\ call'[c].pc \notin Logging
      BY <1>5, <1>k, <2>1, <2>3 DEF Lookup, CInv, Knows, Ended, Logging
    <2> QED
      BY <1>5, <1>k, <2>1, <2>2, <2>4, Quiet DEF Lookup, historyVars
  <1>6. ASSUME LookupDead(c) PROVE CInv'
    BY <1>6, <1>k, NoCallTyped, SMTT(20) DEF LookupDead, CInv, Knows, OneLogin, RevokedForCause, AnnouncedIsRevoked,
      WasClosed, Moves, Fits, Ended, Logging, Asking, Says, authVars, historyVars, Call, Row
  <1>7. ASSUME StoreFails(c) PROVE CInv'
    BY <1>7, <1>k, NoCallTyped, SMTT(20) DEF StoreFails, CInv, Knows, OneLogin, RevokedForCause, AnnouncedIsRevoked,
      WasClosed, Moves, Fits, Ended, Logging, Asking, Says, authVars, historyVars, Call, Row
  <1>8. ASSUME LookupToken(c) PROVE CInv'
    BY <1>8, <1>k, NoCallTyped, SMTT(20) DEF LookupToken, CInv, Knows, OneLogin, RevokedForCause, AnnouncedIsRevoked,
      WasClosed, Moves, Fits, Ended, Logging, Asking, Says, authVars, historyVars, Call, Row
  <1>9. ASSUME ReadNewest(c) PROVE CInv'
    <2>1. /\ call' \in [Caller -> Call] /\ row' \in [Session -> Row]
          /\ \A d \in Caller : d # c => call'[d] = call[d]
      BY <1>9, <1>k DEF TInv, TypeOK, ReadNewest, ReadsFor, Moves
    <2>2. Knows(call[c])' /\ (call'[c].pc \in Logging => call[c].pc \in Logging /\ call'[c].sess = call[c].sess)
      BY <1>9, <1>k, NoCallTyped DEF ReadNewest, Knows, WasClosed, Moves, Fits, Ended, Logging, Asking, Says, authVars, historyVars, Call, CInv, ReadsFor
    <2> QED
      BY <1>9, <1>k, <2>1, <2>2, Quiet DEF ReadNewest, historyVars
  <1>10. ASSUME ReadNothing(c) PROVE CInv'
    BY <1>10, <1>k, NoCallTyped, SMTT(20) DEF ReadNothing, CInv, Knows, OneLogin, RevokedForCause, AnnouncedIsRevoked,
      WasClosed, Moves, Fits, Ended, Logging, Asking, Says, authVars, historyVars, Call, Row
  <1>11. ASSUME Mint(c) PROVE CInv'
    BY <1>11, <1>k, NoCallTyped, SMTT(20) DEF Mint, CInv, Knows, OneLogin, RevokedForCause, AnnouncedIsRevoked,
      WasClosed, Moves, Fits, Ended, Logging, Asking, Says, authVars, historyVars, Call, Row
  <1>12. ASSUME Join(c) PROVE CInv'
    BY <1>12, <1>k, NoCallTyped, SMTT(20) DEF Join, CInv, Knows, OneLogin, RevokedForCause, AnnouncedIsRevoked,
      WasClosed, Moves, Fits, Ended, Logging, Asking, Says, authVars, historyVars, Call, Row
  <1>13. ASSUME Answer(c) PROVE CInv'
    <2>1. PICK a \in {Truth(call[c].user), Transient} :
            call' = [call EXCEPT ![c].pc = "answered", ![c].answer = a]
      BY <1>13 DEF Answer
    <2>2. a = Closed => WasClosed(call[c].user)
      <3> DEFINE u == call[c].user
      <3>1. version[u] \in Version
        BY <1>k DEF TInv, TypeOK, Call
      <3>2. version[u] \notin open[u] => WasClosed(u)
        BY <3>1 DEF WasClosed, Version
      <3>3. version[u] # Closed
        BY <3>1 DEF Version, Closed
      <3> QED
        BY <3>2, <3>3 DEF Truth, Closed, Transient
    <2>3. Knows(call[c])' /\ call'[c].pc \notin Logging
      BY <1>13, <1>k, <2>1, <2>2 DEF Answer, Knows, WasClosed, Ended, Logging, authVars, CInv, Call
    <2>4. call' \in [Caller -> Call] /\ \A d \in Caller : d # c => call'[d] = call[d]
      BY <1>k, <2>1 DEF TInv, TypeOK
    <2> QED
      BY <1>13, <1>k, <2>3, <2>4, Quiet DEF Answer, historyVars, TInv, TypeOK
  <1>14. ASSUME Returns(c) PROVE CInv'
    <2>1. ASSUME NEW d \in Caller PROVE Knows(call[d])' /\ (call'[d].pc \in Logging => call'[d] = call[d])
      <3>1. CASE call'[d] = call[d]
        BY <1>14, <3>1 DEF Returns, CInv, Knows, WasClosed, authVars
      <3>2. CASE call'[d] # call[d]
        <4>1. /\ d = c \/ (call[d].pc = "waiting" /\ SameKey(c, d))
              /\ call'[d] = [call[d] EXCEPT !.pc = "minted", !.answer = call[c].answer]
          BY <1>14, <3>2 DEF Returns
        <4>2. call[d].user = call[c].user
          BY <1>14, <4>1, <1>k, SameMember DEF Returns
        <4>3. /\ call'[d].pc = "minted" /\ call'[d].answer = call[c].answer
              /\ call'[d].user = call[c].user /\ call'[d].sess = call[d].sess
              /\ call'[d].kind = call[d].kind /\ call[d].pc \in {"answered", "waiting"}
          <5>1. call[d] \in Call
            BY <1>k
          <5> QED
            BY <1>14, <4>1, <4>2, <5>1 DEF Returns, Call
        <4> QED
          BY <1>14, <4>3 DEF Returns, CInv, Knows, WasClosed, authVars, Ended, Logging
      <3> QED
        BY <3>1, <3>2
    <2>2. OneLogin'
      BY <2>1 DEF CInv, OneLogin
    <2> QED
      BY <1>14, <2>1, <2>2 DEF Returns, CInv, RevokedForCause, AnnouncedIsRevoked, WasClosed, authVars, historyVars
  <1>15. ASSUME RevokeClosed(c) PROVE CInv'
    <2> DEFINE s == call[c].sess
    <2>1. s \in Session /\ row[s].state # "none"
      BY <1>15, <1>k DEF RevokeClosed, CInv, Knows, Fits, Ended, Logging, Asking, Says
    <2>2. /\ row' = [row EXCEPT ![s].state = "revoked"] /\ row' \in [Session -> Row]
          /\ call' \in [Caller -> Call] /\ \A d \in Caller : d # c => call'[d] = call[d]
          /\ row'[s].state = "revoked"
      BY <1>15, <1>k, <2>1 DEF RevokeClosed, Revoked, Moves, TInv, TypeOK, Row
    <2>3. Knows(call[c])' /\ call'[c].pc \notin Logging
      BY <1>15, <1>k, <2>2, NoCallTyped DEF RevokeClosed, Knows, Moves, Ended, Logging, Call
    <2>4. s \in loggedOut' \/ WasClosed(Owner[s])
      BY <1>15, <1>k, <2>1 DEF RevokeClosed, CInv, Knows, Fits, Call, Says
    <2> HIDE DEF s
    <2> QED
      BY <1>15, <1>k, <2>1, <2>2, <2>3, <2>4, Revoking DEF RevokeClosed, authVars, historyVars
  <1>16. ASSUME RevokeForSocket(c) PROVE CInv'
    <2> DEFINE s == call[c].sess
    <2>1. s \in Session /\ row[s].state # "none"
      BY <1>16, <1>k DEF RevokeForSocket, CInv, Knows, Fits, Ended, Logging, Asking, Says
    <2>2. /\ row' = [row EXCEPT ![s].state = "revoked"] /\ row' \in [Session -> Row]
          /\ call' \in [Caller -> Call] /\ \A d \in Caller : d # c => call'[d] = call[d]
          /\ row'[s].state = "revoked"
      BY <1>16, <1>k, <2>1 DEF RevokeForSocket, Revoked, Moves, TInv, TypeOK, Row
    <2>3. Knows(call[c])' /\ call'[c].pc \notin Logging
      BY <1>16, <1>k, <2>2, NoCallTyped DEF RevokeForSocket, Knows, Moves, Ended, Logging, Call
    <2>4. s \in loggedOut' \/ WasClosed(Owner[s])
      BY <1>16, <1>k, <2>1 DEF RevokeForSocket, CInv, Knows, Fits, Call, Says
    <2> HIDE DEF s
    <2> QED
      BY <1>16, <1>k, <2>1, <2>2, <2>3, <2>4, Revoking DEF RevokeForSocket, authVars, historyVars
  <1>17. ASSUME RevokeForBearer(c) PROVE CInv'
    BY <1>17, <1>k, NoCallTyped, SMTT(20) DEF RevokeForBearer, CInv, Knows, OneLogin, RevokedForCause, AnnouncedIsRevoked,
      WasClosed, Moves, Fits, Ended, Logging, Asking, Says, authVars, historyVars, Call, Row
  <1>18. ASSUME RevokeFails(c) PROVE CInv'
    BY <1>18, <1>k, NoCallTyped, SMTT(20) DEF RevokeFails, CInv, Knows, OneLogin, RevokedForCause, AnnouncedIsRevoked,
      WasClosed, Moves, Fits, Ended, Logging, Asking, Says, authVars, historyVars, Call, Row
  <1>19. ASSUME Refresh(c) PROVE CInv'
    <2>1. call[c].sess \in Session
      BY <1>19, <1>k DEF Refresh, Call
    <2>2. \A s \in Session : row'[s].state = row[s].state
      BY <1>19, <1>k, <2>1 DEF Refresh, Confirmed, Row
    <2>3. /\ call' \in [Caller -> Call] /\ row' \in [Session -> Row]
          /\ \A d \in Caller : d # c => call'[d] = call[d]
      BY <1>19, <1>k DEF TInv, TypeOK, Refresh, Moves
    <2>4. Knows(call[c])' /\ call'[c].pc \notin Logging
      BY <1>19, <1>k, <2>1, <2>2, NoCallTyped DEF Refresh, Onward, Knows, Moves, Fits, Ended, Logging, Asking, Call, CInv
    <2> QED
      BY <1>19, <1>k, <2>2, <2>3, <2>4, Quiet DEF Refresh, historyVars
  <1>20. ASSUME RefreshFails(c) PROVE CInv'
    <2>1. /\ call' \in [Caller -> Call] /\ row' \in [Session -> Row]
          /\ \A d \in Caller : d # c => call'[d] = call[d]
      BY <1>20, <1>k DEF TInv, TypeOK, RefreshFails, Onward, Moves
    <2>2. Knows(call[c])' /\ (call'[c].pc \in Logging => call[c].pc \in Logging /\ call'[c].sess = call[c].sess)
      BY <1>20, <1>k, NoCallTyped DEF RefreshFails, Knows, WasClosed, Moves, Fits, Ended, Logging, Asking, Says, authVars, historyVars, Call, CInv, Onward
    <2> QED
      BY <1>20, <1>k, <2>1, <2>2, Quiet DEF RefreshFails, historyVars
  <1>21. ASSUME FallBack(c) PROVE CInv'
    <2>1. /\ call' \in [Caller -> Call] /\ row' \in [Session -> Row]
          /\ \A d \in Caller : d # c => call'[d] = call[d]
      BY <1>21, <1>k DEF TInv, TypeOK, FallBack, Onward, Moves
    <2>2. Knows(call[c])' /\ (call'[c].pc \in Logging => call[c].pc \in Logging /\ call'[c].sess = call[c].sess)
      BY <1>21, <1>k, NoCallTyped DEF FallBack, Knows, WasClosed, Moves, Fits, Ended, Logging, Asking, Says, authVars, historyVars, Call, CInv, Onward
    <2> QED
      BY <1>21, <1>k, <2>1, <2>2, Quiet DEF FallBack, historyVars
  <1>22. ASSUME Slide(c) PROVE CInv'
    BY <1>22, <1>k, NoCallTyped, SMTT(20) DEF Slide, CInv, Knows, OneLogin, RevokedForCause, AnnouncedIsRevoked,
      WasClosed, Moves, Fits, Ended, Logging, Asking, Says, authVars, historyVars, Call, Row
  <1>23. ASSUME SlideFails(c) PROVE CInv'
    BY <1>23, <1>k, NoCallTyped, SMTT(20) DEF SlideFails, CInv, Knows, OneLogin, RevokedForCause, AnnouncedIsRevoked,
      WasClosed, Moves, Fits, Ended, Logging, Asking, Says, authVars, historyVars, Call, Row
  <1>24. ASSUME Serve(c) PROVE CInv'
    BY <1>24, <1>k, NoCallTyped, SMTT(20) DEF Serve, CInv, Knows, OneLogin, RevokedForCause, AnnouncedIsRevoked,
      WasClosed, Moves, Fits, Ended, Logging, Asking, Says, authVars, historyVars, Call, Row
  <1>25. ASSUME LogOut(c) PROVE CInv'
    <2> DEFINE s == call[c].sess
    <2>1. s \in Session /\ row[s].state # "none"
      BY <1>25, <1>k DEF LogOut, CInv, Knows, Fits, Ended, Logging, Asking
    <2>2. /\ row' = [row EXCEPT ![s].state = "revoked"] /\ row' \in [Session -> Row]
          /\ call' \in [Caller -> Call] /\ \A d \in Caller : d # c => call'[d] = call[d]
          /\ row'[s].state = "revoked"
      BY <1>25, <1>k, <2>1 DEF LogOut, Revoked, Moves, TInv, TypeOK, Row
    <2>3. Knows(call[c])' /\ call'[c].pc \notin Logging
      BY <1>25, <1>k, <2>2, NoCallTyped DEF LogOut, Knows, Moves, Ended, Logging, Call
    <2>4. s \in loggedOut' \/ WasClosed(Owner[s])
      BY <1>25, <1>k, <2>1 DEF LogOut, CInv, Knows, Fits, Call
    <2> HIDE DEF s
    <2> QED
      BY <1>25, <1>k, <2>1, <2>2, <2>3, <2>4, Revoking DEF LogOut, authVars, historyVars
  <1>26. ASSUME Announce(c) PROVE CInv'
    BY <1>26, <1>k, NoCallTyped, SMTT(20) DEF Announce, CInv, Knows, OneLogin, RevokedForCause, AnnouncedIsRevoked,
      WasClosed, Moves, Fits, Ended, Logging, Asking, Says, authVars, historyVars, Call, Row
  <1> QED
    BY <1>1, <1>2, <1>3, <1>4, <1>5, <1>6, <1>7, <1>8, <1>9, <1>10, <1>11, <1>12, <1>13, <1>14, <1>15, <1>16, <1>17, <1>18, <1>19, <1>20, <1>21, <1>22, <1>23, <1>24, <1>25, <1>26 DEF Proceed

LEMMA StepCaused == TInv /\ TInv' /\ CInv /\ [Next]_vars => CInv'
  <1> SUFFICES ASSUME TInv, TInv', CInv, [Next]_vars PROVE CInv'
    OBVIOUS
  <1>k. /\ call \in [Caller -> Call] /\ \A d \in Caller : Fits(call[d])
        /\ row \in [Session -> Row] /\ token \in [User -> RowState]
    BY DEF TInv, TypeOK, KindsFit
  <1>1. CASE Tick \/ UNCHANGED vars
    <2>1. UNCHANGED <<authVars, row, token, call, announced, loggedOut, withdrawn>>
      BY <1>1 DEF Tick, vars, historyVars
    <2> QED
      BY <2>1 DEF authVars, CInv, RevokedForCause, AnnouncedIsRevoked, OneLogin, Knows, WasClosed
  <1>2. ASSUME NEW u \in User, AccountChanges(u) PROVE CInv'
    <2>1. ASSUME NEW w \in User, WasClosed(w) PROVE WasClosed(w)'
      <3>1. PICK v \in Version : v <= version[w] /\ v \notin open[w]
        BY <2>1 DEF WasClosed
      <3>2. CASE w = u
        <4>1. version[u] \in Version /\ version'[u] = version[u] + 1
          BY <1>2 DEF AccountChanges, TInv, TypeOK
        <4>2. open'[u] \subseteq open[u] \cup {version[u] + 1}
          BY <1>2 DEF AccountChanges, TInv, TypeOK
        <4>3. v <= version'[u] /\ v # version[u] + 1 /\ version[u] \in Nat /\ v \in Nat
          BY <3>1, <3>2, <4>1 DEF Version
        <4> QED
          BY <3>1, <3>2, <4>2, <4>3 DEF WasClosed
      <3>3. CASE w # u
        <4>1. version'[w] = version[w] /\ open'[w] = open[w]
          BY <1>2, <3>3 DEF AccountChanges, TInv, TypeOK
        <4> QED
          BY <3>1, <4>1 DEF WasClosed
      <3> QED
        BY <3>2, <3>3
    <2>2. UNCHANGED <<row, token, call, announced, loggedOut, withdrawn>>
      BY <1>2 DEF AccountChanges, historyVars
    <2>3. (\A s \in Session : Owner[s] \in User) /\ \A c \in Caller : call[c].user \in User
      BY <1>k, AuthAssumption DEF AuthAssumption, Call
    <2> QED
      BY <2>1, <2>2, <2>3 DEF CInv, RevokedForCause, AnnouncedIsRevoked, OneLogin, Knows
  <1>3. ASSUME NEW u \in User, Withdraw(u) PROVE CInv'
    BY <1>3, <1>k DEF Withdraw, authVars, CInv, RevokedForCause, AnnouncedIsRevoked, OneLogin, Knows, WasClosed
  <1>4. ASSUME NEW c \in Caller, NEW kind \in Kinds, NEW s \in Session, Begin(c, kind, s) PROVE CInv'
    <2>1. /\ call'[c].pc = "looking" /\ call'[c].sess = s
          /\ \A d \in Caller : d # c => call'[d] = call[d]
      BY <1>4, <1>k, NoCallTyped DEF Begin, Call
    <2>2. Knows(call[c])' /\ call'[c].pc \notin Logging
      BY <1>4, <2>1 DEF Begin, Knows, Ended, Logging
    <2> QED
      BY <1>4, <1>k, <2>1, <2>2, Quiet DEF Begin, historyVars, TInv, TypeOK
  <1>5. ASSUME NEW c \in Caller, NEW u \in User, BeginBearer(c, u) PROVE CInv'
    <2>1. /\ call'[c].pc = "looking" /\ call'[c].kind = "bearer"
          /\ \A d \in Caller : d # c => call'[d] = call[d]
      BY <1>5, <1>k, NoCallTyped DEF BeginBearer, Call
    <2>2. Knows(call[c])' /\ call'[c].pc \notin Logging
      BY <1>5, <2>1 DEF BeginBearer, Knows, Ended, Logging
    <2> QED
      BY <1>5, <1>k, <2>1, <2>2, Quiet DEF BeginBearer, historyVars, TInv, TypeOK
  <1>6. ASSUME NEW c \in Caller, NEW s \in Session, BeginLogin(c, s) PROVE CInv'
    <2>1. /\ call'[c].pc = "authenticating" /\ call'[c].sess = s
          /\ \A d \in Caller : d # c => call'[d] = call[d]
          /\ row[s].state = "none"
      BY <1>6, <1>k, NoCallTyped DEF BeginLogin, Call
    <2>2. \A d \in Caller : call[d].pc \in Logging => call[d].sess # s
      BY <1>6, <1>k DEF BeginLogin, Fits
    <2>3. UNCHANGED <<version, open, row, token, announced, loggedOut, withdrawn>>
      BY <1>6 DEF BeginLogin, authVars, historyVars
    <2>4. OneLogin'
      BY <2>1, <2>2 DEF CInv, OneLogin
    <2>5. \A d \in Caller : Knows(call[d])'
      BY <2>1, <2>3 DEF CInv, Knows, Ended, Logging, WasClosed
    <2> QED
      BY <2>3, <2>4, <2>5 DEF CInv, RevokedForCause, AnnouncedIsRevoked, WasClosed
  <1>7. ASSUME NEW c \in Caller, Start(c) \/ Proceed(c) PROVE CInv'
    BY <1>4, <1>5, <1>6, <1>7, ProceedCaused DEF Start
  <1> QED
    BY <1>1, <1>2, <1>3, <1>7 DEF Next

LEMMA InitCaused == Init => CInv
  <1> SUFFICES ASSUME Init PROVE CInv
    OBVIOUS
  <1>1. \A s \in Session : row[s].state = "none"
    BY DEF Init, NoRow
  <1>2. \A c \in Caller : call[c].pc = "done"
    BY NoCallTyped DEF Init
  <1>3. \A u \in User : token[u] # "revoked"
    BY DEF Init
  <1> QED
    BY <1>1, <1>2, <1>3 DEF Init, CInv, RevokedForCause, AnnouncedIsRevoked, OneLogin, Knows, Logging, Ended

\* Nothing dies without a cause, and the hub is told only of what is dead: however many callers
\* race, whatever the auth service answers or loses, and whichever write fails.
THEOREM RevocationsAreCaused == Spec => [](RevokedForCause /\ AnnouncedIsRevoked)
  <1>1. Init => TInv /\ CInv
    BY InitTyped, InitCaused
  <1>2. TInv /\ CInv /\ [Next]_vars => TInv' /\ CInv'
    BY StepTyped, StepCaused
  <1>3. CInv => RevokedForCause /\ AnnouncedIsRevoked
    BY DEF CInv
  <1> QED
    BY <1>1, <1>2, <1>3, PTL DEF Spec

----------------------------------------------------------------------------
(* How old an identity may be. *)

\* What a call holds, held no earlier than it should.
Recent(k) ==
  /\ k.now <= clock /\ (k.pc \notin Ended => clock <= k.now + MaxCall)
  /\ k.pc \in {"looking", "reading", "minting", "waiting", "asking"} => k.answer = Unasked
  /\ k.pc \in {"answered", "authenticated"} /\ k.answer \in Version
       => HeldSince(k.user, k.answer, k.now)
  /\ k.pc \in {"creating", "minted", "touching", "serving"} /\ k.answer \in Version
       => HeldSince(k.user, k.answer, k.now - MaxCall)
  /\ k.pc \in {"touching", "serving"} =>
       /\ k.answer # Closed
       /\ k.answer = Unasked => HeldSince(k.user, k.cached, k.now - RoleRefresh - MaxCall)

\* What a row says.
RowHonest(s) ==
  row[s].stamp <= clock
  /\ (row[s].state # "none" => HeldSince(Owner[s], row[s].ver, row[s].stamp - MaxCall))

\* The current state of an account, and those to come, have not ended.
Unended == \A u \in User : \A v \in Version : version[u] <= v => ended[u][v] = Forever

HInv == Unended /\ (\A s \in Session : RowHonest(s)) /\ \A c \in Caller : Recent(call[c])

LEMMA HeldEarlier ==
  ASSUME TInv, NEW u \in User, NEW v \in Version, NEW t \in Int, NEW w \in Int,
         HeldSince(u, v, t), w <= t
  PROVE  HeldSince(u, v, w)
  <1>1. ended[u][v] \in Int
    BY AuthAssumption DEF AuthAssumption, TInv, TypeOK, Forever
  <1> QED
    BY <1>1 DEF HeldSince

\* The account's state now holds now.
LEMMA TruthHolds ==
  ASSUME TInv, HInv, NEW u \in User, version[u] \in open[u]
  PROVE  HeldSince(u, version[u], clock)
  BY AuthAssumption DEF AuthAssumption, TInv, TypeOK, HInv, Unended, HeldSince, Forever, Time, Version

LEMMA Undated ==
  ASSUME TInv, HInv, NEW c \in Caller, UNCHANGED <<clock, authVars>>, Recent(call[c])',
         \A d \in Caller : d # c => call'[d] = call[d],
         \A s \in Session : row'[s] = row[s] \/ RowHonest(s)'
  PROVE  HInv'
  <1>1. Unended'
    BY DEF HInv, Unended, authVars
  <1>2. ASSUME NEW s \in Session PROVE RowHonest(s)'
    BY <1>2 DEF HInv, RowHonest, HeldSince, authVars
  <1>3. ASSUME NEW d \in Caller PROVE Recent(call[d])'
    BY <1>3 DEF HInv, Recent, HeldSince, authVars
  <1> QED
    BY <1>1, <1>2, <1>3 DEF HInv

LEMMA FreshHolds ==
  ASSUME TInv, HInv, NEW s \in Session, NEW now \in Time, row[s].state # "none",
         Fresh(row[s].stamp, now)
  PROVE  HeldSince(Owner[s], row[s].ver, now - RoleRefresh - MaxCall)
  <1> USE AuthAssumption DEF AuthAssumption
  <1>1. row[s].stamp \in Int /\ row[s].ver \in Version /\ Owner[s] \in User /\ now \in Int
    BY DEF TInv, TypeOK, Row, Time
  <1>2. HeldSince(Owner[s], row[s].ver, row[s].stamp - MaxCall)
    BY DEF HInv, RowHonest
  <1>3. row[s].stamp - MaxCall \in Int /\ now - RoleRefresh - MaxCall \in Int
        /\ now - RoleRefresh - MaxCall <= row[s].stamp - MaxCall
    BY <1>1 DEF Fresh
  <1> QED
    BY <1>1, <1>2, <1>3, HeldEarlier

\* A row revoked, or written by a call that knows what it writes, stays honest.
LEMMA RevokedHonest ==
  ASSUME TInv, HInv, NEW x \in Session, row[x].state # "none",
         row' = [row EXCEPT ![x].state = "revoked"], UNCHANGED <<clock, authVars>>
  PROVE  \A s \in Session : row'[s] = row[s] \/ RowHonest(s)'
  <1>1. row \in [Session -> Row] /\ RowHonest(x)
    BY DEF TInv, TypeOK, HInv
  <1>2. row'[x].stamp = row[x].stamp /\ row'[x].ver = row[x].ver
        /\ \A s \in Session : s # x => row'[s] = row[s]
    BY <1>1 DEF Row
  <1>3. RowHonest(x)'
    BY <1>1, <1>2 DEF RowHonest, HeldSince, authVars
  <1> QED
    BY <1>2, <1>3

LEMMA WrittenHonest ==
  ASSUME TInv, HInv, NEW x \in Session, NEW v \in Version, NEW t \in Time, t <= clock,
         HeldSince(Owner[x], v, t - MaxCall), UNCHANGED <<clock, authVars>>,
         row'[x].ver = v, row'[x].stamp = t, \A s \in Session : s # x => row'[s] = row[s]
  PROVE  \A s \in Session : row'[s] = row[s] \/ RowHonest(s)'
  <1>1. RowHonest(x)'
    BY DEF RowHonest, HeldSince, authVars
  <1> QED
    BY <1>1

LEMMA ProceedHonest == ASSUME TInv, CInv, HInv, NEW c \in Caller, Proceed(c) PROVE HInv'
  <1> USE AuthAssumption DEF AuthAssumption
  <1>k. /\ call \in [Caller -> Call] /\ \A d \in Caller : Fits(call[d]) /\ Recent(call[d])
        /\ row \in [Session -> Row] /\ clock \in Time /\ Time \subseteq Int
    BY DEF TInv, TypeOK, KindsFit, HInv, Time
  <1>n. NoCall.now = 0 /\ clock \in Nat
    BY <1>k DEF NoCall, Time
  <1>1. ASSUME Authenticated(c) PROVE HInv'
    <2>1. \A d \in Caller : d # c => call'[d] = call[d]
      BY <1>1, <1>k DEF Authenticated, Moves
    <2>2. Recent(call[c])'
      <3>1. /\ call'[c].now = call[c].now /\ call'[c].user = call[c].user
            /\ call'[c].answer = version[call[c].user] /\ call'[c].pc = "authenticated"
        BY <1>1, <1>k DEF Authenticated, Call
      <3>2. HeldSince(call[c].user, version[call[c].user], call[c].now)
        <4>1. call[c].user \in User /\ version[call[c].user] \in Version /\ call[c].now \in Int
          BY <1>k DEF Call, TInv, TypeOK
        <4> QED
          BY <1>1, <1>k, <4>1, TruthHolds, HeldEarlier DEF Authenticated, Recent
      <3> QED
        BY <1>1, <1>k, <3>1, <3>2 DEF Authenticated, Recent, HeldSince, Ended, authVars
    <2>3. \A r \in Session : row'[r] = row[r] \/ RowHonest(r)'
      BY <1>1, <1>k DEF Authenticated, HInv, RowHonest, HeldSince, Revoked, Says, Row, authVars
    <2> QED
      BY <1>1, <2>1, <2>2, <2>3, Undated DEF Authenticated, authVars
  <1>2. ASSUME LoginRefused(c) PROVE HInv'
    <2>1. \A d \in Caller : d # c => call'[d] = call[d]
      BY <1>2, <1>k DEF LoginRefused, Moves
    <2>2. Recent(call[c])'
      BY <1>2, <1>k, <1>n, NoCallTyped DEF LoginRefused, Recent, HeldSince, Moves, Ended, Closed, Unasked, Transient, Version, Says, Onward, Call, authVars
    <2>3. \A r \in Session : row'[r] = row[r] \/ RowHonest(r)'
      BY <1>2, <1>k DEF LoginRefused, HInv, RowHonest, HeldSince, Revoked, Says, Row, authVars
    <2> QED
      BY <1>2, <2>1, <2>2, <2>3, Undated DEF LoginRefused, authVars
  <1>3. ASSUME LoginReturns(c) PROVE HInv'
    <2>1. \A d \in Caller : d # c => call'[d] = call[d]
      BY <1>3, <1>k DEF LoginReturns, Moves
    <2>2. Recent(call[c])'
      <3>1. /\ call'[c].now = clock /\ call'[c].user = call[c].user
            /\ call'[c].answer = call[c].answer /\ call'[c].pc = "creating"
        BY <1>3, <1>k DEF LoginReturns, Call
      <3>2. HeldSince(call[c].user, call[c].answer, clock - MaxCall)
        <4>1. call[c].user \in User /\ call[c].answer \in Version /\ call[c].now \in Int
              /\ clock - MaxCall <= call[c].now /\ clock - MaxCall \in Int
          BY <1>3, <1>k DEF LoginReturns, Call, Fits, Recent, Ended
        <4> QED
          BY <1>3, <1>k, <4>1, HeldEarlier DEF LoginReturns, Recent
      <3> QED
        BY <1>3, <1>k, <3>1, <3>2 DEF LoginReturns, Recent, HeldSince, Ended, authVars
    <2>3. \A r \in Session : row'[r] = row[r] \/ RowHonest(r)'
      BY <1>3, <1>k DEF LoginReturns, HInv, RowHonest, HeldSince, Revoked, Says, Row, authVars
    <2> QED
      BY <1>3, <2>1, <2>2, <2>3, Undated DEF LoginReturns, authVars
  <1>4. ASSUME Create(c) PROVE HInv'
    <2>1. \A d \in Caller : d # c => call'[d] = call[d]
      BY <1>4, <1>k DEF Create, Moves
    <2>2. Recent(call[c])'
      BY <1>4, <1>k, <1>n, NoCallTyped DEF Create, Recent, HeldSince, Moves, Ended, Closed, Unasked, Transient, Version, Says, Onward, Call, authVars
    <2>3. \A r \in Session : row'[r] = row[r] \/ RowHonest(r)'
      <3>1. call[c].sess \in Session /\ call[c].answer \in Version /\ call[c].now \in Time
            /\ call[c].now <= clock
            /\ HeldSince(Owner[call[c].sess], call[c].answer, call[c].now - MaxCall)
        BY <1>4, <1>k DEF Create, Fits, Ended, Logging, Recent, Call
      <3> PICK x \in Session : x = call[c].sess
        BY <3>1
      <3> PICK v \in Version : v = call[c].answer
        BY <3>1
      <3> PICK t \in Time : t = call[c].now
        BY <3>1
      <3>2. row' = [row EXCEPT ![x] = [state |-> "live", ver |-> v, stamp |-> t, seen |-> t]]
        BY <1>4 DEF Create
      <3>3. row'[x].ver = v /\ row'[x].stamp = t /\ \A s \in Session : s # x => row'[s] = row[s]
        BY <3>2, <1>k
      <3>4. UNCHANGED <<clock, authVars>>
        BY <1>4 DEF Create
      <3> QED
        BY <3>1, <3>3, <3>4, WrittenHonest
    <2> QED
      BY <1>4, <2>1, <2>2, <2>3, Undated DEF Create, authVars
  <1>5. ASSUME Lookup(c) PROVE HInv'
    <2> DEFINE s == call[c].sess
    <2>0. s \in Session /\ Owner[s] = call[c].user /\ row[s].state # "none" /\ call[c].now \in Time
          /\ call[c].kind \in {"recheck", "logout", "revalidation", "request"}
      BY <1>5, <1>k DEF Lookup, Alive, Fits, Call, Ended, Logging, CookieKind
    <2>a. CASE call[c].kind # "request"
      <3>1. PICK p \in {"revoking", "minting", "served"} : Moves(c, p)
        BY <1>5, <2>0, <2>a DEF Lookup, Reads
      <3>2. \A d \in Caller : d # c => call'[d] = call[d]
        BY <1>k, <3>1 DEF Moves
      <3>3. Recent(call[c])'
        BY <1>5, <1>k, <1>n, <3>1, NoCallTyped DEF Lookup, Recent, HeldSince, Moves, Ended, Unasked, Version, Call, authVars
      <3> QED
        BY <1>5, <3>2, <3>3, Undated DEF Lookup, authVars
    <2>b. CASE call[c].kind = "request"
      <3>1. /\ call'[c].now = call[c].now /\ call'[c].user = call[c].user
            /\ call'[c].answer = call[c].answer /\ call'[c].cached = row[s].ver
            /\ call'[c].pc = IF Fresh(row[s].stamp, call[c].now) THEN "touching" ELSE "minting"
            /\ \A d \in Caller : d # c => call'[d] = call[d]
        BY <1>5, <2>b, <1>k DEF Lookup, Reads, Call
      <3>2. call[c].answer = Unasked /\ call[c].now <= clock /\ clock <= call[c].now + MaxCall
        BY <1>5, <1>k DEF Lookup, Recent, Ended
      <3>3. Unasked \notin Version /\ Unasked # Closed
        BY DEF Unasked, Version, Closed
      <3>4. Recent(call[c])'
        <4>1. CASE Fresh(row[s].stamp, call[c].now)
          <5>1. HeldSince(call[c].user, row[s].ver, call[c].now - RoleRefresh - MaxCall)
            BY <2>0, <4>1, FreshHolds
          <5> QED
            BY <1>5, <3>1, <3>2, <3>3, <4>1, <5>1 DEF Lookup, Recent, HeldSince, Ended, authVars
        <4>2. CASE ~Fresh(row[s].stamp, call[c].now)
          BY <1>5, <3>1, <3>2, <3>3, <4>2 DEF Lookup, Recent, Ended
        <4> QED
          BY <4>1, <4>2
      <3> QED
        BY <1>5, <3>1, <3>4, Undated DEF Lookup, authVars
    <2> QED
      BY <2>a, <2>b
  <1>6. ASSUME LookupDead(c) PROVE HInv'
    <2>1. \A d \in Caller : d # c => call'[d] = call[d]
      BY <1>6, <1>k DEF LookupDead, Moves
    <2>2. Recent(call[c])'
      BY <1>6, <1>k, <1>n, NoCallTyped DEF LookupDead, Recent, HeldSince, Moves, Ended, Closed, Unasked, Transient, Version, Says, Onward, Call, authVars
    <2>3. \A r \in Session : row'[r] = row[r] \/ RowHonest(r)'
      BY <1>6, <1>k DEF LookupDead, HInv, RowHonest, HeldSince, Revoked, Says, Row, authVars
    <2> QED
      BY <1>6, <2>1, <2>2, <2>3, Undated DEF LookupDead, authVars
  <1>7. ASSUME StoreFails(c) PROVE HInv'
    <2>1. \A d \in Caller : d # c => call'[d] = call[d]
      BY <1>7, <1>k DEF StoreFails, Moves
    <2>2. Recent(call[c])'
      BY <1>7, <1>k, <1>n, NoCallTyped DEF StoreFails, Recent, HeldSince, Moves, Ended, Closed, Unasked, Transient, Version, Says, Onward, Call, authVars
    <2>3. \A r \in Session : row'[r] = row[r] \/ RowHonest(r)'
      BY <1>7, <1>k DEF StoreFails, HInv, RowHonest, HeldSince, Revoked, Says, Row, authVars
    <2> QED
      BY <1>7, <2>1, <2>2, <2>3, Undated DEF StoreFails, authVars
  <1>8. ASSUME LookupToken(c) PROVE HInv'
    <2>1. \A d \in Caller : d # c => call'[d] = call[d]
      BY <1>8, <1>k DEF LookupToken, Moves
    <2>2. Recent(call[c])'
      BY <1>8, <1>k, <1>n, NoCallTyped DEF LookupToken, Recent, HeldSince, Moves, Ended, Closed, Unasked, Transient, Version, Says, Onward, Call, authVars
    <2>3. \A r \in Session : row'[r] = row[r] \/ RowHonest(r)'
      BY <1>8, <1>k DEF LookupToken, HInv, RowHonest, HeldSince, Revoked, Says, Row, authVars
    <2> QED
      BY <1>8, <2>1, <2>2, <2>3, Undated DEF LookupToken, authVars
  <1>9. ASSUME ReadNewest(c) PROVE HInv'
    <2> PICK s \in SessionsOf(call[c].user) : ReadsFor(c, s)
      BY <1>9 DEF ReadNewest
    <2>0. s \in Session /\ Owner[s] = call[c].user /\ row[s].state # "none" /\ call[c].now \in Time
      BY <1>k DEF SessionsOf, Call
    <2>1. \A d \in Caller : d # c => call'[d] = call[d]
      BY <1>k DEF ReadsFor
    <2>2. Recent(call[c])'
      <3>1. /\ call'[c].now = call[c].now /\ call'[c].user = call[c].user
            /\ call'[c].answer = call[c].answer /\ call'[c].cached = row[s].ver
            /\ call'[c].pc = IF Fresh(row[s].stamp, call[c].now) THEN "serving" ELSE "minting"
        BY <1>k DEF ReadsFor, Call
      <3>2. call[c].answer = Unasked /\ call[c].now <= clock /\ clock <= call[c].now + MaxCall
        BY <1>9, <1>k DEF ReadNewest, Recent, Ended
      <3>3. Unasked \notin Version /\ Unasked # Closed
        BY DEF Unasked, Version, Closed
      <3>4. CASE Fresh(row[s].stamp, call[c].now)
        <4>1. HeldSince(call[c].user, row[s].ver, call[c].now - RoleRefresh - MaxCall)
          BY <2>0, <3>4, FreshHolds
        <4> QED
          BY <1>9, <3>1, <3>2, <3>3, <3>4, <4>1 DEF ReadNewest, Recent, HeldSince, Ended, authVars
      <3>5. CASE ~Fresh(row[s].stamp, call[c].now)
        BY <1>9, <3>1, <3>2, <3>3, <3>5 DEF ReadNewest, Recent, Ended
      <3> QED
        BY <3>4, <3>5
    <2>3. \A r \in Session : row'[r] = row[r] \/ RowHonest(r)'
      BY <1>9, <1>k DEF ReadNewest, HInv, RowHonest, HeldSince, Revoked, Says, Row, authVars
    <2> QED
      BY <1>9, <2>1, <2>2, <2>3, Undated DEF ReadNewest, authVars
  <1>10. ASSUME ReadNothing(c) PROVE HInv'
    <2>1. \A d \in Caller : d # c => call'[d] = call[d]
      BY <1>10, <1>k DEF ReadNothing, Moves
    <2>2. Recent(call[c])'
      BY <1>10, <1>k, <1>n, NoCallTyped DEF ReadNothing, Recent, HeldSince, Moves, Ended, Closed, Unasked, Transient, Version, Says, Onward, Call, authVars
    <2>3. \A s \in Session : row'[s] = row[s] \/ RowHonest(s)'
      BY <1>10, <1>k DEF ReadNothing, HInv, RowHonest, HeldSince, Revoked, Says, Row, authVars
    <2> QED
      BY <1>10, <2>1, <2>2, <2>3, Undated DEF ReadNothing, authVars
  <1>11. ASSUME Mint(c) PROVE HInv'
    <2>1. \A d \in Caller : d # c => call'[d] = call[d]
      BY <1>11, <1>k DEF Mint, Moves
    <2>2. Recent(call[c])'
      BY <1>11, <1>k, <1>n, NoCallTyped DEF Mint, Recent, HeldSince, Moves, Ended, Closed, Unasked, Transient, Version, Says, Onward, Call, authVars
    <2>3. \A s \in Session : row'[s] = row[s] \/ RowHonest(s)'
      BY <1>11, <1>k DEF Mint, HInv, RowHonest, HeldSince, Revoked, Says, Row, authVars
    <2> QED
      BY <1>11, <2>1, <2>2, <2>3, Undated DEF Mint, authVars
  <1>12. ASSUME Join(c) PROVE HInv'
    <2>1. \A d \in Caller : d # c => call'[d] = call[d]
      BY <1>12, <1>k DEF Join, Moves
    <2>2. Recent(call[c])'
      BY <1>12, <1>k, <1>n, NoCallTyped DEF Join, Recent, HeldSince, Moves, Ended, Closed, Unasked, Transient, Version, Says, Onward, Call, authVars
    <2>3. \A s \in Session : row'[s] = row[s] \/ RowHonest(s)'
      BY <1>12, <1>k DEF Join, HInv, RowHonest, HeldSince, Revoked, Says, Row, authVars
    <2> QED
      BY <1>12, <2>1, <2>2, <2>3, Undated DEF Join, authVars
  <1>13. ASSUME Answer(c) PROVE HInv'
    <2>1. \A d \in Caller : d # c => call'[d] = call[d]
      BY <1>13, <1>k DEF Answer, Moves
    <2>2. Recent(call[c])'
      BY <1>13, <1>k, <1>n, NoCallTyped DEF Answer, Recent, HeldSince, Moves, Ended, Closed, Unasked, Transient, Version, Says, Onward, Call, authVars
    <2>3. \A s \in Session : row'[s] = row[s] \/ RowHonest(s)'
      BY <1>13, <1>k DEF Answer, HInv, RowHonest, HeldSince, Revoked, Says, Row, authVars
    <2> QED
      BY <1>13, <2>1, <2>2, <2>3, Undated DEF Answer, authVars
  <1>14. ASSUME Returns(c) PROVE HInv'
    <2>1. Unended' /\ \A s \in Session : RowHonest(s)'
      BY <1>14 DEF Returns, HInv, Unended, RowHonest, HeldSince, authVars
    <2>2. ASSUME NEW d \in Caller PROVE Recent(call[d])'
      <3>1. CASE call'[d] = call[d]
        BY <1>14, <1>k, <3>1 DEF Returns, Recent, HeldSince, authVars
      <3>2. CASE call'[d] # call[d]
        <4>1. /\ d = c \/ (call[d].pc = "waiting" /\ SameKey(c, d))
              /\ call'[d] = [call[d] EXCEPT !.pc = "minted", !.answer = call[c].answer]
          BY <1>14, <3>2 DEF Returns
        <4>2. call[d].user = call[c].user
          BY <1>14, <1>k, <4>1, SameMember DEF Returns
        <4>3. call[c] \in Call /\ call[d] \in Call
          BY <1>k
        <4>4. /\ call'[d].pc = "minted" /\ call'[d].answer = call[c].answer
              /\ call'[d].user = call[c].user /\ call'[d].now = call[d].now
              /\ call[d].pc \in {"answered", "waiting"}
          BY <1>14, <4>1, <4>2, <4>3 DEF Returns, Call
        <4>5. /\ call[d].now - MaxCall <= call[c].now /\ call[c].now \in Int /\ call[d].now \in Int
              /\ call[d].now <= clock /\ clock <= call[d].now + MaxCall
          <5>1. call[c].now \in Int /\ call[d].now \in Int /\ clock \in Int
            BY <1>k, <4>3 DEF Call
          <5>2. clock <= call[c].now + MaxCall /\ call[c].now <= clock
            BY <1>14, <1>k DEF Returns, Recent, Ended
          <5>3. call[d].now <= clock /\ clock <= call[d].now + MaxCall
            BY <1>k, <4>4 DEF Recent, Ended
          <5> QED
            BY <5>1, <5>2, <5>3
        <4>6. call[c].answer \in Version => HeldSince(call[c].user, call[c].answer, call[d].now - MaxCall)
          <5>1. call[c].user \in User /\ call[d].now - MaxCall \in Int
            BY <4>3, <4>5 DEF Call
          <5> QED
            BY <1>14, <1>k, <4>5, <5>1, HeldEarlier DEF Returns, Recent
        <4> QED
          BY <1>14, <4>4, <4>5, <4>6 DEF Returns, Recent, HeldSince, Ended, authVars
      <3> QED
        BY <3>1, <3>2
    <2> QED
      BY <2>1, <2>2 DEF HInv
  <1>15. ASSUME RevokeClosed(c) PROVE HInv'
    <2>1. \A d \in Caller : d # c => call'[d] = call[d]
      BY <1>15, <1>k DEF RevokeClosed, Moves
    <2>2. Recent(call[c])'
      BY <1>15, <1>k, <1>n, NoCallTyped DEF RevokeClosed, Recent, HeldSince, Moves, Ended, Closed, Unasked, Transient, Version, Says, Onward, Call, authVars
    <2>3. \A s \in Session : row'[s] = row[s] \/ RowHonest(s)'
      <3>1. call[c].sess \in Session /\ row[call[c].sess].state # "none"
        BY <1>15, <1>k DEF RevokeClosed, CInv, Knows, Fits, Ended, Logging, Says
      <3> PICK x \in Session : x = call[c].sess
        BY <3>1
      <3>2. row' = [row EXCEPT ![x].state = "revoked"] /\ UNCHANGED <<clock, authVars>>
        BY <1>15 DEF RevokeClosed, Revoked
      <3> QED
        BY <3>1, <3>2, RevokedHonest
    <2> QED
      BY <1>15, <2>1, <2>2, <2>3, Undated DEF RevokeClosed, authVars
  <1>16. ASSUME RevokeForSocket(c) PROVE HInv'
    <2>1. \A d \in Caller : d # c => call'[d] = call[d]
      BY <1>16, <1>k DEF RevokeForSocket, Moves
    <2>2. Recent(call[c])'
      BY <1>16, <1>k, <1>n, NoCallTyped DEF RevokeForSocket, Recent, HeldSince, Moves, Ended, Closed, Unasked, Transient, Version, Says, Onward, Call, authVars
    <2>3. \A s \in Session : row'[s] = row[s] \/ RowHonest(s)'
      <3>1. call[c].sess \in Session /\ row[call[c].sess].state # "none"
        BY <1>16, <1>k DEF RevokeForSocket, CInv, Knows, Fits, Ended, Logging, Says
      <3> PICK x \in Session : x = call[c].sess
        BY <3>1
      <3>2. row' = [row EXCEPT ![x].state = "revoked"] /\ UNCHANGED <<clock, authVars>>
        BY <1>16 DEF RevokeForSocket, Revoked
      <3> QED
        BY <3>1, <3>2, RevokedHonest
    <2> QED
      BY <1>16, <2>1, <2>2, <2>3, Undated DEF RevokeForSocket, authVars
  <1>17. ASSUME RevokeForBearer(c) PROVE HInv'
    <2>1. \A d \in Caller : d # c => call'[d] = call[d]
      BY <1>17, <1>k DEF RevokeForBearer, Moves
    <2>2. Recent(call[c])'
      BY <1>17, <1>k, <1>n, NoCallTyped DEF RevokeForBearer, Recent, HeldSince, Moves, Ended, Closed, Unasked, Transient, Version, Says, Onward, Call, authVars
    <2>3. \A s \in Session : row'[s] = row[s] \/ RowHonest(s)'
      BY <1>17, <1>k DEF RevokeForBearer, HInv, RowHonest, HeldSince, Revoked, Says, Row, authVars
    <2> QED
      BY <1>17, <2>1, <2>2, <2>3, Undated DEF RevokeForBearer, authVars
  <1>18. ASSUME RevokeFails(c) PROVE HInv'
    <2>1. \A d \in Caller : d # c => call'[d] = call[d]
      BY <1>18, <1>k DEF RevokeFails, Moves
    <2>2. Recent(call[c])'
      BY <1>18, <1>k, <1>n, NoCallTyped DEF RevokeFails, Recent, HeldSince, Moves, Ended, Closed, Unasked, Transient, Version, Says, Onward, Call, authVars
    <2>3. \A s \in Session : row'[s] = row[s] \/ RowHonest(s)'
      BY <1>18, <1>k DEF RevokeFails, HInv, RowHonest, HeldSince, Revoked, Says, Row, authVars
    <2> QED
      BY <1>18, <2>1, <2>2, <2>3, Undated DEF RevokeFails, authVars
  <1>19. ASSUME Refresh(c) PROVE HInv'
    <2>1. \A d \in Caller : d # c => call'[d] = call[d]
      BY <1>19, <1>k DEF Refresh, Moves
    <2>2. Recent(call[c])'
      BY <1>19, <1>k, <1>n, NoCallTyped DEF Refresh, Recent, HeldSince, Moves, Ended, Closed, Unasked, Transient, Version, Says, Onward, Call, authVars
    <2>3. \A s \in Session : row'[s] = row[s] \/ RowHonest(s)'
      <3>1. call[c].sess \in Session /\ call[c].answer \in Version /\ call[c].now \in Time
            /\ call[c].now <= clock
            /\ HeldSince(Owner[call[c].sess], call[c].answer, call[c].now - MaxCall)
        BY <1>19, <1>k DEF Refresh, Fits, Recent, Call
      <3> PICK x \in Session : x = call[c].sess
        BY <3>1
      <3> PICK v \in Version : v = call[c].answer
        BY <3>1
      <3> PICK t \in Time : t = call[c].now
        BY <3>1
      <3>2. row' = [row EXCEPT ![x] = [row[x] EXCEPT !.ver = v, !.stamp = t]]
        BY <1>19 DEF Refresh, Confirmed
      <3>3. row'[x].ver = v /\ row'[x].stamp = t /\ \A s \in Session : s # x => row'[s] = row[s]
        BY <3>2, <1>k DEF Row
      <3>4. UNCHANGED <<clock, authVars>>
        BY <1>19 DEF Refresh
      <3> QED
        BY <3>1, <3>3, <3>4, WrittenHonest
    <2> QED
      BY <1>19, <2>1, <2>2, <2>3, Undated DEF Refresh, authVars
  <1>20. ASSUME RefreshFails(c) PROVE HInv'
    <2>1. \A d \in Caller : d # c => call'[d] = call[d]
      BY <1>20, <1>k DEF RefreshFails, Moves
    <2>2. Recent(call[c])'
      BY <1>20, <1>k, <1>n, NoCallTyped DEF RefreshFails, Recent, HeldSince, Moves, Ended, Closed, Unasked, Transient, Version, Says, Onward, Call, authVars
    <2>3. \A s \in Session : row'[s] = row[s] \/ RowHonest(s)'
      BY <1>20, <1>k DEF RefreshFails, HInv, RowHonest, HeldSince, Revoked, Says, Row, authVars
    <2> QED
      BY <1>20, <2>1, <2>2, <2>3, Undated DEF RefreshFails, authVars
  <1>21. ASSUME FallBack(c) PROVE HInv'
    <2>1. \A d \in Caller : d # c => call'[d] = call[d]
      BY <1>21, <1>k DEF FallBack, Moves
    <2>2. Recent(call[c])'
      BY <1>21, <1>k, <1>n, NoCallTyped DEF FallBack, Recent, HeldSince, Moves, Ended, Closed, Unasked, Transient, Version, Says, Onward, Call, authVars
    <2>3. \A s \in Session : row'[s] = row[s] \/ RowHonest(s)'
      BY <1>21, <1>k DEF FallBack, HInv, RowHonest, HeldSince, Revoked, Says, Row, authVars
    <2> QED
      BY <1>21, <2>1, <2>2, <2>3, Undated DEF FallBack, authVars
  <1>22. ASSUME Slide(c) PROVE HInv'
    <2>1. \A d \in Caller : d # c => call'[d] = call[d]
      BY <1>22, <1>k DEF Slide, Moves
    <2>2. Recent(call[c])'
      BY <1>22, <1>k, <1>n, NoCallTyped DEF Slide, Recent, HeldSince, Moves, Ended, Closed, Unasked, Transient, Version, Says, Onward, Call, authVars
    <2>3. \A s \in Session : row'[s] = row[s] \/ RowHonest(s)'
      BY <1>22, <1>k DEF Slide, HInv, RowHonest, HeldSince, Revoked, Says, Row, authVars
    <2> QED
      BY <1>22, <2>1, <2>2, <2>3, Undated DEF Slide, authVars
  <1>23. ASSUME SlideFails(c) PROVE HInv'
    <2>1. \A d \in Caller : d # c => call'[d] = call[d]
      BY <1>23, <1>k DEF SlideFails, Moves
    <2>2. Recent(call[c])'
      BY <1>23, <1>k, <1>n, NoCallTyped DEF SlideFails, Recent, HeldSince, Moves, Ended, Closed, Unasked, Transient, Version, Says, Onward, Call, authVars
    <2>3. \A s \in Session : row'[s] = row[s] \/ RowHonest(s)'
      BY <1>23, <1>k DEF SlideFails, HInv, RowHonest, HeldSince, Revoked, Says, Row, authVars
    <2> QED
      BY <1>23, <2>1, <2>2, <2>3, Undated DEF SlideFails, authVars
  <1>24. ASSUME Serve(c) PROVE HInv'
    <2>1. \A d \in Caller : d # c => call'[d] = call[d]
      BY <1>24, <1>k DEF Serve, Moves
    <2>2. Recent(call[c])'
      BY <1>24, <1>k, <1>n, NoCallTyped DEF Serve, Recent, HeldSince, Moves, Ended, Closed, Unasked, Transient, Version, Says, Onward, Call, authVars
    <2>3. \A s \in Session : row'[s] = row[s] \/ RowHonest(s)'
      BY <1>24, <1>k DEF Serve, HInv, RowHonest, HeldSince, Revoked, Says, Row, authVars
    <2> QED
      BY <1>24, <2>1, <2>2, <2>3, Undated DEF Serve, authVars
  <1>25. ASSUME LogOut(c) PROVE HInv'
    <2>1. \A d \in Caller : d # c => call'[d] = call[d]
      BY <1>25, <1>k DEF LogOut, Moves
    <2>2. Recent(call[c])'
      BY <1>25, <1>k, <1>n, NoCallTyped DEF LogOut, Recent, HeldSince, Moves, Ended, Closed, Unasked, Transient, Version, Says, Onward, Call, authVars
    <2>3. \A s \in Session : row'[s] = row[s] \/ RowHonest(s)'
      <3>1. call[c].sess \in Session /\ row[call[c].sess].state # "none"
        BY <1>25, <1>k DEF LogOut, CInv, Knows, Fits, Ended, Logging
      <3> PICK x \in Session : x = call[c].sess
        BY <3>1
      <3>2. row' = [row EXCEPT ![x].state = "revoked"] /\ UNCHANGED <<clock, authVars>>
        BY <1>25 DEF LogOut, Revoked
      <3> QED
        BY <3>1, <3>2, RevokedHonest
    <2> QED
      BY <1>25, <2>1, <2>2, <2>3, Undated DEF LogOut, authVars
  <1>26. ASSUME Announce(c) PROVE HInv'
    <2>1. \A d \in Caller : d # c => call'[d] = call[d]
      BY <1>26, <1>k DEF Announce, Moves
    <2>2. Recent(call[c])'
      BY <1>26, <1>k, <1>n, NoCallTyped DEF Announce, Recent, HeldSince, Moves, Ended, Closed, Unasked, Transient, Version, Says, Onward, Call, authVars
    <2>3. \A s \in Session : row'[s] = row[s] \/ RowHonest(s)'
      BY <1>26, <1>k DEF Announce, HInv, RowHonest, HeldSince, Revoked, Says, Row, authVars
    <2> QED
      BY <1>26, <2>1, <2>2, <2>3, Undated DEF Announce, authVars
  <1> QED
    BY <1>1, <1>2, <1>3, <1>4, <1>5, <1>6, <1>7, <1>8, <1>9, <1>10, <1>11, <1>12, <1>13, <1>14, <1>15, <1>16, <1>17, <1>18, <1>19, <1>20, <1>21, <1>22, <1>23, <1>24, <1>25, <1>26 DEF Proceed

\* What held until t still did, when the account changes now.
LEMMA ChangesKeep ==
  ASSUME TInv, HInv, NEW u \in User, AccountChanges(u),
         NEW w \in User, NEW v \in Version, NEW t \in Int, t <= clock, HeldSince(w, v, t)
  PROVE  v \in open'[w] /\ v <= version'[w] /\ ended'[w][v] >= t
  <1> USE AuthAssumption DEF AuthAssumption
  <1>1. /\ version \in [User -> Version] /\ open \in [User -> SUBSET Version]
        /\ ended \in [User -> [Version -> 0..Forever]] /\ clock \in Int
    BY DEF TInv, TypeOK, Time
  <1>2. v \in open'[w]
    BY <1>1 DEF AccountChanges, HeldSince
  <1>3. v <= version'[w]
    BY <1>1 DEF AccountChanges, HeldSince, Version
  <1>4. ended'[w][v] = ended[w][v] \/ ended'[w][v] = clock
    BY <1>1 DEF AccountChanges
  <1> QED
    BY <1>1, <1>2, <1>3, <1>4 DEF HeldSince

LEMMA ChangeHonest == ASSUME TInv, HInv, NEW u \in User, AccountChanges(u) PROVE HInv'
  <1> USE AuthAssumption DEF AuthAssumption
  <1>1. /\ version \in [User -> Version] /\ ended \in [User -> [Version -> 0..Forever]]
        /\ call \in [Caller -> Call] /\ row \in [Session -> Row]
    BY DEF TInv, TypeOK
  <1>2. UNCHANGED <<clock, row, call>> /\ clock \in Int
    BY DEF AccountChanges, TInv, TypeOK, Time
  <1>3. Unended'
    <2> SUFFICES ASSUME NEW w \in User, NEW v \in Version, version'[w] <= v
                 PROVE  ended'[w][v] = Forever
      BY DEF Unended
    <2>1. version[w] <= v /\ (w = u => version[w] # v)
      <3>1. version[w] \in Int /\ v \in Int
        BY <1>1 DEF Version
      <3>2. version'[w] = IF w = u THEN version[w] + 1 ELSE version[w]
        BY <1>1 DEF AccountChanges
      <3> QED
        BY <3>1, <3>2
    <2>2. ended'[w][v] = ended[w][v]
      BY <1>1, <2>1 DEF AccountChanges
    <2> QED
      BY <2>1, <2>2 DEF HInv, Unended
  <1>4. ASSUME NEW s \in Session PROVE RowHonest(s)'
    <2>1. RowHonest(s) /\ row[s].ver \in Version /\ Owner[s] \in User /\ row[s].stamp \in Int
      BY <1>1 DEF HInv, Row, Time
    <2>2. row[s].stamp - MaxCall \in Int /\ row[s].stamp - MaxCall <= clock
      BY <1>2, <2>1 DEF RowHonest
    <2> QED
      BY <1>2, <2>1, <2>2, ChangesKeep DEF RowHonest, HeldSince
  <1>5. ASSUME NEW d \in Caller PROVE Recent(call[d])'
    <2>1. Recent(call[d]) /\ call[d].now \in Int /\ call[d].user \in User /\ call[d].cached \in Version
      BY <1>1 DEF HInv, Call, Time
    <2>2. /\ call[d].now - MaxCall \in Int /\ call[d].now - MaxCall <= clock /\ call[d].now <= clock
          /\ call[d].now - RoleRefresh - MaxCall \in Int
          /\ call[d].now - RoleRefresh - MaxCall <= clock
      BY <1>2, <2>1 DEF Recent
    <2>3. ASSUME HeldSince(call[d].user, call[d].answer, call[d].now), call[d].answer \in Version
          PROVE  HeldSince(call[d].user, call[d].answer, call[d].now)'
      BY <1>2, <2>1, <2>2, <2>3, ChangesKeep DEF HeldSince
    <2>4. ASSUME HeldSince(call[d].user, call[d].answer, call[d].now - MaxCall), call[d].answer \in Version
          PROVE  HeldSince(call[d].user, call[d].answer, call[d].now - MaxCall)'
      BY <1>2, <2>1, <2>2, <2>4, ChangesKeep DEF HeldSince
    <2>5. ASSUME HeldSince(call[d].user, call[d].cached, call[d].now - RoleRefresh - MaxCall)
          PROVE  HeldSince(call[d].user, call[d].cached, call[d].now - RoleRefresh - MaxCall)'
      BY <1>2, <2>1, <2>2, <2>5, ChangesKeep DEF HeldSince
    <2> QED
      BY <1>2, <2>1, <2>3, <2>4, <2>5 DEF Recent
  <1> QED
    BY <1>3, <1>4, <1>5 DEF HInv

LEMMA StartHonest == ASSUME TInv, HInv, NEW c \in Caller, Start(c) PROVE HInv'
  <1> USE AuthAssumption DEF AuthAssumption
  <1>k. call \in [Caller -> Call] /\ clock \in Int
    BY DEF TInv, TypeOK, Time
  <1>1. UNCHANGED <<clock, authVars, row>>
    BY DEF Start, Begin, BeginBearer, BeginLogin
  <1> DEFINE Begun ==
        /\ call'[c].pc \in {"looking", "authenticating"} /\ call'[c].now = clock
        /\ call'[c].answer = Unasked /\ \A d \in Caller : d # c => call'[d] = call[d]
  <1>2. Begun
    <2>1. ASSUME NEW kind \in Kinds, NEW s \in Session, Begin(c, kind, s) PROVE Begun
      BY <1>k, <2>1, NoCallTyped DEF Begin, Call
    <2>2. ASSUME NEW u \in User, BeginBearer(c, u) PROVE Begun
      BY <1>k, <2>2, NoCallTyped DEF BeginBearer, Call
    <2>3. ASSUME NEW s \in Session, BeginLogin(c, s) PROVE Begun
      BY <1>k, <2>3, NoCallTyped DEF BeginLogin, Call
    <2> QED
      BY <2>1, <2>2, <2>3 DEF Start
  <1>3. Recent(call[c])'
    BY <1>k, <1>1, <1>2 DEF Recent
  <1> QED
    BY <1>1, <1>2, <1>3, Undated

LEMMA StepHonest == TInv /\ CInv /\ HInv /\ [Next]_vars => HInv'
  <1> SUFFICES ASSUME TInv, CInv, HInv, [Next]_vars PROVE HInv'
    OBVIOUS
  <1> USE AuthAssumption DEF AuthAssumption
  <1>k. call \in [Caller -> Call] /\ clock \in Int /\ row \in [Session -> Row]
    BY DEF TInv, TypeOK, Time
  <1>1. CASE UNCHANGED vars
    BY <1>1 DEF vars, authVars, HInv, Unended, RowHonest, Recent, HeldSince
  <1>2. CASE Tick
    <2>1. UNCHANGED <<authVars, row, call>> /\ clock' = clock + 1
      BY <1>2 DEF Tick
    <2>2. Unended'
      BY <2>1 DEF authVars, HInv, Unended
    <2>3. ASSUME NEW s \in Session PROVE RowHonest(s)'
      <3>1. RowHonest(s) /\ row[s].stamp \in Int
        BY <1>k DEF HInv, Row, Time
      <3> QED
        BY <1>k, <2>1, <3>1 DEF authVars, RowHonest, HeldSince
    <2>4. ASSUME NEW d \in Caller PROVE Recent(call[d])'
      <3>1. Recent(call[d]) /\ call[d].now \in Int
        BY <1>k DEF HInv, Call, Time
      <3>2. call[d].pc \notin Ended => clock < call[d].now + MaxCall
        BY <1>2 DEF Tick, Busy
      <3> QED
        BY <1>k, <2>1, <3>1, <3>2 DEF authVars, Recent, HeldSince
    <2> QED
      BY <2>2, <2>3, <2>4 DEF HInv
  <1>3. ASSUME NEW u \in User, Withdraw(u) PROVE HInv'
    BY <1>3 DEF Withdraw, authVars, HInv, Unended, RowHonest, Recent, HeldSince
  <1> QED
    BY <1>1, <1>2, <1>3, ChangeHonest, StartHonest, ProceedHonest DEF Next

LEMMA InitHonest == Init => HInv
  <1> SUFFICES ASSUME Init PROVE HInv
    OBVIOUS
  <1>1. Unended
    BY DEF Init, Unended
  <1>2. \A s \in Session : RowHonest(s)
    BY DEF Init, RowHonest, NoRow
  <1>3. NoCall.now = 0 /\ clock = 0
    BY DEF Init, NoCall
  <1>4. \A c \in Caller : Recent(call[c])
    BY <1>3, NoCallTyped DEF Init, Recent, Ended, Unasked, Version
  <1> QED
    BY <1>1, <1>2, <1>4 DEF HInv

\* A stamp never claims more than it knows, however joiners, slow writers and account changes
\* interleave, and nobody is served on an identity older than one refresh period and one call
\* unless the auth service stayed away, for every number of callers.
THEOREM IdentitiesAreCurrent == Spec => []IdentityIsCurrent
  <1>1. Init => TInv /\ CInv /\ HInv
    BY InitTyped, InitCaused, InitHonest
  <1>2. TInv /\ CInv /\ HInv /\ [Next]_vars => TInv' /\ CInv' /\ HInv'
    BY StepTyped, StepCaused, StepHonest
  <1>3. TInv /\ HInv => IdentityIsCurrent
    <2> SUFFICES ASSUME TInv, HInv PROVE StampIsHonest /\ ServedIsCurrent
      BY DEF IdentityIsCurrent
    <2> USE AuthAssumption DEF AuthAssumption
    <2>1. StampIsHonest
      BY DEF HInv, RowHonest, StampIsHonest
    <2>2. ASSUME NEW c \in Caller, call[c].pc \in {"touching", "serving"}, call[c].answer # Transient
          PROVE  HeldSince(call[c].user, ActsAs(c), call[c].now - RoleRefresh - MaxCall)
      <3>1. /\ Recent(call[c]) /\ call[c].user \in User /\ call[c].now \in Int
            /\ call[c].answer \in Unasked..MaxVersion
        BY DEF TInv, TypeOK, HInv, Call, Time
      <3>2. CASE call[c].answer \in Version
        <4>1. HeldSince(call[c].user, call[c].answer, call[c].now - MaxCall)
          BY <2>2, <3>1, <3>2 DEF Recent
        <4>2. /\ call[c].now - MaxCall \in Int /\ call[c].now - RoleRefresh - MaxCall \in Int
              /\ call[c].now - RoleRefresh - MaxCall <= call[c].now - MaxCall
          BY <3>1
        <4> QED
          BY <3>1, <3>2, <4>1, <4>2, HeldEarlier DEF ActsAs
      <3>3. CASE call[c].answer \notin Version
        <4>1. call[c].answer = Unasked
          BY <2>2, <3>1, <3>3 DEF Recent, Version, Closed, Transient, Unasked
        <4> QED
          BY <2>2, <3>1, <3>3, <4>1 DEF Recent, ActsAs
      <3> QED
        BY <3>2, <3>3
    <2> QED
      BY <2>1, <2>2 DEF ServedIsCurrent
  <1> QED
    BY <1>1, <1>2, <1>3, PTL DEF Spec

----------------------------------------------------------------------------
(* What use earns a session, and whom its end is told.                     *)
(*                                                                         *)
(* A request decides whether to slide by the row as it read it, perhaps    *)
(* long before: by then the row may be later, or - when a slower request   *)
(* has written its own, earlier, start over it - earlier than what was     *)
(* read, but never by more than a call (Behind).                           *)

\* A request that has read its row and has not yet slid it.
Late(k) == k.kind = "request" /\ k.pc \in Asking \cup {"touching"}

Behind(k) == row[k.sess].seen >= k.seen \/ row[k.sess].seen >= k.now - MaxCall

\* Only what exists was used, and nothing will have been used later than now.
UsedInv == \A s \in Session : used[s] <= clock /\ (row[s].state = "none" => used[s] = 0)

Told(s) == \/ s \in announced \cup dropped
           \/ \E c \in Caller : call[c].pc = "announcing" /\ call[c].sess = s

UInv ==
  /\ UsedInv /\ InUseStaysAlive
  /\ \A c \in Caller : Late(call[c]) => Behind(call[c])
  /\ \A s \in Session : row[s].state = "revoked" => Told(s)

\* A step of the calls: whoever has read a row had read it before, or reads it now,
Carried ==
  \A d \in Caller : Late(call'[d]) =>
    \/ Late(call[d]) /\ call'[d].sess = call[d].sess /\ call'[d].now = call[d].now
                      /\ call'[d].seen = call[d].seen
    \/ call'[d].sess \in Session /\ call'[d].seen = row[call'[d].sess].seen

\* and whoever was about to announce still is, or has done it.
Heralded ==
  \A d \in Caller : call[d].pc = "announcing" =>
    \/ call'[d].pc = "announcing" /\ call'[d].sess = call[d].sess
    \/ call[d].sess \in announced'

\* The rows' last use stays; whoever revokes one tells.
Revealed ==
  \A s \in Session :
    /\ row'[s].seen = row[s].seen
    /\ \/ row'[s].state = row[s].state
       \/ row[s].state # "none" /\ row'[s].state = "revoked" /\ Told(s)'

LEMMA ToldStays ==
  ASSUME Heralded, announced \subseteq announced', dropped \subseteq dropped',
         NEW s \in Session, Told(s)
  PROVE  Told(s)'
BY DEF Told, Heralded

\* Steps that slide nothing and create nothing.
LEMMA Unslid ==
  ASSUME TInv, TInv', UInv, Carried, Heralded, Revealed, clock <= clock', UNCHANGED used,
         announced \subseteq announced', dropped \subseteq dropped'
  PROVE  UInv'
  <1>k. /\ call \in [Caller -> Call] /\ call' \in [Caller -> Call]
        /\ row \in [Session -> Row] /\ row' \in [Session -> Row]
        /\ clock \in Int /\ clock' \in Int /\ used \in [Session -> Time] /\ Time \subseteq Int
        /\ \A d \in Caller : Fits(call[d])
    BY DEF TInv, TypeOK, KindsFit, Time
  <1>1. UsedInv'
    <2>1. ASSUME NEW s \in Session
          PROVE  used'[s] <= clock' /\ (row'[s].state = "none" => used'[s] = 0)
      <3>1. /\ used[s] <= clock /\ (row[s].state = "none" => used[s] = 0)
            /\ row'[s].state = "none" => row[s].state = "none"
        BY DEF UInv, UsedInv, Revealed
      <3>2. used[s] \in Int
        BY <1>k
      <3> QED BY <1>k, <3>1, <3>2
    <2> QED BY <2>1 DEF UsedInv
  <1>2. InUseStaysAlive'
    BY DEF UInv, InUseStaysAlive, Revealed
  <1>3. ASSUME NEW d \in Caller, Late(call'[d]) PROVE Behind(call[d])'
    <2>1. CASE /\ Late(call[d]) /\ call'[d].sess = call[d].sess /\ call'[d].now = call[d].now
               /\ call'[d].seen = call[d].seen
      <3>1. Behind(call[d]) /\ call[d].sess \in Session
        BY <2>1, <1>k DEF UInv, Late, Fits, Ended, Asking
      <3> QED
        BY <2>1, <3>1 DEF Behind, Revealed
    <2>2. CASE call'[d].sess \in Session /\ call'[d].seen = row[call'[d].sess].seen
      <3>1. row'[call'[d].sess].seen = call'[d].seen /\ call'[d].seen \in Int
        BY <2>2, <1>k DEF Revealed, Call
      <3> QED
        BY <3>1 DEF Behind
    <2> QED
      BY <1>3, <2>1, <2>2 DEF Carried
  <1>4. ASSUME NEW s \in Session, row'[s].state = "revoked" PROVE Told(s)'
    BY <1>4, ToldStays DEF Revealed, UInv
  <1>5. (\A c \in Caller : Late(call[c]) => Behind(call[c]))'
    BY <1>3 DEF Late
  <1> QED
    BY <1>1, <1>2, <1>4, <1>5 DEF UInv

\* Moving a call on, to where it may read nothing, and ending it, carry what was read.
LEMMA MovesCarries ==
  ASSUME TInv, NEW c \in Caller, NEW p \in Pc, Moves(c, p),
         p \in Asking \cup {"touching"} /\ call[c].kind = "request" => Late(call[c])
  PROVE  Carried
  <1>1. call \in [Caller -> Call]
    BY DEF TInv, TypeOK
  <1>2. CASE p \in Ended
    BY <1>1, <1>2, NoCallTyped DEF Moves, Carried, Late, Call
  <1>3. CASE p \notin Ended
    <2>1. call' = [call EXCEPT ![c] = [@ EXCEPT !.pc = p]]
      BY <1>3 DEF Moves
    <2>2. ASSUME NEW d \in Caller
          PROVE  /\ call'[d].sess = call[d].sess /\ call'[d].now = call[d].now
                 /\ call'[d].seen = call[d].seen /\ call'[d].kind = call[d].kind
                 /\ call'[d].pc = IF d = c THEN p ELSE call[d].pc
      BY <1>1, <2>1 DEF Call
    <2> QED
      BY <2>2 DEF Carried, Late
  <1> QED
    BY <1>2, <1>3

\* A call that is not about to announce may go where it likes.
LEMMA MovesHeralds ==
  ASSUME TInv, NEW c \in Caller, call[c].pc # "announcing",
         \A d \in Caller : d # c => call'[d] = call[d]
  PROVE  Heralded
BY DEF Heralded

LEMMA MovesOnly ==
  ASSUME TInv, NEW c \in Caller, NEW p \in Pc, Moves(c, p)
  PROVE  \A d \in Caller : d # c => call'[d] = call[d]
BY DEF Moves, TInv, TypeOK

\* Steps that only move a call on, whatever is recorded of them.
LEMMA MovedOn ==
  ASSUME TInv, TInv', UInv, NEW c \in Caller, NEW p \in Pc, Moves(c, p),
         p \in Asking \cup {"touching"} /\ call[c].kind = "request" => Late(call[c]),
         call[c].pc = "announcing" => call[c].sess \in announced',
         Revealed, UNCHANGED <<clock, used>>,
         announced \subseteq announced', dropped \subseteq dropped'
  PROVE  UInv'
  <1>1. \A d \in Caller : d # c => call'[d] = call[d]
    BY MovesOnly
  <1>2. Heralded
    BY <1>1 DEF Heralded
  <1>3. clock <= clock'
    BY DEF TInv, TypeOK, Time
  <1> QED
    BY <1>2, <1>3, MovesCarries, Unslid

\* Reading the row: a request takes what it says.
LEMMA LookupUsed == ASSUME TInv, TInv', UInv, NEW c \in Caller, Lookup(c) PROVE UInv'
  <1>k. /\ call \in [Caller -> Call] /\ call[c] \in Call /\ call[c].sess \in Session
        /\ call[c].kind \in {"recheck", "logout", "revalidation", "request"}
        /\ call[c].pc = "looking"
        /\ UNCHANGED <<clock, row, announced, dropped, used>>
    BY DEF Lookup, TInv, TypeOK, KindsFit, Fits, Ended, Logging, Call, CookieKind, historyVars
  <1>1. Revealed /\ clock <= clock'
    BY <1>k DEF Revealed, TInv, TypeOK, Time
  <1>2. CASE call[c].kind # "request"
    <2>1. PICK p \in {"served", "revoking", "minting"} : Moves(c, p)
      BY <1>k, <1>2 DEF Lookup, Reads
    <2>2. p \in Pc
      BY DEF Pc, Ended
    <2> QED
      BY <1>k, <1>1, <1>2, <2>1, <2>2, MovedOn
  <1>3. CASE call[c].kind = "request"
    <2>1. /\ \A d \in Caller : d # c => call'[d] = call[d]
          /\ call'[c].sess = call[c].sess /\ call'[c].seen = row[call[c].sess].seen
      BY <1>k, <1>3 DEF Lookup, Reads, Call
    <2>2. Carried /\ Heralded
      BY <1>k, <2>1 DEF Carried, Heralded
    <2> QED
      BY <1>k, <1>1, <2>2, Unslid
  <1> QED
    BY <1>2, <1>3

\* The answer reaches those who wait for it.
LEMMA ReturnsUsed == ASSUME TInv, TInv', UInv, NEW c \in Caller, Returns(c) PROVE UInv'
  <1>1. UNCHANGED <<clock, row, announced, dropped, used>> /\ call \in [Caller -> Call]
    <2>1. UNCHANGED <<clock, authVars, row, token, announced, dropped, historyVars>>
      BY DEF Returns
    <2> QED
      BY <2>1 DEF historyVars, TInv, TypeOK
  <1>2. ASSUME NEW d \in Caller
        PROVE  /\ call'[d].sess = call[d].sess /\ call'[d].now = call[d].now
               /\ call'[d].seen = call[d].seen /\ call'[d].kind = call[d].kind
               /\ call'[d].pc = call[d].pc \/ call[d].pc \in {"answered", "waiting"}
    <2>1. call[d] \in Call
      BY <1>1
    <2>2. /\ call' = [e \in Caller |->
                       IF e = c \/ (call[e].pc = "waiting" /\ SameKey(c, e))
                         THEN [call[e] EXCEPT !.pc = "minted", !.answer = call[c].answer]
                         ELSE call[e]]
          /\ call[c].pc = "answered"
      BY DEF Returns
    <2>3. \/ call'[d] = call[d]
          \/ /\ call'[d] = [call[d] EXCEPT !.pc = "minted", !.answer = call[c].answer]
             /\ call[d].pc \in {"answered", "waiting"}
      BY <2>2
    <2> QED
      BY <2>1, <2>3 DEF Call
  <1>3. Carried
    BY <1>2 DEF Carried, Late, Asking
  <1>4. Heralded
    BY <1>2 DEF Heralded
  <1>5. Revealed /\ clock <= clock'
    BY <1>1 DEF Revealed, TInv, TypeOK, Time
  <1> QED
    BY <1>1, <1>3, <1>4, <1>5, Unslid

\* A step that changes one call where nothing has been read for a request.
LEMMA OtherUsed ==
  ASSUME TInv, TInv', UInv, NEW c \in Caller, call[c].pc # "announcing",
         \A d \in Caller : d # c => call'[d] = call[d],
         ~ Late(call'[c]) \/ (Late(call[c]) /\ call'[c].sess = call[c].sess
                              /\ call'[c].now = call[c].now /\ call'[c].seen = call[c].seen),
         UNCHANGED <<clock, row, announced, dropped, used>>
  PROVE  UInv'
  <1>1. Carried /\ Heralded
    BY DEF Carried, Heralded
  <1>2. Revealed /\ clock <= clock'
    BY DEF Revealed, TInv, TypeOK, Time
  <1> QED
    BY <1>1, <1>2, Unslid

\* The lazy slide.
LEMMA SlideUsed == ASSUME TInv, TInv', CInv, HInv, UInv, NEW c \in Caller, Slide(c) PROVE UInv'
  <1> DEFINE k == call[c]
             x == k.sess
             L == Later(Granularity, MaxCall)
  <1>a. /\ Granularity \in Int /\ MaxCall \in Nat /\ L \in Int
        /\ Granularity <= L /\ MaxCall <= L
    BY AuthAssumption DEF AuthAssumption, Later
  <1>k. /\ call \in [Caller -> Call] /\ row \in [Session -> Row] /\ used \in [Session -> Time]
        /\ row' \in [Session -> Row] /\ Time \subseteq Int
        /\ k \in Call /\ k.pc = "touching" /\ k.kind = "request" /\ x \in Session
        /\ clock \in Int /\ k.now \in Int /\ k.seen \in Int
        /\ row[x].seen \in Int /\ used[x] \in Int
    <2>1. /\ call \in [Caller -> Call] /\ row \in [Session -> Row] /\ used \in [Session -> Time]
          /\ row' \in [Session -> Row] /\ Time \subseteq Int /\ clock \in Int /\ Fits(k)
      BY DEF TInv, TypeOK, KindsFit, Time
    <2>2. k \in Call /\ k.pc = "touching" /\ k.kind = "request" /\ x \in Session
      BY <2>1 DEF Slide, Fits, Ended
    <2>3. /\ k.now \in Int /\ k.seen \in Int
      BY <2>1, <2>2 DEF Call
    <2>4. row[x] \in Row /\ used[x] \in Int
      BY <2>1, <2>2
    <2>5. row[x].seen \in Int
      BY <2>1, <2>4 DEF Row
    <2> QED
      BY <2>1, <2>2, <2>3, <2>4, <2>5
  <1>b. /\ k.now <= clock /\ clock <= k.now + MaxCall /\ Behind(k)
        /\ used[x] <= clock /\ row[x].seen >= used[x] - L /\ row[x].state # "none"
    BY <1>k DEF HInv, Recent, Ended, UInv, UsedInv, InUseStaysAlive, Late, CInv, Knows, Logging
  <1>1. /\ UNCHANGED <<clock, announced, dropped>>
        /\ \A d \in Caller : d # c => call'[d] = call[d]
        /\ call'[c].pc = "served"
    <2>1. Moves(c, "served") /\ UNCHANGED <<clock, announced, dropped>>
      BY DEF Slide
    <2>2. call'[c].pc = "served"
      BY <1>k, <2>1, NoCallTyped DEF Moves, Ended, Call
    <2> QED
      BY <2>1, <2>2, MovesOnly DEF Pc, Ended
  <1>2. /\ \A s \in Session : s # x => row'[s] = row[s] /\ used'[s] = used[s]
        /\ used'[x] = Later(used[x], k.now)
        /\ row'[x].state = row[x].state
        /\ IF k.now - k.seen > Granularity THEN row'[x].seen = k.now ELSE row'[x].seen = row[x].seen
    BY <1>k DEF Slide, Slid, Row
  <1>3. used'[x] <= clock /\ row'[x].seen >= used'[x] - L
    <2>1. CASE k.now - k.seen > Granularity
      BY <1>a, <1>b, <1>k, <1>2, <2>1 DEF Later
    <2>2. CASE ~(k.now - k.seen > Granularity)
      <3>1. row[x].seen >= k.now - L
        BY <1>a, <1>b, <1>k, <2>2 DEF Behind
      <3> QED
        BY <1>a, <1>b, <1>k, <1>2, <2>2, <3>1 DEF Later
    <2> QED
      BY <2>1, <2>2
  <1>4. UsedInv'
    BY <1>1, <1>2, <1>3, <1>b DEF UInv, UsedInv
  <1>5. InUseStaysAlive'
    BY <1>2, <1>3 DEF UInv, InUseStaysAlive
  <1>6. ASSUME NEW d \in Caller, Late(call'[d]) PROVE Behind(call[d])'
    <2>1. /\ d # c /\ call'[d] = call[d] /\ Late(call[d]) /\ call[d].sess \in Session
          /\ call[d] \in Call /\ call[d].pc \notin Ended
      BY <1>1, <1>6, <1>k DEF Late, Asking, TInv, KindsFit, Fits, Ended
    <2>2. Behind(call[d]) /\ call[d].now <= clock /\ call[d].now \in Int /\ call[d].seen \in Int
      BY <2>1, <1>k DEF UInv, HInv, Recent, Call
    <2>3. row'[call[d].sess].seen = row[call[d].sess].seen \/ row'[call[d].sess].seen = k.now
      BY <1>2, <2>1
    <2>4. k.now >= call[d].now - MaxCall
      BY <1>a, <1>b, <1>k, <2>2
    <2> QED
      BY <2>1, <2>2, <2>3, <2>4 DEF Behind
  <1>7. ASSUME NEW s \in Session, row'[s].state = "revoked" PROVE Told(s)'
    <2>1. Heralded
      BY <1>k, <1>1 DEF Heralded
    <2>2. row[s].state = "revoked"
      BY <1>2, <1>7
    <2> QED
      BY <1>1, <2>1, <2>2, ToldStays DEF UInv
  <1>8. (\A d \in Caller : Late(call[d]) => Behind(call[d]))'
    BY <1>6 DEF Late
  <1> QED
    BY <1>4, <1>5, <1>7, <1>8 DEF UInv

\* A login's session is new: nobody has read it, and nothing has used it.
LEMMA CreateUsed == ASSUME TInv, TInv', CInv, UInv, NEW c \in Caller, Create(c) PROVE UInv'
  <1> DEFINE x == call[c].sess
  <1>k. /\ call \in [Caller -> Call] /\ row \in [Session -> Row] /\ row' \in [Session -> Row]
        /\ x \in Session /\ row[x].state = "none" /\ call[c].pc = "creating"
        /\ UNCHANGED <<clock, announced, dropped, used>>
    BY DEF Create, TInv, TypeOK, KindsFit, Fits, Ended, Logging, CInv, Knows, historyVars
  <1>1. /\ \A d \in Caller : d # c => call'[d] = call[d]
        /\ call'[c].pc = "done"
    <2>1. Moves(c, "done")
      BY DEF Create
    <2>2. call'[c].pc = "done"
      BY <1>k, <2>1, NoCallTyped DEF Moves, Ended, Call
    <2> QED
      BY <2>1, <2>2, MovesOnly DEF Pc, Ended
  <1>2. /\ \A s \in Session : s # x => row'[s] = row[s]
        /\ row'[x].state = "live" /\ row'[x].seen >= 0
    BY <1>k DEF Create, TInv, TypeOK, Call, Time
  <1>3. used[x] = 0
    BY <1>k DEF UInv, UsedInv
  <1>4. UsedInv' /\ InUseStaysAlive'
    <2>1. Later(Granularity, MaxCall) \in Nat /\ row'[x].seen \in Int
      BY <1>k, AuthAssumption DEF AuthAssumption, Later, Row, Time
    <2>2. row'[x].seen >= used'[x] - Later(Granularity, MaxCall)
      BY <1>k, <1>2, <1>3, <2>1
    <2> QED
      BY <1>k, <1>2, <1>3, <2>2 DEF UInv, UsedInv, InUseStaysAlive
  <1>5. ASSUME NEW d \in Caller, Late(call'[d]) PROVE Behind(call[d])'
    <2>1. d # c /\ call'[d] = call[d] /\ Late(call[d])
      BY <1>1, <1>5 DEF Late, Asking
    <2>2. call[d].sess # x /\ call[d].sess \in Session
      BY <2>1, <1>k DEF CInv, Knows, Late, Asking, Ended, Logging, TInv, KindsFit, Fits
    <2> QED
      BY <2>1, <2>2, <1>2 DEF UInv, Behind
  <1>6. ASSUME NEW s \in Session, row'[s].state = "revoked" PROVE Told(s)'
    <2>1. Heralded
      BY <1>k, <1>1 DEF Heralded
    <2>2. row[s].state = "revoked"
      BY <1>2, <1>6
    <2>3. Told(s) /\ announced' = announced /\ dropped' = dropped
      BY <1>k, <1>6, <2>2 DEF UInv
    <2> QED
      BY <2>1, <2>3, ToldStays
  <1>7. (\A d \in Caller : Late(call[d]) => Behind(call[d]))'
    BY <1>5 DEF Late
  <1> QED
    BY <1>4, <1>6, <1>7 DEF UInv

\* A call going on keeps what use has earned, and whom to tell.
LEMMA ProceedUsed ==
  ASSUME TInv, TInv', CInv, HInv, UInv, NEW c \in Caller, Proceed(c) PROVE UInv'
  <1> USE AuthAssumption DEF AuthAssumption
  <1>k. /\ call \in [Caller -> Call] /\ call[c] \in Call /\ Fits(call[c]) /\ Knows(call[c])
        /\ row \in [Session -> Row]
    BY DEF TInv, TypeOK, KindsFit, CInv
  <1>r. ASSUME UNCHANGED row PROVE Revealed
    BY <1>r DEF Revealed
  <1>1. ASSUME Authenticated(c) PROVE UInv'
    <2>1. /\ call[c].pc \in Logging /\ call[c].pc \notin Asking \cup {"touching", "announcing"}
          /\ UNCHANGED <<clock, row, announced, dropped, used>>
      BY <1>1 DEF Authenticated, historyVars, Logging, Asking
    <2>2. /\ \A d \in Caller : d # c => call'[d] = call[d]
          /\ call'[c].pc \in Logging
      BY <1>1, <1>k DEF Authenticated, Call, Logging
    <2>3. ~ Late(call'[c])
      BY <2>2 DEF Late, Logging, Asking
    <2> QED
      BY <2>1, <2>2, <2>3, OtherUsed
  <1>2. ASSUME LoginReturns(c) PROVE UInv'
    <2>1. /\ call[c].pc \in Logging /\ call[c].pc \notin Asking \cup {"touching", "announcing"}
          /\ UNCHANGED <<clock, row, announced, dropped, used>>
      BY <1>2 DEF LoginReturns, historyVars, Logging, Asking
    <2>2. /\ \A d \in Caller : d # c => call'[d] = call[d]
          /\ call'[c].pc \in Logging
      BY <1>2, <1>k DEF LoginReturns, Call, Logging
    <2>3. ~ Late(call'[c])
      BY <2>2 DEF Late, Logging, Asking
    <2> QED
      BY <2>1, <2>2, <2>3, OtherUsed
  <1>3. ASSUME Create(c) PROVE UInv'
    BY <1>3, CreateUsed
  <1>4. ASSUME Lookup(c) PROVE UInv'
    BY <1>4, LookupUsed
  <1>5. ASSUME Returns(c) PROVE UInv'
    BY <1>5, ReturnsUsed
  <1>6. ASSUME Slide(c) PROVE UInv'
    BY <1>6, SlideUsed
  <1>7. ASSUME LoginRefused(c) PROVE UInv'
    <2>1. PICK p \in {"refused"} : Moves(c, p)
      BY <1>7 DEF LoginRefused, Onward
    <2>2. p \in Pc /\ (p \in Asking \cup {"touching"} /\ call[c].kind = "request" => Late(call[c]))
      BY <1>7, <1>k DEF LoginRefused, Pc, Ended, Asking, Late, Says, Fits, Onward
    <2>3. /\ call[c].pc # "announcing" /\ UNCHANGED <<clock, row, announced, used>>
          /\ dropped \subseteq dropped'
      BY <1>7 DEF LoginRefused, Says, historyVars
    <2> QED
      BY <1>r, <2>1, <2>2, <2>3, MovedOn
  <1>8. ASSUME LookupDead(c) PROVE UInv'
    <2>1. PICK p \in {"gone", "refused"} : Moves(c, p)
      BY <1>8 DEF LookupDead, Onward
    <2>2. p \in Pc /\ (p \in Asking \cup {"touching"} /\ call[c].kind = "request" => Late(call[c]))
      BY <1>8, <1>k DEF LookupDead, Pc, Ended, Asking, Late, Says, Fits, Onward
    <2>3. /\ call[c].pc # "announcing" /\ UNCHANGED <<clock, row, announced, used>>
          /\ dropped \subseteq dropped'
      BY <1>8 DEF LookupDead, Says, historyVars
    <2> QED
      BY <1>r, <2>1, <2>2, <2>3, MovedOn
  <1>9. ASSUME StoreFails(c) PROVE UInv'
    <2>1. PICK p \in {"unknown", "refused"} : Moves(c, p)
      BY <1>9 DEF StoreFails, Onward
    <2>2. p \in Pc /\ (p \in Asking \cup {"touching"} /\ call[c].kind = "request" => Late(call[c]))
      BY <1>9, <1>k DEF StoreFails, Pc, Ended, Asking, Late, Says, Fits, Onward
    <2>3. /\ call[c].pc # "announcing" /\ UNCHANGED <<clock, row, announced, used>>
          /\ dropped \subseteq dropped'
      BY <1>9 DEF StoreFails, Says, historyVars
    <2> QED
      BY <1>r, <2>1, <2>2, <2>3, MovedOn
  <1>10. ASSUME LookupToken(c) PROVE UInv'
    <2>1. PICK p \in {"reading", "refused"} : Moves(c, p)
      BY <1>10 DEF LookupToken, Onward
    <2>2. p \in Pc /\ (p \in Asking \cup {"touching"} /\ call[c].kind = "request" => Late(call[c]))
      BY <1>10, <1>k DEF LookupToken, Pc, Ended, Asking, Late, Says, Fits, Onward
    <2>3. /\ call[c].pc # "announcing" /\ UNCHANGED <<clock, row, announced, used>>
          /\ dropped \subseteq dropped'
      BY <1>10 DEF LookupToken, Says, historyVars
    <2> QED
      BY <1>r, <2>1, <2>2, <2>3, MovedOn
  <1>11. ASSUME ReadNothing(c) PROVE UInv'
    <2>1. PICK p \in {"minting"} : Moves(c, p)
      BY <1>11 DEF ReadNothing, Onward
    <2>2. p \in Pc /\ (p \in Asking \cup {"touching"} /\ call[c].kind = "request" => Late(call[c]))
      BY <1>11, <1>k DEF ReadNothing, Pc, Ended, Asking, Late, Says, Fits, Onward
    <2>3. /\ call[c].pc # "announcing" /\ UNCHANGED <<clock, row, announced, used>>
          /\ dropped \subseteq dropped'
      BY <1>11 DEF ReadNothing, Says, historyVars
    <2> QED
      BY <1>r, <2>1, <2>2, <2>3, MovedOn
  <1>12. ASSUME Mint(c) PROVE UInv'
    <2>1. PICK p \in {"asking"} : Moves(c, p)
      BY <1>12 DEF Mint, Onward
    <2>2. p \in Pc /\ (p \in Asking \cup {"touching"} /\ call[c].kind = "request" => Late(call[c]))
      BY <1>12, <1>k DEF Mint, Pc, Ended, Asking, Late, Says, Fits, Onward
    <2>3. /\ call[c].pc # "announcing" /\ UNCHANGED <<clock, row, announced, used>>
          /\ dropped \subseteq dropped'
      BY <1>12 DEF Mint, Says, historyVars
    <2> QED
      BY <1>r, <2>1, <2>2, <2>3, MovedOn
  <1>13. ASSUME Join(c) PROVE UInv'
    <2>1. PICK p \in {"waiting"} : Moves(c, p)
      BY <1>13 DEF Join, Onward
    <2>2. p \in Pc /\ (p \in Asking \cup {"touching"} /\ call[c].kind = "request" => Late(call[c]))
      BY <1>13, <1>k DEF Join, Pc, Ended, Asking, Late, Says, Fits, Onward
    <2>3. /\ call[c].pc # "announcing" /\ UNCHANGED <<clock, row, announced, used>>
          /\ dropped \subseteq dropped'
      BY <1>13 DEF Join, Says, historyVars
    <2> QED
      BY <1>r, <2>1, <2>2, <2>3, MovedOn
  <1>14. ASSUME RevokeForBearer(c) PROVE UInv'
    <2>1. PICK p \in {"refused"} : Moves(c, p)
      BY <1>14 DEF RevokeForBearer, Onward
    <2>2. p \in Pc /\ (p \in Asking \cup {"touching"} /\ call[c].kind = "request" => Late(call[c]))
      BY <1>14, <1>k DEF RevokeForBearer, Pc, Ended, Asking, Late, Says, Fits, Onward
    <2>3. /\ call[c].pc # "announcing" /\ UNCHANGED <<clock, row, announced, used>>
          /\ dropped \subseteq dropped'
      BY <1>14 DEF RevokeForBearer, Says, historyVars
    <2> QED
      BY <1>r, <2>1, <2>2, <2>3, MovedOn
  <1>15. ASSUME RevokeFails(c) PROVE UInv'
    <2>1. PICK p \in {"unknown", "refused"} : Moves(c, p)
      BY <1>15 DEF RevokeFails, Onward
    <2>2. p \in Pc /\ (p \in Asking \cup {"touching"} /\ call[c].kind = "request" => Late(call[c]))
      BY <1>15, <1>k DEF RevokeFails, Pc, Ended, Asking, Late, Says, Fits, Onward
    <2>3. /\ call[c].pc # "announcing" /\ UNCHANGED <<clock, row, announced, used>>
          /\ dropped \subseteq dropped'
      BY <1>15 DEF RevokeFails, Says, historyVars
    <2> QED
      BY <1>r, <2>1, <2>2, <2>3, MovedOn
  <1>16. ASSUME RefreshFails(c) PROVE UInv'
    <2>1. PICK p \in {"touching", "serving", "served"} : Moves(c, p)
      BY <1>16 DEF RefreshFails, Onward
    <2>2. p \in Pc /\ (p \in Asking \cup {"touching"} /\ call[c].kind = "request" => Late(call[c]))
      BY <1>16, <1>k DEF RefreshFails, Pc, Ended, Asking, Late, Says, Fits, Onward
    <2>3. /\ call[c].pc # "announcing" /\ UNCHANGED <<clock, row, announced, used>>
          /\ dropped \subseteq dropped'
      BY <1>16 DEF RefreshFails, Says, historyVars
    <2> QED
      BY <1>r, <2>1, <2>2, <2>3, MovedOn
  <1>17. ASSUME FallBack(c) PROVE UInv'
    <2>1. PICK p \in {"touching", "serving", "served", "refused"} : Moves(c, p)
      BY <1>17 DEF FallBack, Onward
    <2>2. p \in Pc /\ (p \in Asking \cup {"touching"} /\ call[c].kind = "request" => Late(call[c]))
      BY <1>17, <1>k DEF FallBack, Pc, Ended, Asking, Late, Says, Fits, Onward
    <2>3. /\ call[c].pc # "announcing" /\ UNCHANGED <<clock, row, announced, used>>
          /\ dropped \subseteq dropped'
      BY <1>17 DEF FallBack, Says, historyVars
    <2> QED
      BY <1>r, <2>1, <2>2, <2>3, MovedOn
  <1>18. ASSUME SlideFails(c) PROVE UInv'
    <2>1. PICK p \in {"served"} : Moves(c, p)
      BY <1>18 DEF SlideFails, Onward
    <2>2. p \in Pc /\ (p \in Asking \cup {"touching"} /\ call[c].kind = "request" => Late(call[c]))
      BY <1>18, <1>k DEF SlideFails, Pc, Ended, Asking, Late, Says, Fits, Onward
    <2>3. /\ call[c].pc # "announcing" /\ UNCHANGED <<clock, row, announced, used>>
          /\ dropped \subseteq dropped'
      BY <1>18 DEF SlideFails, Says, historyVars
    <2> QED
      BY <1>r, <2>1, <2>2, <2>3, MovedOn
  <1>19. ASSUME Serve(c) PROVE UInv'
    <2>1. PICK p \in {"served"} : Moves(c, p)
      BY <1>19 DEF Serve, Onward
    <2>2. p \in Pc /\ (p \in Asking \cup {"touching"} /\ call[c].kind = "request" => Late(call[c]))
      BY <1>19, <1>k DEF Serve, Pc, Ended, Asking, Late, Says, Fits, Onward
    <2>3. /\ call[c].pc # "announcing" /\ UNCHANGED <<clock, row, announced, used>>
          /\ dropped \subseteq dropped'
      BY <1>19 DEF Serve, Says, historyVars
    <2> QED
      BY <1>r, <2>1, <2>2, <2>3, MovedOn
  <1>20. ASSUME ReadNewest(c) PROVE UInv'
    <2>1. PICK s \in SessionsOf(call[c].user) : ReadsFor(c, s)
      BY <1>20 DEF ReadNewest
    <2>2. /\ call[c].pc = "reading" /\ call[c].kind = "bearer"
          /\ UNCHANGED <<clock, row, announced, dropped, used>>
      BY <1>20, <1>k DEF ReadNewest, historyVars, Fits
    <2>3. /\ \A d \in Caller : d # c => call'[d] = call[d]
          /\ call'[c].kind = "bearer"
      BY <2>1, <2>2, <1>k DEF ReadsFor, Call
    <2> QED
      BY <2>2, <2>3, OtherUsed DEF Late
  <1>21. ASSUME Answer(c) PROVE UInv'
    <2>1. PICK a \in {Truth(call[c].user), Transient} :
            call' = [call EXCEPT ![c].pc = "answered", ![c].answer = a]
      BY <1>21 DEF Answer
    <2>2. call[c].pc = "asking" /\ UNCHANGED <<clock, row, announced, dropped, used>>
      BY <1>21 DEF Answer, historyVars
    <2>3. /\ \A d \in Caller : d # c => call'[d] = call[d]
          /\ call'[c].kind = call[c].kind /\ call'[c].sess = call[c].sess
          /\ call'[c].now = call[c].now /\ call'[c].seen = call[c].seen
      BY <2>1, <1>k DEF Call
    <2>4. Late(call'[c]) => Late(call[c])
      BY <2>2, <2>3 DEF Late, Asking
    <2> QED
      BY <2>2, <2>3, <2>4, OtherUsed
  <1>22. ASSUME RevokeClosed(c) PROVE UInv'
    <2>0. PICK x \in Session : x = call[c].sess
      BY <1>22, <1>k DEF RevokeClosed, Says, Fits, Ended
    <2>1. /\ call[c].pc = "minted" /\ call[c].kind = "request"
          /\ row[x].state # "none" /\ Moves(c, "announcing")
          /\ row' = [row EXCEPT ![x].state = "revoked"]
          /\ UNCHANGED <<clock, announced, dropped, used>>
      BY <1>22, <1>k, <2>0 DEF RevokeClosed, Says, Revoked, Knows, Ended, Logging, historyVars
    <2>2. Told(x)'
      <3>1. call'[c].pc = "announcing" /\ call'[c].sess = x
        BY <1>k, <2>0, <2>1 DEF Moves, Ended, Call
      <3> QED
        BY <3>1 DEF Told
    <2>3. Revealed
      BY <1>k, <2>1, <2>2 DEF Revealed, Row
    <2>4. "announcing" \in Pc /\ "announcing" \notin Asking \cup {"touching"}
      BY DEF Pc, Asking
    <2> QED
      BY <2>1, <2>3, <2>4, MovedOn
  <1>23. ASSUME RevokeForSocket(c) PROVE UInv'
    <2>0. PICK x \in Session : x = call[c].sess
      BY <1>23, <1>k DEF RevokeForSocket, Says, Fits, Ended
    <2>1. /\ call[c].pc = "minted"
          /\ row[x].state # "none" /\ Moves(c, "gone")
          /\ row' = [row EXCEPT ![x].state = "revoked"] /\ dropped' = dropped \cup {x}
          /\ UNCHANGED <<clock, announced, used>>
      BY <1>23, <1>k, <2>0 DEF RevokeForSocket, Says, Revoked, Knows, Ended, Logging, historyVars
    <2>2. Told(x)'
      BY <2>1 DEF Told
    <2>3. Revealed
      BY <1>k, <2>1, <2>2 DEF Revealed, Row
    <2>4. "gone" \in Pc /\ "gone" \notin Asking \cup {"touching"}
      BY DEF Pc, Ended, Asking
    <2> QED
      BY <2>1, <2>3, <2>4, MovedOn
  <1>24. ASSUME Refresh(c) PROVE UInv'
    <2>1. /\ call[c].sess \in Session /\ call[c].pc = "minted"
          /\ Moves(c, Onward(c))
          /\ row' = [row EXCEPT ![call[c].sess] = Confirmed(@, call[c].answer, call[c].now)]
          /\ UNCHANGED <<clock, announced, dropped, used>>
      BY <1>24, <1>k DEF Refresh, Call, historyVars
    <2>2. Revealed
      BY <1>k, <2>1 DEF Revealed, Confirmed, Row
    <2>3. Onward(c) \in {"touching", "serving", "served"}
      BY DEF Onward
    <2>4. Onward(c) \in Pc /\ (call[c].kind = "request" => Late(call[c]))
      BY <2>1, <2>3 DEF Pc, Ended, Late, Asking
    <2> QED
      BY <2>1, <2>2, <2>4, MovedOn
  <1>25. ASSUME LogOut(c) PROVE UInv'
    <2>0. PICK x \in Session : x = call[c].sess
      BY <1>25, <1>k DEF LogOut, Fits, Ended
    <2> DEFINE p == IF row[x].state = "live" THEN "announcing" ELSE "done"
    <2>1. /\ call[c].pc = "revoking" /\ call[c].kind = "logout"
          /\ row[x].state # "none" /\ Moves(c, p)
          /\ row' = [row EXCEPT ![x].state = "revoked"]
          /\ UNCHANGED <<clock, announced, dropped, used>>
      BY <1>25, <1>k, <2>0 DEF LogOut, Revoked, Fits, Knows, Ended, Logging
    <2>2. /\ \A s \in Session : row'[s].seen = row[s].seen
          /\ \A s \in Session \ {x} : row'[s].state = row[s].state
          /\ row'[x].state = "revoked" /\ row[x].state \in {"live", "revoked"}
      BY <1>k, <2>1 DEF Row, RowState
    <2>3. row[x].state = "live" => Told(x)'
      <3> SUFFICES ASSUME row[x].state = "live" PROVE Told(x)'
        OBVIOUS
      <3>1. call'[c].pc = "announcing" /\ call'[c].sess = x
        BY <1>k, <2>0, <2>1 DEF Moves, Ended, Call
      <3> QED
        BY <3>1 DEF Told
    <2>4. Revealed
      BY <2>1, <2>2, <2>3 DEF Revealed
    <2>5. p \in Pc /\ p \notin Asking \cup {"touching"}
      BY DEF Pc, Ended, Asking
    <2> HIDE DEF p
    <2> QED
      BY <2>1, <2>4, <2>5, MovedOn
  <1>26. ASSUME Announce(c) PROVE UInv'
    <2>1. PICK p \in {"done", "refused"} : Moves(c, p)
      BY <1>26 DEF Announce
    <2>2. /\ announced' = announced \cup {call[c].sess}
          /\ UNCHANGED <<clock, row, dropped, used>>
      BY <1>26 DEF Announce, historyVars
    <2>3. p \in Pc /\ p \notin Asking \cup {"touching"}
      BY DEF Pc, Ended, Asking
    <2> QED
      BY <1>r, <2>1, <2>2, <2>3, MovedOn
  <1> QED
    BY <1>1, <1>2, <1>3, <1>4, <1>5, <1>6, <1>7, <1>8, <1>9, <1>10, <1>11, <1>12, <1>13, <1>14, <1>15, <1>16, <1>17, <1>18, <1>19, <1>20, <1>21, <1>22, <1>23, <1>24, <1>25, <1>26 DEF Proceed

LEMMA StartUsed == ASSUME TInv, TInv', UInv, NEW c \in Caller, Start(c) PROVE UInv'
  <1>k. call \in [Caller -> Call]
    BY DEF TInv, TypeOK
  <1>1. /\ ~ Busy(c) /\ \A d \in Caller : d # c => call'[d] = call[d]
        /\ call'[c].pc \in {"looking", "authenticating"}
        /\ UNCHANGED <<clock, row, announced, dropped, used>>
    <2>1. ASSUME NEW kind \in Kinds, NEW s \in Session, Begin(c, kind, s)
          PROVE  <1>1!:
      BY <2>1, <1>k, NoCallTyped DEF Begin, Call, historyVars
    <2>2. ASSUME NEW u \in User, BeginBearer(c, u) PROVE <1>1!:
      BY <2>2, <1>k, NoCallTyped DEF BeginBearer, Call, historyVars
    <2>3. ASSUME NEW s \in Session, BeginLogin(c, s) PROVE <1>1!:
      BY <2>3, <1>k, NoCallTyped DEF BeginLogin, Call, historyVars
    <2> QED
      BY <2>1, <2>2, <2>3 DEF Start
  <1>2. call[c].pc # "announcing" /\ ~ Late(call'[c])
    BY <1>1 DEF Busy, Ended, Late, Asking
  <1> QED
    BY <1>1, <1>2, OtherUsed

LEMMA StepUsed == TInv /\ TInv' /\ CInv /\ HInv /\ UInv /\ [Next]_vars => UInv'
  <1> SUFFICES ASSUME TInv, TInv', CInv, HInv, UInv, [Next]_vars PROVE UInv'
    OBVIOUS
  <1>1. ASSUME UNCHANGED <<row, call, announced, dropped, used>>, clock <= clock' PROVE UInv'
    <2>1. Carried /\ Heralded /\ Revealed
      BY <1>1 DEF Carried, Heralded, Revealed
    <2> QED
      BY <1>1, <2>1, Unslid
  <1>2. clock \in Int /\ clock <= clock
    BY DEF TInv, TypeOK, Time
  <1>3. CASE UNCHANGED vars
    BY <1>1, <1>2, <1>3 DEF vars, historyVars
  <1>4. CASE Tick
    BY <1>1, <1>2, <1>4 DEF Tick, historyVars
  <1>5. ASSUME NEW u \in User, AccountChanges(u) \/ Withdraw(u) PROVE UInv'
    BY <1>1, <1>2, <1>5 DEF AccountChanges, Withdraw, historyVars
  <1> QED
    BY <1>3, <1>4, <1>5, StartUsed, ProceedUsed DEF Next

LEMMA InitUsed == Init => UInv
  <1> SUFFICES ASSUME Init PROVE UInv
    OBVIOUS
  <1>1. \A s \in Session : row[s].state = "none" /\ row[s].seen = 0 /\ used[s] = 0
    BY DEF Init, NoRow
  <1>2. \A c \in Caller : call[c].pc = "done"
    BY NoCallTyped DEF Init
  <1>3. Later(Granularity, MaxCall) \in Nat /\ clock = 0
    BY AuthAssumption DEF AuthAssumption, Later, Init
  <1>4. UsedInv /\ InUseStaysAlive
    BY <1>1, <1>3 DEF UsedInv, InUseStaysAlive
  <1>5. \A c \in Caller : ~ Late(call[c])
    BY <1>2 DEF Late, Asking
  <1> QED
    BY <1>1, <1>4, <1>5 DEF UInv

\* A session in use stays alive: requests that finish out of order cost it no more than the
\* larger of the lazy write's granularity and one call, however many there are.
THEOREM UseKeepsAlive == Spec => []InUseStaysAlive
  <1>1. Init => TInv /\ CInv /\ HInv /\ UInv
    BY InitTyped, InitCaused, InitHonest, InitUsed
  <1>2. TInv /\ CInv /\ HInv /\ UInv /\ [Next]_vars => TInv' /\ CInv' /\ HInv' /\ UInv'
    BY StepTyped, StepCaused, StepHonest, StepUsed
  <1>3. UInv => InUseStaysAlive
    BY DEF UInv
  <1> QED
    BY <1>1, <1>2, <1>3, PTL DEF Spec

\* Whoever revokes a session, its sockets are told: by the announcement, by the verdict of the
\* re-check that revoked it, or by a call that is about to announce it.
THEOREM RevocationsAreTold == Spec => []RevokedIsTold
  <1>1. Init => TInv /\ CInv /\ HInv /\ UInv
    BY InitTyped, InitCaused, InitHonest, InitUsed
  <1>2. TInv /\ CInv /\ HInv /\ UInv /\ [Next]_vars => TInv' /\ CInv' /\ HInv' /\ UInv'
    BY StepTyped, StepCaused, StepHonest, StepUsed
  <1>3. UInv => RevokedIsTold
    <2> SUFFICES ASSUME UInv, NEW s \in Session, row[s].state = "revoked"
                 PROVE  \/ s \in announced \cup dropped
                        \/ \E c \in Caller : call[c].pc = "announcing" /\ call[c].sess = s
      BY DEF RevokedIsTold
    <2>1. Told(s)
      BY DEF UInv
    <2> QED
      BY <2>1 DEF Told
  <1> QED
    BY <1>1, <1>2, <1>3, PTL DEF Spec
=============================================================================

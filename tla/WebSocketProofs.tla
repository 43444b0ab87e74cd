-------------------------- MODULE WebSocketProofs --------------------------
(***************************************************************************)
(* Proofs about the websocket: of WsHub, for any number of connections,    *)
(* sessions and tokens; and of WsFanout, for any messages, audiences and   *)
(* queue capacity besides.                                                 *)
(***************************************************************************)
EXTENDS WsFanout, FiniteSetTheorems, SequenceTheorems, TLAPS

----------------------------------------------------------------------------
(* The hub. *)

\* Where a connection's credential can no longer change.
Settled(c) == pc[c] \notin {"idle", "snapped"}

\* The epoch a handler snapshotted is older than any sweep of the session its
\* Authenticate found live afterwards.
EpochInv ==
  \A c \in Conn :
    /\ pc[c] # "idle" => epochAt[c] <= epoch
    /\ /\ pc[c] = "authed"
       /\ cred[c].session # None
       /\ row[cred[c].session] = "announced"
       => epochAt[c] < epoch

\* Every verdict on the way to closing a socket was taken on a credential that no
\* longer resolves, and is still about that connection's credential.
VerdictInv ==
  \A c \in Conn :
    /\ \/ revoked[c] \/ c \in doomed
       \/ check[c] \in {"gone", "removed", "done"}
       \/ pumpPc[c] \in {"gone", "retired"}
       => ~Authorised(cred[c])
    /\ revoked[c] \/ c \in doomed \/ c \in clients \/ check[c] # "none" \/ pumpPc[c] # "none"
       => Settled(c)
    /\ pumpPc[c] \in {"ticking", "gone", "retired"} => cred[c] \in PumpKey

\* Who holds which handle, and that a handle is never reused.
HandleInv ==
  /\ \A p \in Conn : IsFiniteSet(Holders(p))
  /\ \A c \in Conn :
       /\ handle[c] # None => /\ pc[c] = "open" /\ cred[c] \in PumpKey
                              /\ cred[handle[c]] = cred[c] /\ pumpPc[handle[c]] # "none"
       /\ pumpPc[c] = "none" => refs[c] = 0
       /\ pc[c] \notin {"open", "released", "removed", "closed"} => pumpPc[c] = "none"

IInv == TypeOK /\ IndexAgrees /\ EpochInv /\ SweptIsCovered /\ VerdictInv /\ HandleInv
        /\ PumpRefs /\ OpenIsWatched

----------------------------------------------------------------------------
\* The initial state satisfies every invariant.
LEMMA InitIInv == Init => IInv
<1> SUFFICES ASSUME Init PROVE IInv
  OBVIOUS
<1> USE NoneAssumption, BypassAssumption, EndingAssumption DEF Init
<1>1. TypeOK
  BY DEF TypeOK, PcType, CheckType, UpgradeType, Anonymous, Credential, PumpKey
<1>2. IndexAgrees
  BY DEF IndexAgrees
<1>3. EpochInv /\ SweptIsCovered
  BY DEF EpochInv, SweptIsCovered
<1>4. VerdictInv
  BY DEF VerdictInv, Settled
<1>5. \A p \in Conn : Holders(p) = {}
  BY DEF Holders
<1>6. HandleInv
  BY <1>5, FS_EmptySet DEF HandleInv
<1>7. PumpRefs
  BY DEF PumpRefs
<1>8. OpenIsWatched
  BY DEF OpenIsWatched
<1> QED
  BY <1>1, <1>2, <1>3, <1>4, <1>6, <1>7, <1>8 DEF IInv

\* What each field may hold is preserved by every step.
LEMMA TypeStep == TypeOK /\ VerdictInv /\ [Next]_vars => TypeOK'
<1> SUFFICES ASSUME TypeOK, VerdictInv, [Next]_vars PROVE TypeOK'
  OBVIOUS
<1> USE NoneAssumption, UpgradeAssumption, BypassAssumption
    DEF TypeOK, PcType, CheckType, indexVars, connVars, stopVars, pumpVars, authVars
<1>1. ASSUME NEW c \in Conn, Begin(c) PROVE TypeOK'
  BY <1>1 DEF Begin
<1>2. ASSUME NEW c \in Conn, Authenticate(c) PROVE TypeOK'
  <2>1. \A u \in Upgrades : Resolved(u) \in UpgradeType
    BY DEF Resolved, Credential, UpgradeType
  <2>2. Credential(BypassActor, None, None) \in UpgradeType
    BY DEF Credential, UpgradeType
  <2> QED
    BY <1>2, <2>1, <2>2 DEF Authenticate
<1>3. ASSUME NEW c \in Conn, Refuse(c) PROVE TypeOK'
  BY <1>3 DEF Refuse
<1>4. ASSUME NEW c \in Conn, Register(c) PROVE TypeOK'
  BY <1>4 DEF Register, Index
<1>5. ASSUME NEW c \in Conn, CompareEpoch(c) PROVE TypeOK'
  BY <1>5 DEF CompareEpoch
<1>6. ASSUME NEW c \in Conn, JoinPump(c) PROVE TypeOK'
  BY <1>6 DEF JoinPump
<1>7. ASSUME NEW c \in Conn, ReleasePump(c) PROVE TypeOK'
  BY <1>7 DEF ReleasePump
<1>8. ASSUME NEW c \in Conn, Remove(c) PROVE TypeOK'
  BY <1>8 DEF Remove, Unindex
<1>9. ASSUME NEW c \in Conn, Close(c) PROVE TypeOK'
  BY <1>9 DEF Close
<1>10. ASSUME NEW c \in Conn, ClientGone(c) PROVE TypeOK'
  BY <1>10 DEF ClientGone
<1>11. ASSUME NEW c \in Conn, CheckAnswers(c) PROVE TypeOK'
  BY <1>11 DEF CheckAnswers
<1>12. ASSUME NEW c \in Conn, CheckRemoves(c) PROVE TypeOK'
  BY <1>12 DEF CheckRemoves, Unindex
<1>13. ASSUME NEW c \in Conn, CheckRevokes(c) PROVE TypeOK'
  BY <1>13 DEF CheckRevokes, Revoke
<1>14. ASSUME NEW p \in Conn, TickGone(p) PROVE TypeOK'
  BY <1>14 DEF TickGone
<1>15. ASSUME NEW p \in Conn, RetirePump(p) PROVE TypeOK'
  BY <1>15 DEF RetirePump
<1>16. ASSUME NEW p \in Conn, SweepPump(p) PROVE TypeOK'
  <2>1. cred[p].session \in Session
    BY <1>16, NoneAssumption DEF SweepPump, VerdictInv, PumpKey, UpgradeType
  <2>2. PumpTargets(p) \subseteq Conn
    BY <2>1 DEF PumpTargets
  <2> QED
    BY <1>16, <2>2 DEF SweepPump, Unindex
<1>17. ASSUME NEW c \in Conn, RevokeDoomed(c) PROVE TypeOK'
  BY <1>17 DEF RevokeDoomed, Revoke
<1>18. ASSUME NEW s \in Session, RevokeRow(s) PROVE TypeOK'
  BY <1>18 DEF RevokeRow
<1>19. ASSUME NEW s \in Session, SweepSession(s) PROVE TypeOK'
  BY <1>19 DEF SweepSession, Unindex
<1>20. ASSUME NEW t \in Token, ExpireToken(t) PROVE TypeOK'
  BY <1>20 DEF ExpireToken
<1>21. CASE UNCHANGED vars
  BY <1>21 DEF vars
<1> QED
  BY <1>1, <1>2, <1>3, <1>4, <1>5, <1>6, <1>7, <1>8, <1>9, <1>10, <1>11, <1>12, <1>13,
     <1>14, <1>15, <1>16, <1>17, <1>18, <1>19, <1>20, <1>21
  DEF Next, Handler, Recheck, Pump, Auth

\* Steps that move no handler, change no credential and touch no index.
LEMMA QuietSteps ==
  ASSUME [Next]_vars
  PROVE  \/ \E c \in Conn : \/ Handler(c) \/ CheckRemoves(c) \/ SweepPump(c)
         \/ \E s \in Session : SweepSession(s)
         \/ UNCHANGED <<clients, byUser, bySession, epoch, pc, cred, epochAt>>
<1> USE DEF indexVars, connVars, stopVars, pumpVars, authVars
<1>1. ASSUME NEW c \in Conn, ClientGone(c)
      PROVE UNCHANGED <<clients, byUser, bySession, epoch, pc, cred, epochAt>>
  BY <1>1 DEF ClientGone
<1>2. ASSUME NEW c \in Conn, CheckAnswers(c) \/ CheckRevokes(c)
      PROVE UNCHANGED <<clients, byUser, bySession, epoch, pc, cred, epochAt>>
  BY <1>2 DEF CheckAnswers, CheckRevokes
<1>3. ASSUME NEW c \in Conn, TickGone(c) \/ RetirePump(c) \/ RevokeDoomed(c)
      PROVE UNCHANGED <<clients, byUser, bySession, epoch, pc, cred, epochAt>>
  BY <1>3 DEF TickGone, RetirePump, RevokeDoomed
<1>4. ASSUME NEW s \in Session, RevokeRow(s)
      PROVE UNCHANGED <<clients, byUser, bySession, epoch, pc, cred, epochAt>>
  BY <1>4 DEF RevokeRow
<1>5. ASSUME NEW t \in Token, ExpireToken(t)
      PROVE UNCHANGED <<clients, byUser, bySession, epoch, pc, cred, epochAt>>
  BY <1>5 DEF ExpireToken
<1>6. UNCHANGED vars => UNCHANGED <<clients, byUser, bySession, epoch, pc, cred, epochAt>>
  BY DEF vars
<1> QED
  BY <1>1, <1>2, <1>3, <1>4, <1>5, <1>6 DEF Next, Recheck, Pump, Auth

\* The three maps go on filing the same sockets, of handlers that will remove them.
LEMMA IndexStep == TypeOK /\ VerdictInv /\ IndexAgrees /\ [Next]_vars => IndexAgrees'
<1> SUFFICES ASSUME TypeOK, VerdictInv, IndexAgrees, [Next]_vars PROVE IndexAgrees'
  OBVIOUS
<1> USE NoneAssumption DEF TypeOK, IndexAgrees, indexVars, connVars
<1>1. ASSUME NEW c \in Conn, Begin(c) \/ Refuse(c) \/ CompareEpoch(c) \/ JoinPump(c)
      PROVE IndexAgrees'
  BY <1>1 DEF Begin, Refuse, CompareEpoch, JoinPump, PcType
<1>2. ASSUME NEW c \in Conn, ReleasePump(c) \/ Close(c) PROVE IndexAgrees'
  BY <1>2 DEF ReleasePump, Close, PcType
<1>3. ASSUME NEW c \in Conn, Authenticate(c) PROVE IndexAgrees'
  <2>1. c \notin clients /\ \A d \in clients : d # c
    BY <1>3 DEF Authenticate
  <2>2. \A d \in clients : cred'[d] = cred[d] /\ pc'[d] = pc[d]
    BY <1>3, <2>1 DEF Authenticate
  <2> QED
    BY <1>3, <2>2 DEF Authenticate
<1>4. ASSUME NEW c \in Conn, Register(c) PROVE IndexAgrees'
  BY <1>4 DEF Register, Index, PcType
<1>5. ASSUME NEW c \in Conn, Remove(c) PROVE IndexAgrees'
  BY <1>5 DEF Remove, Unindex, PcType
<1>6. ASSUME NEW c \in Conn, CheckRemoves(c) PROVE IndexAgrees'
  BY <1>6 DEF CheckRemoves, Unindex
<1>7. ASSUME NEW p \in Conn, SweepPump(p) PROVE IndexAgrees'
  BY <1>7 DEF SweepPump, Unindex
<1>8. ASSUME NEW s \in Session, SweepSession(s) PROVE IndexAgrees'
  BY <1>8 DEF SweepSession, Unindex
<1>9. CASE UNCHANGED <<clients, byUser, bySession, epoch, pc, cred, epochAt>>
  BY <1>9
<1> QED
  BY <1>1, <1>2, <1>3, <1>4, <1>5, <1>6, <1>7, <1>8, <1>9, QuietSteps DEF Handler

\* A session's row never comes back to life, nor a token that stopped resolving.
LEMMA RowStep ==
  ASSUME TypeOK, [Next]_vars
  PROVE  /\ \A s \in Session : /\ row[s] # "live" => row'[s] # "live"
                               /\ \/ row'[s] = row[s]
                                  \/ row[s] = "live" /\ row'[s] = "revoked"
                                  \/ row[s] = "revoked" /\ row'[s] = "announced" /\ SweepSession(s)
         /\ dead \subseteq dead'
<1> USE DEF TypeOK, authVars
<1>1. ASSUME NEW c \in Conn, Handler(c) PROVE UNCHANGED authVars
  BY <1>1 DEF Handler, Begin, Authenticate, Refuse, Register, CompareEpoch, JoinPump, ReleasePump,
              Remove, Close
<1>2. ASSUME NEW c \in Conn, ClientGone(c) \/ Recheck(c) \/ Pump(c) \/ RevokeDoomed(c)
      PROVE UNCHANGED authVars
  BY <1>2 DEF ClientGone, Recheck, CheckAnswers, CheckRemoves, CheckRevokes, Pump, TickGone,
              RetirePump, SweepPump, RevokeDoomed
<1>3. ASSUME NEW s \in Session, RevokeRow(s)
      PROVE row[s] = "live" /\ row' = [row EXCEPT ![s] = "revoked"] /\ dead' = dead
  BY <1>3 DEF RevokeRow
<1>4. ASSUME NEW s \in Session, SweepSession(s)
      PROVE row[s] = "revoked" /\ row' = [row EXCEPT ![s] = "announced"] /\ dead' = dead
  BY <1>4 DEF SweepSession
<1>5. ASSUME NEW t \in Token, ExpireToken(t) PROVE row' = row /\ dead \subseteq dead'
  BY <1>5 DEF ExpireToken
<1>6. UNCHANGED vars => UNCHANGED authVars
  BY DEF vars
<1> QED
  BY <1>1, <1>2, <1>3, <1>4, <1>5, <1>6 DEF Next, Auth

\* A handler whose session is swept after its Authenticate holds an older epoch.
LEMMA EpochStep == TypeOK /\ EpochInv /\ [Next]_vars => EpochInv'
<1> SUFFICES ASSUME TypeOK, EpochInv, [Next]_vars PROVE EpochInv'
  OBVIOUS
<1> USE NoneAssumption DEF TypeOK, EpochInv, connVars
<1>1. ASSUME NEW c \in Conn, Begin(c) PROVE EpochInv'
  BY <1>1 DEF Begin, authVars
<1>2. ASSUME NEW c \in Conn, Authenticate(c) PROVE EpochInv'
  <2>1. cred'[c].session # None => row[cred'[c].session] = "live"
    BY <1>2, UpgradeAssumption DEF Authenticate, Authorised, Resolved, Credential
  <2>2. epochAt[c] <= epoch
    BY <1>2 DEF Authenticate
  <2>3. \A d \in Conn : d # c => cred'[d] = cred[d] /\ pc'[d] = pc[d]
    BY <1>2 DEF Authenticate
  <2> QED
    BY <1>2, <2>1, <2>2, <2>3 DEF Authenticate, authVars
<1>3. ASSUME NEW c \in Conn, Refuse(c) \/ Register(c) \/ CompareEpoch(c) \/ JoinPump(c)
      PROVE EpochInv'
  BY <1>3 DEF Refuse, Register, CompareEpoch, JoinPump, PcType, authVars
<1>4. ASSUME NEW c \in Conn, ReleasePump(c) \/ Remove(c) \/ Close(c) PROVE EpochInv'
  BY <1>4 DEF ReleasePump, Remove, Close, PcType, authVars
<1>5. ASSUME NEW c \in Conn, CheckRemoves(c) PROVE EpochInv'
  BY <1>5 DEF CheckRemoves, authVars
<1>6. ASSUME NEW p \in Conn, SweepPump(p) PROVE EpochInv'
  BY <1>6 DEF SweepPump, authVars
<1>7. ASSUME NEW s \in Session, SweepSession(s) PROVE EpochInv'
  BY <1>7 DEF SweepSession
<1>8. CASE UNCHANGED <<clients, byUser, bySession, epoch, pc, cred, epochAt>>
           /\ ~\E s \in Session : SweepSession(s)
  <2>1. \A s \in Session : row'[s] = "announced" => row[s] = "announced"
    BY <1>8, RowStep
  <2>2. \A c \in Conn : cred[c].session # None => cred[c].session \in Session
    BY DEF UpgradeType
  <2> QED
    BY <1>8, <2>1, <2>2
<1> QED
  BY <1>1, <1>2, <1>3, <1>4, <1>5, <1>6, <1>7, <1>8, QuietSteps DEF Handler

\* A swept session's sockets stay covered by the re-check the epoch forces.
LEMMA SweptStep ==
  TypeOK /\ IndexAgrees /\ EpochInv /\ SweptIsCovered /\ [Next]_vars => SweptIsCovered'
<1> SUFFICES ASSUME TypeOK, IndexAgrees, EpochInv, SweptIsCovered, [Next]_vars,
                    NEW c \in clients',
                    cred'[c].session # None, cred'[c].token # None,
                    row'[cred'[c].session] = "announced"
             PROVE  \/ pc'[c] = "registered" /\ epochAt'[c] # epoch'
                    \/ check'[c] \in {"pending", "gone", "unknown"}
  BY DEF SweptIsCovered
<1> USE NoneAssumption DEF TypeOK, connVars, indexVars, authVars
<1> DEFINE Covered == \/ pc'[c] = "registered" /\ epochAt'[c] # epoch'
                     \/ check'[c] \in {"pending", "gone", "unknown"}
<1>1. ASSUME NEW d \in Conn, Begin(d) \/ Refuse(d) PROVE Covered
  BY <1>1 DEF Begin, Refuse, IndexAgrees, SweptIsCovered
<1>2. ASSUME NEW d \in Conn, Authenticate(d) PROVE Covered
  BY <1>2 DEF Authenticate, IndexAgrees, SweptIsCovered
<1>3. ASSUME NEW d \in Conn, Register(d) PROVE Covered
  BY <1>3 DEF Register, Index, EpochInv, SweptIsCovered
<1>4. ASSUME NEW d \in Conn, CompareEpoch(d) PROVE Covered
  BY <1>4 DEF CompareEpoch, SweptIsCovered
<1>5. ASSUME NEW d \in Conn, JoinPump(d) \/ ReleasePump(d) PROVE Covered
  BY <1>5 DEF JoinPump, ReleasePump, SweptIsCovered
<1>6. ASSUME NEW d \in Conn, Remove(d) \/ CheckRemoves(d) PROVE Covered
  BY <1>6 DEF Remove, CheckRemoves, Unindex, SweptIsCovered
<1>7. ASSUME NEW d \in Conn, Close(d) PROVE Covered
  BY <1>7 DEF Close, SweptIsCovered
<1>8. ASSUME NEW d \in Conn, ClientGone(d) \/ RevokeDoomed(d) PROVE Covered
  BY <1>8 DEF ClientGone, RevokeDoomed, SweptIsCovered
<1>9. ASSUME NEW d \in Conn, CheckAnswers(d) PROVE Covered
  BY <1>9 DEF CheckAnswers, Authorised, SweptIsCovered
<1>10. ASSUME NEW d \in Conn, CheckRevokes(d) PROVE Covered
  BY <1>10 DEF CheckRevokes, SweptIsCovered
<1>11. ASSUME NEW p \in Conn, TickGone(p) \/ RetirePump(p) PROVE Covered
  BY <1>11 DEF TickGone, RetirePump, SweptIsCovered
<1>12. ASSUME NEW p \in Conn, SweepPump(p) PROVE Covered
  BY <1>12 DEF SweepPump, Unindex, EpochInv, IndexAgrees, SweptIsCovered
<1>13. ASSUME NEW s \in Session, SweepSession(s) PROVE Covered
  <2>1. c \in clients /\ cred[c].session # s
    BY <1>13 DEF SweepSession, Unindex, IndexAgrees
  <2> QED
    BY <1>13, <2>1 DEF SweepSession, EpochInv, IndexAgrees, SweptIsCovered
<1>14. ASSUME NEW s \in Session, RevokeRow(s) PROVE Covered
  BY <1>14 DEF RevokeRow, SweptIsCovered
<1>15. ASSUME NEW t \in Token, ExpireToken(t) PROVE Covered
  BY <1>15 DEF ExpireToken, SweptIsCovered
<1>16. CASE UNCHANGED vars
  BY <1>16 DEF vars, SweptIsCovered
<1> QED
  BY <1>1, <1>2, <1>3, <1>4, <1>5, <1>6, <1>7, <1>8, <1>9, <1>10, <1>11, <1>12, <1>13, <1>14,
     <1>15, <1>16 DEF Next, Handler, Recheck, Pump, Auth

\* Once Authenticate has run, a connection's credential is fixed.
LEMMA CredentialStep ==
  ASSUME TypeOK, [Next]_vars, NEW c \in Conn, Settled(c)
  PROVE  cred'[c] = cred[c] /\ Settled(c)'
<1> USE DEF Settled, TypeOK, connVars
<1>1. ASSUME NEW d \in Conn, Handler(d) PROVE cred'[c] = cred[c] /\ Settled(c)'
  <2>1. CASE Begin(d) \/ Authenticate(d) \/ Refuse(d) \/ Register(d) \/ CompareEpoch(d)
    BY <2>1 DEF Begin, Authenticate, Refuse, Register, CompareEpoch
  <2>2. CASE JoinPump(d) \/ ReleasePump(d) \/ Remove(d) \/ Close(d)
    BY <2>2 DEF JoinPump, ReleasePump, Remove, Close
  <2> QED
    BY <1>1, <2>1, <2>2 DEF Handler
<1>2. ASSUME NEW d \in Conn, CheckRemoves(d) \/ SweepPump(d)
      PROVE cred'[c] = cred[c] /\ Settled(c)'
  BY <1>2 DEF CheckRemoves, SweepPump
<1>3. ASSUME NEW s \in Session, SweepSession(s) PROVE cred'[c] = cred[c] /\ Settled(c)'
  BY <1>3 DEF SweepSession
<1>4. CASE UNCHANGED <<clients, byUser, bySession, epoch, pc, cred, epochAt>>
  BY <1>4
<1> QED
  BY <1>1, <1>2, <1>3, <1>4, QuietSteps

\* A verdict that closes a socket was taken on a credential that does not resolve,
\* and a credential that stopped resolving never resolves again.
LEMMA VerdictStep == TypeOK /\ IndexAgrees /\ VerdictInv /\ [Next]_vars => VerdictInv'
<1> SUFFICES ASSUME TypeOK, IndexAgrees, VerdictInv, [Next]_vars PROVE VerdictInv'
  OBVIOUS
<1> DEFINE Closing(c) == \/ revoked[c] \/ c \in doomed
                         \/ check[c] \in {"gone", "removed", "done"}
                         \/ pumpPc[c] \in {"gone", "retired"}
           Bound(c) == \/ revoked[c] \/ c \in doomed \/ c \in clients
                       \/ check[c] # "none" \/ pumpPc[c] # "none"
           Keyed(c) == pumpPc[c] \in {"ticking", "gone", "retired"}
           Grows(c) == /\ Closing(c)' => Closing(c) \/ (Settled(c) /\ ~Authorised(cred[c])')
                       /\ Bound(c)' => Bound(c) \/ Settled(c)'
                       /\ Keyed(c)' => Keyed(c) \/ (Settled(c) /\ cred[c] \in PumpKey)
<1>1. ASSUME NEW c \in Conn PROVE Grows(c)
  <2> USE NoneAssumption DEF TypeOK, connVars, indexVars, stopVars, pumpVars, Settled
  <2>1. ASSUME NEW d \in Conn, Begin(d) \/ Authenticate(d) \/ Refuse(d) \/ Register(d)
        PROVE Grows(c)
    BY <2>1 DEF Begin, Authenticate, Refuse, Register, Index
  <2>2. ASSUME NEW d \in Conn, CompareEpoch(d) PROVE Grows(c)
    BY <2>2 DEF CompareEpoch
  <2>3. ASSUME NEW d \in Conn, JoinPump(d) PROVE Grows(c)
    BY <2>3 DEF JoinPump
  <2>4. ASSUME NEW d \in Conn, ReleasePump(d) PROVE Grows(c)
    BY <2>4 DEF ReleasePump
  <2>5. ASSUME NEW d \in Conn, Remove(d) \/ Close(d) \/ ClientGone(d) PROVE Grows(c)
    BY <2>5 DEF Remove, Close, ClientGone, Unindex
  <2>6. ASSUME NEW d \in Conn, CheckAnswers(d) PROVE Grows(c)
    <3>1. check'[c] = check[c] \/ (c = d /\ check[c] = "pending")
      BY <2>6 DEF CheckAnswers
    <3>2. c = d /\ check'[c] = "gone" => ~Authorised(cred[c])'
      BY <2>6 DEF CheckAnswers, Authorised, authVars
    <3> QED
      BY <2>6, <3>1, <3>2 DEF CheckAnswers, VerdictInv
  <2>7. ASSUME NEW d \in Conn, CheckRemoves(d) \/ CheckRevokes(d) \/ RevokeDoomed(d)
        PROVE Grows(c)
    BY <2>7 DEF CheckRemoves, CheckRevokes, RevokeDoomed, Unindex, Revoke
  <2>8. ASSUME NEW p \in Conn, TickGone(p) PROVE Grows(c)
    BY <2>8 DEF TickGone, Authorised, authVars, VerdictInv
  <2>9. ASSUME NEW p \in Conn, RetirePump(p) PROVE Grows(c)
    BY <2>9 DEF RetirePump
  <2>10. ASSUME NEW p \in Conn, SweepPump(p) PROVE Grows(c)
    <3>1. ~Authorised(cred[p]) /\ cred[p] \in PumpKey
      BY <2>10 DEF SweepPump, VerdictInv
    <3>2. cred[p].session \in Session
      BY <3>1 DEF PumpKey, UpgradeType
    <3>3. c \in PumpTargets(p) => c \in clients /\ cred[c].session = cred[p].session
                                                /\ cred[c].token = cred[p].token
      BY <3>2 DEF PumpTargets, IndexAgrees
    <3>4. c \in PumpTargets(p) => ~Authorised(cred[c])'
      BY <2>10, <3>1, <3>3 DEF SweepPump, Authorised, authVars
    <3> QED
      BY <2>10, <3>3, <3>4 DEF SweepPump, Unindex, VerdictInv
  <2>11. ASSUME NEW s \in Session, SweepSession(s) PROVE Grows(c)
    <3>1. c \in bySession[s] => c \in clients /\ cred[c].session = s
      BY DEF IndexAgrees
    <3>2. c \in bySession[s] => ~Authorised(cred[c])'
      BY <2>11, <3>1 DEF SweepSession, Authorised
    <3> QED
      BY <2>11, <3>1, <3>2 DEF SweepSession, Unindex, VerdictInv
  <2>12. ASSUME NEW s \in Session, RevokeRow(s) PROVE Grows(c)
    BY <2>12 DEF RevokeRow
  <2>13. ASSUME NEW t \in Token, ExpireToken(t) PROVE Grows(c)
    BY <2>13 DEF ExpireToken
  <2>14. CASE UNCHANGED vars
    BY <2>14 DEF vars
  <2> QED
    BY <2>1, <2>2, <2>3, <2>4, <2>5, <2>6, <2>7, <2>8, <2>9, <2>10, <2>11, <2>12, <2>13, <2>14
    DEF Next, Handler, Recheck, Pump, Auth
<1>2. ASSUME NEW c \in Conn, Settled(c), ~Authorised(cred[c]) PROVE (~Authorised(cred[c]))'
  BY <1>2, RowStep, CredentialStep DEF Authorised, TypeOK, UpgradeType
<1>3. \A c \in Conn : Settled(c) => cred'[c] = cred[c] /\ Settled(c)'
  BY CredentialStep
<1> QED
  BY <1>1, <1>2, <1>3 DEF VerdictInv

----------------------------------------------------------------------------
(* The pumps. *)

\* Where no handler, pump or credential the pump invariants speak of moves.
PumpQuiet == /\ UNCHANGED pumpVars
             /\ \A c \in Conn : /\ Settled(c) => cred'[c] = cred[c] /\ Settled(c)'
                                /\ pc'[c] = "open" <=> pc[c] = "open"
                                /\ (pc'[c] \in {"open", "released", "removed", "closed"})
                                     <=> (pc[c] \in {"open", "released", "removed", "closed"})

\* Only four kinds of step touch a pump.
LEMMA PumpSteps ==
  ASSUME TypeOK, [Next]_vars
  PROVE  \/ \E c \in Conn : JoinPump(c) \/ ReleasePump(c) \/ Pump(c)
         \/ PumpQuiet
<1> USE DEF TypeOK, PumpQuiet, connVars, pumpVars, PcType
<1>1. ASSUME NEW c \in Conn, \/ Begin(c) \/ Authenticate(c) \/ Refuse(c) \/ Register(c)
                             \/ CompareEpoch(c) \/ Remove(c) \/ Close(c)
      PROVE PumpQuiet
  <2>1. UNCHANGED pumpVars
    BY <1>1 DEF Begin, Authenticate, Refuse, Register, CompareEpoch, Remove, Close
  <2>2. \E v \in PcType : pc' = [pc EXCEPT ![c] = v] /\ (v = "open" <=> pc[c] = "open")
          /\ (v \in {"open", "released", "removed", "closed"}
                <=> pc[c] \in {"open", "released", "removed", "closed"})
    BY <1>1 DEF Begin, Authenticate, Refuse, Register, CompareEpoch, Remove, Close
  <2>3. \A d \in Conn : Settled(d) => cred'[d] = cred[d] /\ Settled(d)'
    BY CredentialStep DEF TypeOK
  <2> QED
    BY <2>1, <2>2, <2>3
<1>2. ASSUME NEW c \in Conn, \/ ClientGone(c) \/ CheckAnswers(c) \/ CheckRemoves(c)
                             \/ CheckRevokes(c) \/ RevokeDoomed(c)
      PROVE PumpQuiet
  BY <1>2 DEF ClientGone, CheckAnswers, CheckRemoves, CheckRevokes, RevokeDoomed, Settled
<1>3. CASE Auth
  BY <1>3 DEF Auth, RevokeRow, SweepSession, ExpireToken, Settled
<1>4. CASE UNCHANGED vars
  BY <1>4 DEF vars, Settled
<1> QED
  BY <1>1, <1>2, <1>3, <1>4 DEF Next, Handler, Recheck

\* A finite set stays finite when one element comes or goes.
LEMMA OneMoreOrLess ==
  \A S, T, x : /\ IsFiniteSet(S)
               /\ T = S \/ T = S \cup {x} \/ T = S \ {x}
               => IsFiniteSet(T)
<1> SUFFICES ASSUME NEW S, NEW T, NEW x, IsFiniteSet(S),
                    T = S \/ T = S \cup {x} \/ T = S \ {x}
             PROVE  IsFiniteSet(T)
  OBVIOUS
<1> QED
  BY FS_AddElement, FS_RemoveElement

\* A join adds the connection to the holders of one pump, which it did not hold.
LEMMA JoinHolders ==
  ASSUME TypeOK, HandleInv, NEW c \in Conn, JoinPump(c), cred[c] \in PumpKey,
         NEW p \in Conn, p = (IF pumps[cred[c]] = None THEN c ELSE pumps[cred[c]])
  PROVE  /\ c \notin Holders(p) /\ Holders(p)' = Holders(p) \cup {c}
         /\ \A q \in Conn \ {p} : Holders(q)' = Holders(q)
<1>1. handle[c] = None
  BY DEF HandleInv, JoinPump, TypeOK
<1>2. \A d \in Conn : handle'[d] = IF d = c THEN p ELSE handle[d]
  BY DEF JoinPump, TypeOK, pumpVars
<1>3. c \notin Holders(p)
  BY <1>1, NoneAssumption DEF Holders
<1>4. Holders(p)' = Holders(p) \cup {c}
  BY <1>2 DEF Holders
<1>5. ASSUME NEW q \in Conn \ {p} PROVE Holders(q)' = Holders(q)
  BY <1>1, <1>2, NoneAssumption DEF Holders
<1> QED
  BY <1>3, <1>4, <1>5

\* A release takes the connection off the holders of the pump it held.
LEMMA ReleaseHolders ==
  ASSUME TypeOK, NEW c \in Conn, ReleasePump(c), NEW p \in Conn, p = handle[c]
  PROVE  /\ c \in Holders(p) /\ Holders(p)' = Holders(p) \ {c}
         /\ \A q \in Conn \ {p} : Holders(q)' = Holders(q)
<1>1. \A d \in Conn : handle'[d] = IF d = c THEN None ELSE handle[d]
  BY DEF ReleasePump, TypeOK
<1>2. Holders(p)' = Holders(p) \ {c}
  BY <1>1, NoneAssumption DEF Holders
<1>3. ASSUME NEW q \in Conn \ {p} PROVE Holders(q)' = Holders(q)
  BY <1>1, NoneAssumption DEF Holders
<1> QED
  BY <1>2, <1>3 DEF Holders

\* Handles stay with open connections, and name the pump of their own credential.
LEMMA HandleStep ==
  TypeOK /\ VerdictInv /\ HandleInv /\ PumpRefs /\ [Next]_vars => HandleInv'
<1> SUFFICES ASSUME TypeOK, VerdictInv, HandleInv, PumpRefs, [Next]_vars PROVE HandleInv'
  OBVIOUS
<1> USE NoneAssumption DEF TypeOK, connVars, pumpVars
<1>1. ASSUME NEW c \in Conn, JoinPump(c), cred[c] \in PumpKey PROVE HandleInv'
  <2> PICK p \in Conn : p = (IF pumps[cred[c]] = None THEN c ELSE pumps[cred[c]])
    BY <1>1
  <2>1. \A q \in Conn : Holders(q)' = Holders(q) \/ Holders(q)' = Holders(q) \cup {c}
    BY <1>1, JoinHolders
  <2>2. \A q \in Conn : IsFiniteSet(Holders(q))'
    <3> SUFFICES ASSUME NEW q \in Conn PROVE IsFiniteSet(Holders(q)')
      BY DEF Holders
    <3>1. IsFiniteSet(Holders(q))
      BY DEF HandleInv
    <3> QED
      BY <2>1, <3>1, OneMoreOrLess, Zenon
  <2>3. cred[p] = cred[c] /\ pumpPc'[p] # "none"
    BY <1>1 DEF JoinPump, PumpRefs
  <2>4. \A d \in Conn : pumpPc'[d] = "none" => refs'[d] = refs[d] /\ pumpPc[d] = "none"
    BY <1>1, <2>1, <2>3 DEF JoinPump
  <2>5. \A d \in Conn : pc'[d] = (IF d = c THEN "open" ELSE pc[d]) /\ cred' = cred
                        /\ handle'[d] = (IF d = c THEN p ELSE handle[d])
    BY <1>1 DEF JoinPump
  <2>6. \A d \in Conn : d # c => (pumpPc'[d] = pumpPc[d] \/ pumpPc'[d] # "none")
                                 /\ (pumpPc[d] = "none" => pumpPc'[d] = "none")
    BY <1>1, <2>1 DEF JoinPump
  <2>7. \A d \in Conn : pumpPc[d] # "none" => pumpPc'[d] # "none"
    BY <1>1, <2>1 DEF JoinPump
  <2> QED
    BY <1>1, <2>1, <2>2, <2>3, <2>4, <2>5, <2>6, <2>7 DEF HandleInv
<1>2. ASSUME NEW c \in Conn, JoinPump(c), cred[c] \notin PumpKey PROVE HandleInv'
  BY <1>2 DEF JoinPump, HandleInv, Holders
<1>3. ASSUME NEW c \in Conn, ReleasePump(c) PROVE HandleInv'
  <2>1. \A q \in Conn : IsFiniteSet(Holders(q))'
    <3>1. CASE handle[c] = None
      BY <1>3, <3>1 DEF ReleasePump, HandleInv, Holders
    <3>2. CASE handle[c] # None
      <4> PICK p \in Conn : p = handle[c]
        BY <3>2
      <4>1. \A q \in Conn : Holders(q)' = Holders(q) \/ Holders(q)' = Holders(q) \ {c}
        BY <1>3, ReleaseHolders
      <4> SUFFICES ASSUME NEW q \in Conn PROVE IsFiniteSet(Holders(q)')
        BY DEF Holders
      <4>2. IsFiniteSet(Holders(q))
        BY DEF HandleInv
      <4> QED
        BY <4>1, <4>2, OneMoreOrLess, Zenon
    <3> QED
      BY <3>1, <3>2
  <2>2. \A d \in Conn : (pumpPc'[d] = "none" <=> pumpPc[d] = "none")
                        /\ (pumpPc[d] = "none" => refs'[d] = refs[d])
    BY <1>3 DEF ReleasePump, HandleInv
  <2>3. \A d \in Conn : /\ pc'[d] = (IF d = c THEN "released" ELSE pc[d]) /\ cred' = cred
                        /\ handle'[d] = (IF d = c THEN None ELSE handle[d])
    BY <1>3 DEF ReleasePump
  <2> QED
    BY <1>3, <2>1, <2>2, <2>3 DEF HandleInv, ReleasePump
<1>4. ASSUME NEW p \in Conn, Pump(p) PROVE HandleInv'
  BY <1>4 DEF Pump, TickGone, RetirePump, SweepPump, HandleInv, Holders
<1>5. CASE PumpQuiet
  BY <1>5 DEF PumpQuiet, HandleInv, Holders, Settled
<1> QED
  BY <1>1, <1>2, <1>3, <1>4, <1>5, PumpSteps

\* A registered pump is counted right and runs; a running pump is registered.
LEMMA PumpRefsStep ==
  TypeOK /\ VerdictInv /\ HandleInv /\ PumpRefs /\ [Next]_vars => PumpRefs'
<1> SUFFICES ASSUME TypeOK, VerdictInv, HandleInv, PumpRefs, [Next]_vars PROVE PumpRefs'
  OBVIOUS
<1> USE NoneAssumption DEF TypeOK, connVars, pumpVars
<1> DEFINE Kept(k, p) == /\ cred[p] = k /\ pumpPc[p] \in {"ticking", "gone"}
                         /\ Holders(p) # {} /\ refs[p] = Cardinality(Holders(p))
<1>1. ASSUME NEW c \in Conn, JoinPump(c), cred[c] \in PumpKey PROVE PumpRefs'
  <2> PICK p \in Conn : p = (IF pumps[cred[c]] = None THEN c ELSE pumps[cred[c]])
    BY <1>1
  <2>1. /\ c \notin Holders(p) /\ Holders(p)' = Holders(p) \cup {c}
        /\ \A q \in Conn \ {p} : Holders(q)' = Holders(q)
    BY <1>1, JoinHolders
  <2>2. IsFiniteSet(Holders(p))
    BY DEF HandleInv
  <2>3. refs[p] = Cardinality(Holders(p))
    <3>1. CASE pumps[cred[c]] = None
      <4>1. p = c /\ pumpPc[c] = "none" /\ refs[c] = 0
        BY <1>1, <3>1 DEF JoinPump, HandleInv
      <4>2. Holders(p) = {}
        BY <4>1 DEF Holders, HandleInv
      <4> QED
        BY <4>1, <4>2, FS_EmptySet
    <3>2. CASE pumps[cred[c]] # None
      BY <1>1, <3>2 DEF PumpRefs
    <3> QED
      BY <3>1, <3>2
  <2>4. refs'[p] = Cardinality(Holders(p)')
    <3>1. refs'[p] = refs[p] + 1
      BY <1>1 DEF JoinPump
    <3>2. Cardinality(Holders(p) \cup {c}) = Cardinality(Holders(p)) + 1
      BY <2>1, <2>2, FS_AddElement
    <3> QED
      BY <2>1, <2>3, <3>1, <3>2
  <2>5. /\ cred' = cred /\ pumps'[cred[c]] = p /\ cred[p] = cred[c]
        /\ pumpPc'[p] \in {"ticking", "gone"}
    BY <1>1 DEF JoinPump, PumpRefs
  <2>6. \A k \in PumpKey : k # cred[c] => pumps'[k] = pumps[k]
    BY <1>1 DEF JoinPump
  <2>7. \A q \in Conn : q # p => pumpPc'[q] = pumpPc[q] /\ refs'[q] = refs[q]
    BY <1>1 DEF JoinPump
  <2>8. ASSUME NEW k \in PumpKey, NEW q \in Conn, pumps'[k] = q PROVE Kept(k, q)'
    <3>1. CASE k = cred[c]
      <4>1. q = p
        BY <2>5, <2>8, <3>1
      <4> QED
        BY <2>1, <2>4, <2>5, <3>1, <4>1
    <3>2. CASE k # cred[c]
      <4>1. Kept(k, q)
        BY <2>6, <2>8, <3>2 DEF PumpRefs
      <4>2. q # p
        BY <2>5, <3>2, <4>1
      <4> QED
        BY <2>1, <2>5, <2>7, <4>1, <4>2
    <3> QED
      BY <3>1, <3>2
  <2>9. ASSUME NEW q \in Conn, pumpPc'[q] = "ticking"
        PROVE cred'[q] \in PumpKey /\ pumps'[cred'[q]] = q
    BY <1>1, <2>5, <2>6, <2>7, <2>9 DEF PumpRefs
  <2> QED
    BY <2>8, <2>9 DEF PumpRefs
<1>2. ASSUME NEW c \in Conn, JoinPump(c), cred[c] \notin PumpKey PROVE PumpRefs'
  <2>1. handle' = handle
    BY <1>2 DEF JoinPump
  <2>2. \A q \in Conn : Holders(q)' = Holders(q)
    BY <2>1 DEF Holders
  <2> QED
    BY <1>2, <2>2 DEF JoinPump, PumpRefs
<1>3. ASSUME NEW c \in Conn, ReleasePump(c), NEW p \in Conn, p = handle[c] PROVE PumpRefs'
  <2>1. /\ c \in Holders(p) /\ Holders(p)' = Holders(p) \ {c}
        /\ \A q \in Conn \ {p} : Holders(q)' = Holders(q)
    BY <1>3, ReleaseHolders
  <2>2. cred[p] = cred[c] /\ cred[c] \in PumpKey /\ cred' = cred
    BY <1>3 DEF ReleasePump, HandleInv
  <2>3. CASE pumps[cred[c]] # p
    <3>1. UNCHANGED <<pumps, refs, pumpPc>>
      BY <1>3, <2>3 DEF ReleasePump
    <3>2. \A k \in PumpKey : pumps[k] # p
      BY <2>2, <2>3 DEF PumpRefs
    <3> QED
      BY <2>1, <2>2, <3>1, <3>2 DEF PumpRefs
  <2>4. CASE pumps[cred[c]] = p
    <3>1. IsFiniteSet(Holders(p)) /\ refs[p] = Cardinality(Holders(p)) /\ refs'[p] = refs[p] - 1
      BY <1>3, <2>2, <2>4 DEF HandleInv, PumpRefs, ReleasePump
    <3>2. Cardinality(Holders(p) \ {c}) = Cardinality(Holders(p)) - 1
      BY <2>1, <3>1, FS_RemoveElement
    <3>3. \A q \in Conn : q # p => refs'[q] = refs[q] /\ pumpPc'[q] = pumpPc[q]
      BY <1>3, <2>4 DEF ReleasePump
    <3>4. \A k \in PumpKey : k # cred[c] => pumps'[k] = pumps[k]
      BY <1>3, <2>4 DEF ReleasePump
    <3>5. \A k \in PumpKey : pumps[k] = p => k = cred[c]
      BY <2>2 DEF PumpRefs
    <3>6. CASE refs[p] > 1
      <4>1. Holders(p)' # {} /\ refs'[p] = Cardinality(Holders(p)')
        <5>1. Cardinality(Holders(p) \ {c}) # 0
          BY <3>1, <3>2, <3>6
        <5> QED
          BY <2>1, <3>1, <3>2, <5>1, FS_EmptySet
      <4>2. UNCHANGED <<pumps, pumpPc>>
        BY <1>3, <2>4, <3>6 DEF ReleasePump
      <4>3. ASSUME NEW k \in PumpKey, NEW q \in Conn, pumps'[k] = q PROVE Kept(k, q)'
        <5>1. Kept(k, q)
          BY <4>2, <4>3 DEF PumpRefs
        <5> QED
          BY <2>1, <2>2, <3>3, <4>1, <4>2, <5>1
      <4> QED
        BY <2>2, <4>2, <4>3 DEF PumpRefs
    <3>7. CASE ~(refs[p] > 1)
      <4>1. pumps'[cred[c]] = None /\ pumpPc'[p] # "ticking"
        BY <1>3, <2>2, <2>4, <3>7 DEF ReleasePump
      <4>2. ASSUME NEW k \in PumpKey, NEW q \in Conn, pumps'[k] = q PROVE Kept(k, q)'
        <5>1. k # cred[c] /\ pumps[k] = q /\ q # p
          BY <3>4, <3>5, <4>1, <4>2
        <5>2. Kept(k, q)
          BY <5>1 DEF PumpRefs
        <5> QED
          BY <2>1, <2>2, <3>3, <5>1, <5>2
      <4>3. ASSUME NEW q \in Conn, pumpPc'[q] = "ticking"
            PROVE cred'[q] \in PumpKey /\ pumps'[cred'[q]] = q
        <5>1. q # p /\ pumpPc[q] = "ticking"
          BY <3>3, <4>1, <4>3
        <5>2. cred[q] \in PumpKey /\ pumps[cred[q]] = q
          BY <5>1 DEF PumpRefs
        <5> QED
          BY <2>2, <2>4, <3>4, <5>1, <5>2
      <4> QED
        BY <4>2, <4>3 DEF PumpRefs
    <3> QED
      BY <3>1, <3>6, <3>7
  <2> QED
    BY <2>3, <2>4
<1>4. ASSUME NEW c \in Conn, ReleasePump(c), handle[c] = None PROVE PumpRefs'
  <2>1. handle' = handle
    BY <1>4 DEF ReleasePump
  <2>2. \A q \in Conn : Holders(q)' = Holders(q)
    BY <2>1 DEF Holders
  <2> QED
    BY <1>4, <2>2 DEF ReleasePump, PumpRefs
<1>5. ASSUME NEW p \in Conn, TickGone(p) PROVE PumpRefs'
  <2>1. handle' = handle
    BY <1>5 DEF TickGone
  <2>2. \A q \in Conn : Holders(q)' = Holders(q)
    BY <2>1 DEF Holders
  <2> QED
    BY <1>5, <2>2 DEF TickGone, PumpRefs
<1>6. ASSUME NEW p \in Conn, RetirePump(p) PROVE PumpRefs'
  <2>1. \A k \in PumpKey, q \in Conn : pumps'[k] = q => pumps[k] = q /\ q # p
    BY <1>6 DEF RetirePump, PumpRefs
  <2>2. \A q \in Conn : /\ q # p => pumpPc'[q] = pumpPc[q]
                        /\ cred'[q] = cred[q] /\ refs'[q] = refs[q] /\ Holders(q)' = Holders(q)
    BY <1>6 DEF RetirePump, Holders
  <2>3. ASSUME NEW q \in Conn, pumpPc'[q] = "ticking"
        PROVE cred'[q] \in PumpKey /\ pumps'[cred'[q]] = q
    BY <1>6, <2>2, <2>3 DEF RetirePump, PumpRefs
  <2> QED
    BY <2>1, <2>2, <2>3 DEF PumpRefs
<1>7. ASSUME NEW p \in Conn, SweepPump(p) PROVE PumpRefs'
  <2>1. handle' = handle
    BY <1>7 DEF SweepPump
  <2>2. \A q \in Conn : Holders(q)' = Holders(q)
    BY <2>1 DEF Holders
  <2> QED
    BY <1>7, <2>2 DEF SweepPump, PumpRefs
<1>8. CASE PumpQuiet
  <2>1. \A k \in PumpKey, q \in Conn : pumps[k] = q => cred'[q] = cred[q]
    BY <1>8 DEF PumpQuiet, PumpRefs, VerdictInv
  <2>2. \A q \in Conn : pumpPc[q] = "ticking" => cred'[q] = cred[q]
    BY <1>8 DEF PumpQuiet, VerdictInv
  <2>3. \A q \in Conn : Holders(q)' = Holders(q)
    BY <1>8 DEF PumpQuiet, Holders
  <2> QED
    BY <1>8, <2>1, <2>2, <2>3 DEF PumpQuiet, PumpRefs
<1>9. \A c \in Conn : ReleasePump(c) => PumpRefs'
  BY <1>3, <1>4
<1> QED
  BY <1>1, <1>2, <1>5, <1>6, <1>7, <1>8, <1>9, PumpSteps DEF Pump

\* No open socket that can be re-checked loses its ticker before its verdict.
LEMMA WatchStep == IInv /\ [Next]_vars => OpenIsWatched'
<1> SUFFICES ASSUME IInv, [Next]_vars, NEW c \in Conn, c \in clients', pc'[c] = "open",
                    cred'[c] \in PumpKey, TypeOK'
             PROVE  /\ handle'[c] # None /\ cred'[handle'[c]] = cred'[c]
                    /\ \/ pumpPc'[handle'[c]] = "ticking" /\ pumps'[cred'[c]] = handle'[c]
                       \/ pumpPc'[handle'[c]] \in {"gone", "retired"}
  BY TypeStep DEF OpenIsWatched, IInv, TypeOK
<1> USE NoneAssumption DEF IInv, TypeOK, connVars, pumpVars
<1> DEFINE Watched(p) == /\ p # None /\ cred[p] = cred[c]
                         /\ \/ pumpPc[p] = "ticking" /\ pumps[cred[c]] = p
                            \/ pumpPc[p] \in {"gone", "retired"}
           Fine == \E p \in Conn : p = handle'[c] /\ Watched(p)'
<1>1. (c \in clients /\ pc[c] = "open") \/ (pc[c] = "compared" /\ JoinPump(c))
  <2>1. ASSUME NEW d \in Conn, Handler(d)
        PROVE  (c \in clients /\ pc[c] = "open") \/ (pc[c] = "compared" /\ JoinPump(c))
    <3>1. CASE Begin(d) \/ Authenticate(d) \/ Refuse(d) \/ CompareEpoch(d)
      BY <3>1 DEF Begin, Authenticate, Refuse, CompareEpoch, indexVars
    <3>2. CASE JoinPump(d) \/ ReleasePump(d) \/ Close(d)
      BY <3>2 DEF JoinPump, ReleasePump, Close, indexVars
    <3>3. CASE Register(d) \/ Remove(d)
      BY <3>3 DEF Register, Remove, Index, Unindex
    <3> QED
      BY <2>1, <3>1, <3>2, <3>3 DEF Handler
  <2>2. ASSUME NEW d \in Conn, CheckRemoves(d) \/ SweepPump(d)
        PROVE  c \in clients /\ pc[c] = "open"
    BY <2>2 DEF CheckRemoves, SweepPump, Unindex
  <2>3. ASSUME NEW s \in Session, SweepSession(s) PROVE c \in clients /\ pc[c] = "open"
    BY <2>3 DEF SweepSession, Unindex
  <2> QED
    BY <2>1, <2>2, <2>3, QuietSteps
<1>2. cred'[c] = cred[c]
  BY <1>1, CredentialStep DEF Settled
<1>3. ASSUME JoinPump(c) PROVE Fine
  <2> PICK p \in Conn : p = (IF pumps[cred[c]] = None THEN c ELSE pumps[cred[c]])
    BY <1>2
  <2>1. p = handle'[c] /\ cred' = cred /\ pumps'[cred[c]] = p
    BY <1>2, <1>3 DEF JoinPump
  <2>2. cred[p] = cred[c] /\ pumpPc'[p] \in {"ticking", "gone"}
    BY <1>2, <1>3 DEF JoinPump, PumpRefs
  <2> QED
    BY <2>1, <2>2
<1>4. ASSUME c \in clients, pc[c] = "open", ~JoinPump(c) PROVE Fine
  <2> PICK p \in Conn : p = handle[c]
    BY <1>2, <1>4 DEF OpenIsWatched
  <2>1. Watched(p)
    BY <1>2, <1>4 DEF OpenIsWatched
  <2>2. ASSUME NEW d \in Conn, JoinPump(d) PROVE Fine
    <3>1. d # c /\ handle'[c] = p /\ cred' = cred
      BY <1>4, <2>2 DEF JoinPump
    <3>2. CASE cred[d] \in PumpKey
      <4>1. pumpPc[d] = "none" /\ d # p
        BY <2>1, <2>2 DEF JoinPump, HandleInv
      <4>2. pumpPc'[p] = pumpPc[p]
        BY <2>2, <3>2, <4>1 DEF JoinPump
      <4>3. pumpPc[p] = "ticking" => pumps'[cred[c]] = p
        BY <1>2, <2>1, <2>2, <3>2 DEF JoinPump
      <4> QED
        BY <2>1, <3>1, <4>2, <4>3
    <3>3. CASE cred[d] \notin PumpKey
      BY <2>1, <2>2, <3>1, <3>3 DEF JoinPump
    <3> QED
      BY <3>2, <3>3
  <2>3. ASSUME NEW d \in Conn, ReleasePump(d) PROVE Fine
    <3>1. d # c /\ handle'[c] = p /\ cred' = cred
      BY <1>4, <2>3 DEF ReleasePump
    <3>2. CASE handle[d] # p \/ pumps[cred[d]] # handle[d]
      <4>1. pumpPc'[p] = pumpPc[p]
        BY <2>3, <3>2 DEF ReleasePump
      <4>2. pumpPc[p] = "ticking" => pumps'[cred[c]] = p
        BY <1>2, <2>1, <2>3, <3>2 DEF ReleasePump, HandleInv
      <4> QED
        BY <2>1, <3>1, <4>1, <4>2
    <3>3. CASE handle[d] = p /\ pumps[cred[d]] = handle[d]
      <4>1. IsFiniteSet(Holders(p)) /\ refs[p] = Cardinality(Holders(p))
        BY <2>1, <3>3 DEF HandleInv, PumpRefs
      <4>2. ({c} \cup {d}) \subseteq Holders(p)
        BY <3>3 DEF Holders
      <4>3. IsFiniteSet({c}) /\ Cardinality({c}) = 1
        BY FS_Singleton
      <4>4. Cardinality({c} \cup {d}) = 2
        <5>1. d \notin {c}
          BY <3>1
        <5>2. Cardinality({c} \cup {d}) = Cardinality({c}) + 1
          BY <4>3, <5>1, FS_AddElement, Zenon
        <5> QED
          BY <4>3, <5>2
      <4>5. Cardinality({c} \cup {d}) <= Cardinality(Holders(p))
        BY <4>1, <4>2, FS_Subset
      <4>6. refs[p] > 1
        BY <4>1, <4>4, <4>5
      <4>7. UNCHANGED <<pumps, pumpPc>>
        BY <2>3, <3>3, <4>6 DEF ReleasePump
      <4> QED
        BY <1>2, <2>1, <3>1, <4>7
    <3> QED
      BY <3>2, <3>3
  <2>4. ASSUME NEW q \in Conn, TickGone(q) PROVE Fine
    BY <1>2, <2>1, <2>4 DEF TickGone
  <2>5. ASSUME NEW q \in Conn, RetirePump(q) PROVE Fine
    <3>1. handle'[c] = p /\ cred' = cred
      BY <2>5 DEF RetirePump
    <3>2. CASE q = p
      BY <2>1, <2>5, <3>1, <3>2 DEF RetirePump
    <3>3. CASE q # p
      BY <1>2, <2>1, <2>5, <3>1, <3>3 DEF RetirePump
    <3> QED
      BY <3>2, <3>3
  <2>6. ASSUME NEW q \in Conn, SweepPump(q) PROVE Fine
    <3>1. handle'[c] = p /\ cred' = cred
      BY <2>6 DEF SweepPump
    <3>2. q # p
      <4>1. SUFFICES ASSUME q = p PROVE FALSE
        OBVIOUS
      <4>2. cred[c].session \in Session
        BY <1>2 DEF PumpKey, UpgradeType
      <4>3. c \in PumpTargets(p)
        BY <1>4, <2>1, <4>2 DEF PumpTargets, IndexAgrees
      <4> QED
        BY <2>6, <4>1, <4>3 DEF SweepPump, Unindex
    <3> QED
      BY <1>2, <2>1, <2>6, <3>1, <3>2 DEF SweepPump
  <2>7. CASE PumpQuiet
    <3>1. cred'[p] = cred[p]
      BY <2>1, <2>7 DEF PumpQuiet, VerdictInv
    <3> QED
      BY <1>2, <2>1, <2>7, <3>1 DEF PumpQuiet
  <2> QED
    BY <2>2, <2>3, <2>4, <2>5, <2>6, <2>7, PumpSteps DEF Pump
<1> QED
  BY <1>1, <1>3, <1>4

----------------------------------------------------------------------------
(* The theorems. *)

\* The conjunction of the invariants is inductive.
LEMMA IInvStep == IInv /\ [Next]_vars => IInv'
BY TypeStep, IndexStep, EpochStep, SweptStep, VerdictStep, HandleStep, PumpRefsStep, WatchStep
DEF IInv

\* The inductive invariant holds of every reachable state of the hub.
THEOREM HubInvariant == Spec => []IInv
BY InitIInv, IInvStep, PTL DEF Spec

\* The fields of the hub, the handlers and the pumps keep their types.
THEOREM TypeCorrect == Spec => []TypeOK
<1>1. IInv => TypeOK
  BY DEF IInv
<1> QED
  BY <1>1, HubInvariant, PTL

\* An announced revocation leaves no uncovered targetable socket behind.
THEOREM SweepsCover == Spec => []SweptIsCovered
<1>1. IInv => SweptIsCovered
  BY DEF IInv
<1> QED
  BY <1>1, HubInvariant, PTL

\* No socket is closed as revoked while its own session and token resolve.
THEOREM RevocationsAreTrue == Spec => []OnlyTheGoneAreRevoked
<1>1. IInv => OnlyTheGoneAreRevoked
  BY DEF IInv, VerdictInv, OnlyTheGoneAreRevoked
<1> QED
  BY <1>1, HubInvariant, PTL

\* The three indexes always file the same sockets, and no finished one; a pump's reference
\* count is exact, and a ticker runs as long as it is held; and every open socket that can
\* be re-checked is watched by a running ticker.
THEOREM RegistryIsTrue == Spec => []RegistryHolds
<1>1. IInv => RegistryHolds
  BY DEF IInv, RegistryHolds
<1> QED
  BY <1>1, HubInvariant, PTL

----------------------------------------------------------------------------
(* The fan-out. *)

\* What the variables of a publish and of a write pump may hold.
FanTypeOK ==
  /\ pub \in Msg \cup {None}
  /\ mpc \in [Msg -> {"idle", "fanning", "done"}]
  /\ targets \in [Msg -> SUBSET Conn] /\ barred \in [Msg -> SUBSET Conn]
  /\ chosen \in [Msg -> Conn \cup {None}]
  /\ queue \in [Conn -> Seq(Msg)] /\ wire \in [Conn -> Seq(Msg)]
  /\ writer \in [Conn -> {"select", "taken", "writing", "returned"}]
  /\ frame \in [Conn -> Msg \cup {None}]
  /\ late \in [Conn -> Nat]

\* A condemned socket is out of the indexes, and past the step that indexes it;
\* in production a connection has a member only if it has a session.
CondemnedInv ==
  \A c \in Conn :
    /\ c \in clients => c \notin doomed /\ ~revoked[c] /\ check[c] # "removed"
    /\ revoked[c] \/ c \in doomed \/ c \in clients \/ check[c] # "none"
       => pc[c] \notin {"idle", "snapped", "authed", "refused"}
    /\ BypassActor = None /\ cred[c].session = None => cred[c].user = None

\* The write pump holds a frame between taking it and writing or dropping it, while
\* its handler waits for it, and starts no write once its socket is revoked.
WriterInv ==
  \A c \in Conn :
    /\ writer[c] \in {"taken", "writing"} <=> frame[c] # None
    /\ writer[c] \in {"taken", "writing"} => pc[c] = "open"
    /\ late[c] = 0 \/ (late[c] = 1 /\ revoked[c] /\ writer[c] # "writing")

\* A client still to be visited by a publish has not been handed its message.
Ahead(c, m) == c \in targets[m] \/ chosen[m] = c
PublishInv ==
  /\ \A m \in Msg, c \in Conn :
       /\ Ahead(c, m) => mpc[m] = "fanning" /\ ~IsFed(c, m)
       /\ ~(c \in targets[m] /\ chosen[m] = c)
       /\ IsFed(c, m) \/ c \in barred[m] => mpc[m] # "idle"
       /\ c \in barred[m] => ~Ahead(c, m) /\ ~IsFed(c, m)
  /\ \A m \in Targeted : mpc[m] = "fanning" => pub = m

\* A targeted message goes to connections whose credential names a session.
AudienceInv ==
  BypassActor = None =>
    \A m \in Targeted, c \in Conn :
      Ahead(c, m) \/ IsFed(c, m) => Settled(c) /\ cred[c].session # None

\* Of two targeted messages that reached one client, the first was finished.
OrderInv ==
  \A c, d \in Conn, m, n \in Targeted :
    Before(c, m, n) => mpc[m] = "done" /\ m # n /\ ~Before(d, n, m)

FanInv == IInv /\ FanTypeOK /\ CondemnedInv /\ WriterInv /\ PublishInv /\ AudienceInv /\ OrderInv

----------------------------------------------------------------------------
(* What is fed to a connection, as a sequence. *)

Has(s, m)         == \E i \in 1..Len(s) : s[i] = m
Precedes(s, m, n) == \E i, j \in 1..Len(s) : i < j /\ s[i] = m /\ s[j] = n

\* A frame that is put at the end is the last thing that was fed.
LEMMA FeedAppend ==
  ASSUME NEW s \in Seq(Msg), NEW x \in Msg, NEW m, NEW n
  PROVE  /\ Has(Append(s, x), m) => Has(s, m) \/ m = x
         /\ Precedes(Append(s, x), m, n) => Precedes(s, m, n) \/ (n = x /\ Has(s, m))
<1>1. Len(Append(s, x)) = Len(s) + 1 /\ Len(s) \in Nat
  OBVIOUS
<1>2. \A i \in 1..(Len(s) + 1) : Append(s, x)[i] = IF i = Len(s) + 1 THEN x ELSE s[i]
  OBVIOUS
<1> QED
  BY <1>1, <1>2 DEF Has, Precedes

\* A frame that is dropped adds nothing, and reorders nothing.
LEMMA FeedDrop ==
  ASSUME NEW s \in Seq(Msg), NEW t \in Seq(Msg), NEW x \in Msg, NEW m, NEW n
  PROVE  /\ Has(s \o t, m) => Has(s \o <<x>> \o t, m)
         /\ Precedes(s \o t, m, n) => Precedes(s \o <<x>> \o t, m, n)
<1> DEFINE long == s \o <<x>> \o t
           short == s \o t
           At(i) == IF i <= Len(s) THEN i ELSE i + 1
<1>1. Len(short) = Len(s) + Len(t) /\ Len(long) = Len(s) + 1 + Len(t)
      /\ Len(s) \in Nat /\ Len(t) \in Nat
  OBVIOUS
<1>2. \A i \in 1..Len(short) : At(i) \in 1..Len(long) /\ long[At(i)] = short[i]
  OBVIOUS
<1>3. \A i, j \in 1..Len(short) : i < j => At(i) < At(j)
  BY <1>1
<1> HIDE DEF long, short, At
<1>4. Has(short, m) => Has(long, m)
  BY <1>2 DEF Has
<1>5. Precedes(short, m, n) => Precedes(long, m, n)
  BY <1>2, <1>3 DEF Precedes
<1> QED
  BY <1>4, <1>5 DEF long, short

\* How the three places a frame passes through make one sequence.
LEMMA FeedParts ==
  ASSUME NEW w \in Seq(Msg), NEW q \in Seq(Msg), NEW x \in Msg
  PROVE  /\ \A h \in Seq(Msg) : w \o h \o Append(q, x) = Append(w \o h \o q, x)
         /\ w \o <<>> \o (<<x>> \o q) = w \o <<x>> \o q
         /\ Append(w, x) \o <<>> \o q = w \o <<x>> \o q
<1> SUFFICES ASSUME NEW h \in Seq(Msg)
             PROVE  /\ w \o h \o Append(q, x) = Append(w \o h \o q, x)
                    /\ w \o <<>> \o (<<x>> \o q) = w \o <<x>> \o q
                    /\ Append(w, x) \o <<>> \o q = w \o <<x>> \o q
  OBVIOUS
<1>1. <<x>> \in Seq(Msg) /\ w \o h \in Seq(Msg) /\ w \o h \o q \in Seq(Msg)
  OBVIOUS
<1>2. Append(w, x) = w \o <<x>> /\ Append(q, x) = q \o <<x>> /\ Append(w, x) \in Seq(Msg)
  BY AppendIsConcat
<1>3. Append(w \o h \o q, x) = (w \o h \o q) \o <<x>>
  BY <1>1, AppendIsConcat
<1>4. w \o h \o (q \o <<x>>) = (w \o h \o q) \o <<x>>
  BY <1>1, ConcatAssociative
<1>5. w \o <<>> = w /\ Append(w, x) \o <<>> = Append(w, x)
  BY <1>2, ConcatEmptySeq
<1>6. w \o (<<x>> \o q) = w \o <<x>> \o q
  BY <1>1, ConcatAssociative
<1> QED
  BY <1>2, <1>3, <1>4, <1>5, <1>6

\* A connection's wire, held frame and queue, laid end to end.
Whole(w, f, q) == w \o (IF f = None THEN <<>> ELSE <<f>>) \o q

\* Sending appends to the whole; taking a frame and writing it leave the whole as
\* it is; dropping a frame takes that frame out of it.
LEMMA WholeMoves ==
  ASSUME NEW w \in Seq(Msg), NEW q \in Seq(Msg), NEW x \in Msg, None \notin Msg
  PROVE  /\ \A f \in Msg \cup {None} : /\ Whole(w, f, q) \in Seq(Msg)
                                       /\ Whole(w, f, Append(q, x)) = Append(Whole(w, f, q), x)
         /\ q # <<>> => Whole(w, Head(q), Tail(q)) = Whole(w, None, q)
         /\ Whole(Append(w, x), None, q) = Whole(w, x, q)
         /\ Whole(w, x, q) = w \o <<x>> \o q
         /\ Whole(w, None, q) = w \o q
<1>1. Whole(w, x, q) = w \o <<x>> \o q
  BY DEF Whole
<1>2. Whole(w, None, q) = w \o <<>> \o q /\ w \o <<>> = w
  BY ConcatEmptySeq DEF Whole
<1>3. ASSUME NEW f \in Msg \cup {None}
      PROVE  Whole(w, f, q) \in Seq(Msg) /\ Whole(w, f, Append(q, x)) = Append(Whole(w, f, q), x)
  <2> DEFINE h == IF f = None THEN <<>> ELSE <<f>>
  <2>1. h \in Seq(Msg)
    OBVIOUS
  <2> HIDE DEF h
  <2>2. w \o h \o Append(q, x) = Append(w \o h \o q, x)
    BY <2>1, FeedParts
  <2>3. w \o h \o q \in Seq(Msg)
    BY <2>1
  <2> QED
    BY <2>2, <2>3 DEF Whole, h
<1>4. ASSUME q # <<>> PROVE Whole(w, Head(q), Tail(q)) = Whole(w, None, q)
  <2>1. Head(q) \in Msg /\ Tail(q) \in Seq(Msg) /\ q = <<Head(q)>> \o Tail(q)
    BY <1>4, HeadTailProperties
  <2>2. Whole(w, Head(q), Tail(q)) = w \o <<Head(q)>> \o Tail(q)
    BY <2>1 DEF Whole
  <2>3. w \o <<>> \o (<<Head(q)>> \o Tail(q)) = w \o <<Head(q)>> \o Tail(q)
    BY <2>1, FeedParts
  <2> QED
    BY <1>2, <2>1, <2>2, <2>3
<1>5. Whole(Append(w, x), None, q) = Whole(w, x, q)
  <2>1. Whole(Append(w, x), None, q) = Append(w, x) \o <<>> \o q
    BY DEF Whole
  <2> QED
    BY <1>1, <2>1, FeedParts
<1> QED
  BY <1>1, <1>2, <1>3, <1>4, <1>5

\* What a step does to what was fed to a connection.
FedStays(c) == Fed(c)' = Fed(c)
FedGrows(c) == \E m \in Msg : FanSend(m) /\ chosen[m] = c /\ Fed(c)' = Append(Fed(c), m)
FedDrops(c) == \E s, t \in Seq(Msg), x \in Msg : Fed(c) = s \o <<x>> \o t /\ Fed(c)' = s \o t

\* What was fed is a sequence of messages, and only a send to a client, a frame
\* dropped at the revoked flag and a write that fails change it.
LEMMA FedStep ==
  ASSUME FanTypeOK, WriterInv, [FanNext]_allVars, NEW c \in Conn
  PROVE  /\ Msg # {} => Fed(c) \in Seq(Msg)
         /\ FedStays(c) \/ FedGrows(c) \/ FedDrops(c)
<1> USE DEF writerVars, pubVars, fanVars, FedStays
<1>1. /\ None \notin Msg
      /\ wire[c] \in Seq(Msg) /\ queue[c] \in Seq(Msg) /\ frame[c] \in Msg \cup {None}
  BY FanoutAssumption DEF FanTypeOK
<1>2. /\ Fed(c) = Whole(wire[c], frame[c], queue[c])
      /\ Fed(c)' = Whole(wire'[c], frame'[c], queue'[c])
  BY DEF Fed, Whole
<1>3. UNCHANGED <<queue, frame, wire>> => FedStays(c)
  BY <1>2
<1>4. ASSUME NEW m \in Msg, PublishTo(m) \/ Publish(m) \/ FanCheck(m) \/ FanDone(m)
      PROVE  FedStays(c)
  BY <1>3, <1>4 DEF PublishTo, Publish, FanCheck, FanDone
<1>5. ASSUME NEW m \in Msg, FanSend(m) PROVE FedStays(c) \/ FedGrows(c)
  <2>1. CASE chosen[m] = c /\ Len(queue[c]) < SendBuffer
    <3>1. queue'[c] = Append(queue[c], m) /\ UNCHANGED <<frame, wire>>
      BY <1>5, <2>1 DEF FanSend, FanTypeOK
    <3>2. Whole(wire[c], frame[c], Append(queue[c], m))
            = Append(Whole(wire[c], frame[c], queue[c]), m)
      BY <1>1, WholeMoves
    <3>3. Fed(c)' = Append(Fed(c), m)
      BY <1>2, <3>1, <3>2, Zenon
    <3> QED
      BY <1>5, <2>1, <3>3 DEF FedGrows
  <2>2. CASE ~(chosen[m] = c /\ Len(queue[c]) < SendBuffer)
    <3>1. queue'[c] = queue[c] /\ UNCHANGED <<frame, wire>>
      BY <1>5, <2>2 DEF FanSend, FanTypeOK
    <3> QED
      BY <1>2, <3>1
  <2> QED
    BY <2>1, <2>2
<1>6. ASSUME NEW d \in Conn, TakeFrame(d) PROVE FedStays(c)
  <2>1. CASE c # d
    BY <1>2, <1>6, <2>1 DEF TakeFrame, FanTypeOK
  <2>2. CASE c = d
    <3>1. frame[c] = None /\ frame'[c] = Head(queue[c]) /\ queue'[c] = Tail(queue[c])
          /\ wire'[c] = wire[c] /\ queue[c] # <<>>
      BY <1>6, <2>2 DEF TakeFrame, WriterInv, FanTypeOK
    <3>2. Head(queue[c]) \in Msg
      BY <1>1, <3>1
    <3>3. Whole(wire[c], Head(queue[c]), Tail(queue[c])) = Whole(wire[c], None, queue[c])
      BY <1>1, <3>1, <3>2, WholeMoves
    <3> QED
      BY <1>2, <3>1, <3>3
  <2> QED
    BY <2>1, <2>2
<1>7. ASSUME NEW d \in Conn, WriteFrame(d) PROVE FedStays(c)
  <2>1. CASE c # d
    BY <1>2, <1>7, <2>1 DEF WriteFrame, FanTypeOK
  <2>2. CASE c = d
    <3>1. frame[c] \in Msg /\ frame'[c] = None
      BY <1>1, <1>7, <2>2 DEF WriteFrame, WriterInv, FanTypeOK
    <3>2. wire'[c] = Append(wire[c], frame[c]) /\ queue'[c] = queue[c]
      BY <1>7, <2>2, <3>1 DEF WriteFrame, FanTypeOK
    <3>3. Whole(Append(wire[c], frame[c]), None, queue[c]) = Whole(wire[c], frame[c], queue[c])
      BY <1>1, <3>1, WholeMoves
    <3> QED
      BY <1>2, <3>1, <3>2, <3>3
  <2> QED
    BY <2>1, <2>2
<1>8. ASSUME NEW d \in Conn, CheckFrame(d) \/ WriteFails(d) PROVE FedStays(c) \/ FedDrops(c)
  <2>1. UNCHANGED <<wire, queue>>
    BY <1>8 DEF CheckFrame, WriteFails
  <2>2. CASE frame'[c] = frame[c]
    BY <1>2, <2>1, <2>2
  <2>3. CASE frame'[c] # frame[c]
    <3>1. frame[c] \in Msg /\ frame'[c] = None
      BY <1>1, <1>8, <2>3 DEF CheckFrame, WriteFails, WriterInv, FanTypeOK
    <3>2. /\ Whole(wire[c], frame[c], queue[c]) = wire[c] \o <<frame[c]>> \o queue[c]
          /\ Whole(wire[c], None, queue[c]) = wire[c] \o queue[c]
      BY <1>1, <3>1, WholeMoves
    <3> QED
      BY <1>1, <1>2, <2>1, <3>1, <3>2 DEF FedDrops
  <2> QED
    BY <2>2, <2>3
<1>9. HubStep \/ UNCHANGED allVars => FedStays(c)
  BY <1>3 DEF HubStep, allVars
<1>10. ASSUME NEW x \in Msg PROVE Fed(c) \in Seq(Msg)
  BY <1>1, <1>2, WholeMoves
<1> QED
  BY <1>4, <1>5, <1>6, <1>7, <1>8, <1>9, <1>10 DEF FanNext, Publisher, Writer

\* A message is new to a connection, or behind another one, only by being sent.
LEMMA FedOnlyBySend ==
  ASSUME FanTypeOK, WriterInv, [FanNext]_allVars, NEW c \in Conn, NEW m \in Msg, NEW n \in Msg
  PROVE  /\ IsFed(c, m)' => IsFed(c, m) \/ (FanSend(m) /\ chosen[m] = c)
         /\ Before(c, m, n)' => Before(c, m, n) \/ (FanSend(n) /\ chosen[n] = c /\ IsFed(c, m))
<1>1. /\ \A x : IsFed(c, x) <=> Has(Fed(c), x)
      /\ \A x : IsFed(c, x)' <=> Has(Fed(c)', x)
  BY DEF IsFed, Has
<1>2. /\ Before(c, m, n) <=> Precedes(Fed(c), m, n)
      /\ Before(c, m, n)' <=> Precedes(Fed(c)', m, n)
  BY DEF Before, Precedes
<1>3. CASE FedStays(c)
  BY <1>1, <1>2, <1>3 DEF FedStays
<1>4. CASE FedGrows(c)
  <2>1. PICK x \in Msg : FanSend(x) /\ chosen[x] = c /\ Fed(c)' = Append(Fed(c), x)
    BY <1>4 DEF FedGrows
  <2>2. Fed(c) \in Seq(Msg)
    BY FedStep
  <2> QED
    BY <1>1, <1>2, <2>1, <2>2, FeedAppend
<1>5. CASE FedDrops(c)
  <2>1. PICK s \in Seq(Msg), t \in Seq(Msg), x \in Msg :
          Fed(c) = s \o <<x>> \o t /\ Fed(c)' = s \o t
    BY <1>5 DEF FedDrops
  <2> QED
    BY <1>1, <1>2, <2>1, FeedDrop
<1> QED
  BY <1>3, <1>4, <1>5, FedStep
----------------------------------------------------------------------------
(* The hub under the publishes. *)

\* A sweep unindexes a socket in the step that condemns it, and no step indexes it
\* again; Authenticate hands over a member only together with a session.
LEMMA CondemnedStep ==
  TypeOK /\ IndexAgrees /\ VerdictInv /\ CondemnedInv /\ [Next]_vars => CondemnedInv'
<1> SUFFICES ASSUME TypeOK, IndexAgrees, VerdictInv, CondemnedInv, [Next]_vars
             PROVE CondemnedInv'
  OBVIOUS
<1> USE DEF CondemnedInv, TypeOK, indexVars, connVars, stopVars
<1>1. ASSUME NEW c \in Conn, Begin(c) \/ Refuse(c) \/ CompareEpoch(c) PROVE CondemnedInv'
  BY <1>1 DEF Begin, Refuse, CompareEpoch
<1>2. ASSUME NEW c \in Conn, Authenticate(c) PROVE CondemnedInv'
  <2>1. BypassActor = None /\ cred'[c].session = None => cred'[c].user = None
    BY <1>2 DEF Authenticate, Resolved, Credential
  <2> QED
    BY <1>2, <2>1 DEF Authenticate
<1>3. ASSUME NEW c \in Conn, Register(c) PROVE CondemnedInv'
  BY <1>3 DEF Register, Index
<1>4. ASSUME NEW c \in Conn, JoinPump(c) \/ ReleasePump(c) \/ Close(c) PROVE CondemnedInv'
  BY <1>4 DEF JoinPump, ReleasePump, Close
<1>5. ASSUME NEW c \in Conn, Remove(c) PROVE CondemnedInv'
  BY <1>5 DEF Remove, Unindex
<1>6. ASSUME NEW c \in Conn, ClientGone(c) \/ CheckAnswers(c) PROVE CondemnedInv'
  BY <1>6 DEF ClientGone, CheckAnswers
<1>7. ASSUME NEW c \in Conn, CheckRemoves(c) PROVE CondemnedInv'
  BY <1>7 DEF CheckRemoves, Unindex
<1>8. ASSUME NEW c \in Conn, CheckRevokes(c) \/ RevokeDoomed(c) PROVE CondemnedInv'
  BY <1>8 DEF CheckRevokes, RevokeDoomed, Revoke
<1>9. ASSUME NEW p \in Conn, TickGone(p) \/ RetirePump(p) PROVE CondemnedInv'
  BY <1>9 DEF TickGone, RetirePump
<1>10. ASSUME NEW p \in Conn, SweepPump(p) PROVE CondemnedInv'
  <2>1. cred[p].session \in Session
    BY <1>10 DEF SweepPump, VerdictInv, PumpKey, UpgradeType
  <2>2. PumpTargets(p) \subseteq clients
    BY <2>1 DEF PumpTargets, IndexAgrees
  <2> QED
    BY <1>10, <2>2 DEF SweepPump, Unindex
<1>11. ASSUME NEW s \in Session, SweepSession(s) PROVE CondemnedInv'
  <2>1. bySession[s] \subseteq clients
    BY DEF IndexAgrees
  <2> QED
    BY <1>11, <2>1 DEF SweepSession, Unindex
<1>12. ASSUME NEW s \in Session, RevokeRow(s) PROVE CondemnedInv'
  BY <1>12 DEF RevokeRow
<1>13. ASSUME NEW t \in Token, ExpireToken(t) PROVE CondemnedInv'
  BY <1>13 DEF ExpireToken
<1>14. CASE UNCHANGED vars
  BY <1>14 DEF vars
<1> QED
  BY <1>1, <1>2, <1>3, <1>4, <1>5, <1>6, <1>7, <1>8, <1>9, <1>10, <1>11, <1>12, <1>13, <1>14
  DEF Next, Handler, Recheck, Pump, Auth

\* Whatever the publishes and the write pumps do, the hub sees a step of its own or
\* none: a failed write is to it a connection that went away.
LEMMA HubSteps ==
  ASSUME TypeOK, WriterInv, [FanNext]_allVars
  PROVE  [Next]_vars
<1>1. ASSUME NEW m \in Msg, Publisher(m) PROVE UNCHANGED vars
  BY <1>1 DEF Publisher, PublishTo, Publish, FanCheck, FanSend, FanDone
<1>2. ASSUME NEW c \in Conn, TakeFrame(c) \/ CheckFrame(c) \/ WriteFrame(c) PROVE UNCHANGED vars
  BY <1>2 DEF TakeFrame, CheckFrame, WriteFrame
<1>3. ASSUME NEW c \in Conn, WriteFails(c) PROVE ClientGone(c) \/ UNCHANGED vars
  <2>1. pc[c] = "open"
    BY <1>3 DEF WriteFails, WriterInv
  <2>2. CASE cancelled[c]
    <3>1. cancelled' = cancelled
      BY <1>3, <2>2 DEF WriteFails, TypeOK
    <3> QED
      BY <1>3, <3>1 DEF WriteFails, vars, indexVars, connVars, stopVars, pumpVars, authVars
  <2>3. CASE ~cancelled[c]
    BY <1>3, <2>1, <2>3 DEF WriteFails, ClientGone
  <2> QED
    BY <2>2, <2>3
<1>4. UNCHANGED allVars => UNCHANGED vars
  BY DEF allVars
<1> QED
  BY <1>1, <1>2, <1>3, <1>4 DEF FanNext, HubStep, Writer, Next

\* A revoked flag is never cleared.
LEMMA RevokedStays ==
  ASSUME TypeOK, [Next]_vars, NEW c \in Conn, revoked[c]
  PROVE  revoked'[c]
<1> USE DEF TypeOK, stopVars
<1>1. ASSUME NEW d \in Conn, Handler(d) \/ ClientGone(d) PROVE revoked'[c]
  BY <1>1 DEF Handler, Begin, Authenticate, Refuse, Register, CompareEpoch, JoinPump, ReleasePump,
              Remove, Close, ClientGone
<1>2. ASSUME NEW d \in Conn, Recheck(d) \/ Pump(d) \/ RevokeDoomed(d) PROVE revoked'[c]
  BY <1>2 DEF Recheck, CheckAnswers, CheckRemoves, CheckRevokes, Pump, TickGone, RetirePump,
              SweepPump, RevokeDoomed, Revoke
<1>3. Auth => revoked'[c]
  BY DEF Auth, RevokeRow, SweepSession, ExpireToken
<1>4. UNCHANGED vars => revoked'[c]
  BY DEF vars
<1> QED
  BY <1>1, <1>2, <1>3, <1>4 DEF Next

----------------------------------------------------------------------------
(* The publishes and the write pumps. *)

\* The publishes and the write pumps keep their types.
LEMMA FanTypeStep ==
  ASSUME TypeOK, IndexAgrees, FanTypeOK, WriterInv, [FanNext]_allVars
  PROVE  FanTypeOK'
<1> USE DEF FanTypeOK, TypeOK, pubVars, writerVars, fanVars
<1>1. ASSUME NEW m \in Msg, NEW R \in SUBSET Conn, Snapshot(m, R),
             pub' \in {pub, None, m}, UNCHANGED <<chosen, queue, writerVars>>
      PROVE  FanTypeOK'
  BY <1>1 DEF Snapshot
<1>2. ASSUME NEW m \in Msg, PublishTo(m) PROVE FanTypeOK'
  <2>1. UNION {byUser[u] : u \in Audience[m] \ {None}} \in SUBSET Conn
    BY <1>2, FanoutAssumption DEF PublishTo
  <2> QED
    BY <1>1, <1>2, <2>1 DEF PublishTo
<1>3. ASSUME NEW m \in Msg, Publish(m) PROVE FanTypeOK'
  BY <1>1, <1>3 DEF Publish
<1>4. ASSUME NEW m \in Msg, FanCheck(m) \/ FanDone(m) PROVE FanTypeOK'
  <2>1. UNCHANGED <<barred, queue, writer, frame, wire, late>>
    BY <1>4 DEF FanCheck, FanDone
  <2>2. CASE FanCheck(m)
    BY <2>1, <2>2 DEF FanCheck
  <2>3. CASE FanDone(m)
    BY <2>1, <2>3 DEF FanDone
  <2> QED
    BY <1>4, <2>2, <2>3
<1>5. ASSUME NEW m \in Msg, FanSend(m) PROVE FanTypeOK'
  <2>1. \A q \in Seq(Msg) : Append(q, m) \in Seq(Msg)
    OBVIOUS
  <2> QED
    BY <1>5, <2>1 DEF FanSend
<1>6. ASSUME NEW c \in Conn, TakeFrame(c) PROVE FanTypeOK'
  <2>1. Head(queue[c]) \in Msg /\ Tail(queue[c]) \in Seq(Msg)
    BY <1>6 DEF TakeFrame
  <2> QED
    BY <1>6, <2>1 DEF TakeFrame
<1>7. ASSUME NEW c \in Conn, CheckFrame(c) \/ WriteFails(c) PROVE FanTypeOK'
  <2>1. UNCHANGED <<pubVars, queue, wire, late>>
    BY <1>7 DEF CheckFrame, WriteFails
  <2>2. /\ writer' \in [Conn -> {"select", "taken", "writing", "returned"}]
        /\ frame' \in [Conn -> Msg \cup {None}]
    <3>1. CASE CheckFrame(c)
      BY <3>1 DEF CheckFrame
    <3>2. CASE WriteFails(c)
      BY <3>2 DEF WriteFails
    <3> QED
      BY <1>7, <3>1, <3>2
  <2> QED
    BY <2>1, <2>2
<1>8. ASSUME NEW c \in Conn, WriteFrame(c) PROVE FanTypeOK'
  <2>1. frame[c] \in Msg
    BY <1>8 DEF WriteFrame, WriterInv
  <2>2. Append(wire[c], frame[c]) \in Seq(Msg)
    BY <2>1
  <2> QED
    BY <1>8, <2>2 DEF WriteFrame
<1>9. HubStep \/ UNCHANGED allVars => FanTypeOK'
  BY DEF HubStep, allVars
<1> QED
  BY <1>2, <1>3, <1>4, <1>5, <1>6, <1>7, <1>8, <1>9 DEF FanNext, Publisher, Writer

\* The write pump looks at the revoked flag between taking a frame and writing it,
\* so only a write that was under way may end after the verdict.
LEMMA WriterStep ==
  ASSUME TypeOK, FanTypeOK, WriterInv, [FanNext]_allVars
  PROVE  WriterInv'
<1> USE DEF FanTypeOK, TypeOK, WriterInv, pubVars, writerVars, fanVars
<1>1. \A c \in Conn : revoked[c] => revoked'[c]
  BY HubSteps, RevokedStays DEF TypeOK
<1>2. UNCHANGED <<writerVars, pc>> => WriterInv'
  BY <1>1
<1>3. ASSUME NEW m \in Msg, Publisher(m) PROVE UNCHANGED <<writerVars, pc>>
  BY <1>3 DEF Publisher, PublishTo, Publish, FanCheck, FanSend, FanDone, vars, connVars
<1>4. ASSUME NEW c \in Conn, TakeFrame(c) PROVE WriterInv'
  <2>1. Head(queue[c]) # None
    BY <1>4, FanoutAssumption DEF TakeFrame
  <2> QED
    BY <1>1, <1>4, <2>1 DEF TakeFrame, vars, connVars
<1>5. ASSUME NEW c \in Conn, CheckFrame(c) PROVE WriterInv'
  BY <1>1, <1>5 DEF CheckFrame, vars, stopVars, connVars
<1>6. ASSUME NEW c \in Conn, WriteFrame(c) PROVE WriterInv'
  BY <1>1, <1>6 DEF WriteFrame, vars, stopVars, connVars
<1>7. ASSUME NEW c \in Conn, WriteFails(c) PROVE WriterInv'
  BY <1>1, <1>7 DEF WriteFails, connVars
<1>8. HubStep => WriterInv'
  BY <1>1 DEF HubStep
<1>9. UNCHANGED allVars => UNCHANGED <<writerVars, pc>>
  BY DEF allVars, vars, connVars
<1> QED
  BY <1>9, <1>2, <1>3, <1>4, <1>5, <1>6, <1>7, <1>8 DEF FanNext, Writer

\* The recipients of a snapshot are indexed sockets, none of them condemned.
LEMMA Recipients ==
  ASSUME TypeOK, IndexAgrees, VerdictInv, CondemnedInv, NEW m \in Msg,
         NEW R, \/ m \in Targeted /\ R = UNION {byUser[u] : u \in Audience[m] \ {None}}
                \/ m \notin Targeted /\ R = clients
  PROVE  /\ R \subseteq Conn
         /\ \A c \in R : c \notin doomed /\ ~revoked[c] /\ Settled(c)
         /\ BypassActor = None /\ m \in Targeted => \A c \in R : cred[c].session # None
<1>1. m \in Targeted => \A c \in R : c \in clients /\ cred[c].user # None
  BY FanoutAssumption, NoneAssumption DEF IndexAgrees
<1>2. R \subseteq clients
  BY <1>1
<1> QED
  BY <1>1, <1>2 DEF TypeOK, VerdictInv, CondemnedInv

\* A publish visits every client of its snapshot once, and its snapshot holds no
\* socket that was condemned before it.
LEMMA PublishStep ==
  ASSUME TypeOK, IndexAgrees, VerdictInv, CondemnedInv, FanTypeOK, WriterInv, PublishInv,
         [FanNext]_allVars
  PROVE  PublishInv'
<1> USE DEF FanTypeOK, pubVars, writerVars, fanVars
<1>1. ASSUME NEW c \in Conn, NEW m \in Msg
      PROVE  IsFed(c, m)' => IsFed(c, m) \/ (FanSend(m) /\ chosen[m] = c)
  BY <1>1, FedOnlyBySend
<1>2. Targeted \subseteq Msg /\ None \notin Msg
  BY FanoutAssumption
<1>3. ASSUME NEW m \in Msg, FanSend(m) PROVE PublishInv'
  <2>1. /\ UNCHANGED <<mpc, targets, barred, pub>>
        /\ \A n \in Msg : chosen'[n] = IF n = m THEN None ELSE chosen[n]
    BY <1>3 DEF FanSend
  <2>2. \A n \in Msg, c \in Conn : IsFed(c, n)' => IsFed(c, n) \/ (n = m /\ chosen[m] = c)
    <3>1. ASSUME NEW n \in Msg, FanSend(n), n # m PROVE FALSE
      BY <1>3, <3>1 DEF FanSend
    <3> QED
      BY <1>1, <3>1
  <2> QED
    BY <2>1, <2>2, <1>3, NoneAssumption DEF PublishInv, Ahead
<1>5. ASSUME \A m \in Msg : ~FanSend(m), NEW c \in Conn, NEW m \in Msg PROVE IsFed(c, m)' => IsFed(c, m)
  BY <1>1, <1>5
<1>6. ASSUME \A m \in Msg : ~FanSend(m), UNCHANGED <<pub, mpc, targets, chosen, barred>>
      PROVE  PublishInv'
  BY <1>5, <1>6 DEF PublishInv, Ahead
<1>7. ASSUME \A m \in Msg : ~FanSend(m), NEW m \in Msg, PublishTo(m) \/ Publish(m)
      PROVE  PublishInv'
  <2>1. PICK R : /\ \/ m \in Targeted /\ R = UNION {byUser[u] : u \in Audience[m] \ {None}}
                    \/ m \notin Targeted /\ R = clients
                 /\ Snapshot(m, R) /\ chosen' = chosen /\ mpc[m] = "idle"
                 /\ m \in Targeted => pub = None /\ pub' = IF R = {} THEN None ELSE m
                 /\ m \notin Targeted => pub' = pub
    BY <1>7 DEF PublishTo, Publish
  <2>2. R \subseteq Conn /\ \A c \in R : c \notin doomed /\ ~revoked[c]
    BY <2>1, Recipients
  <2>3. /\ \A n \in Msg : /\ targets'[n] = IF n = m THEN R ELSE targets[n]
                          /\ n # m => mpc'[n] = mpc[n] /\ barred'[n] = barred[n]
        /\ mpc'[m] = IF R = {} THEN "done" ELSE "fanning"
        /\ barred'[m] = doomed \cup {c \in Conn : revoked[c]}
    BY <2>1 DEF Snapshot
  <2>4. \A c \in Conn : ~IsFed(c, m)' /\ chosen[m] # c
    BY <1>5, <1>7, <2>1 DEF PublishInv, Ahead
  <2>5. \A n \in Targeted : mpc'[n] = "fanning" => pub' = n
    BY <1>2, <2>1, <2>3 DEF PublishInv
  <2>6. ASSUME NEW n \in Msg, NEW c \in Conn
        PROVE  /\ Ahead(c, n)' => mpc'[n] = "fanning" /\ ~IsFed(c, n)'
               /\ ~(c \in targets'[n] /\ chosen'[n] = c)
               /\ IsFed(c, n)' \/ c \in barred'[n] => mpc'[n] # "idle"
               /\ c \in barred'[n] => ~Ahead(c, n)' /\ ~IsFed(c, n)'
    <3>1. CASE n = m
      BY <2>1, <2>2, <2>3, <2>4, <3>1 DEF Ahead
    <3>2. CASE n # m
      BY <1>5, <1>7, <2>1, <2>3, <3>2 DEF Ahead, PublishInv
    <3> QED
      BY <3>1, <3>2
  <2> QED
    BY <2>5, <2>6 DEF PublishInv
<1>8. ASSUME \A m \in Msg : ~FanSend(m), NEW m \in Msg, FanCheck(m) PROVE PublishInv'
  <2>1. PICK d \in targets[m] :
          /\ \A n \in Msg : targets'[n] = IF n = m THEN targets[m] \ {d} ELSE targets[n]
          /\ \A n \in Msg : chosen'[n] = IF n = m THEN (IF revoked[d] THEN None ELSE d) ELSE chosen[n]
    BY <1>8 DEF FanCheck
  <2>2. UNCHANGED <<mpc, barred, pub>> /\ mpc[m] = "fanning" /\ chosen[m] = None /\ d \in Conn
    BY <1>8 DEF FanCheck
  <2>3. \A n \in Msg, c \in Conn :
          /\ Ahead(c, n)' => Ahead(c, n)
          /\ IsFed(c, n)' => IsFed(c, n)
          /\ ~(c \in targets'[n] /\ chosen'[n] = c)
    BY <1>5, <1>8, <2>1, <2>2, NoneAssumption DEF PublishInv, Ahead
  <2> QED
    BY <2>2, <2>3 DEF PublishInv, Ahead
<1>9. ASSUME \A m \in Msg : ~FanSend(m), NEW m \in Msg, FanDone(m) PROVE PublishInv'
  BY <1>2, <1>5, <1>9, NoneAssumption DEF FanDone, PublishInv, Ahead
<1>10. ASSUME NEW c \in Conn, Writer(c) PROVE UNCHANGED <<pub, mpc, targets, chosen, barred>>
  BY <1>10 DEF Writer, TakeFrame, CheckFrame, WriteFrame, WriteFails
<1>11. HubStep \/ UNCHANGED allVars => UNCHANGED <<pub, mpc, targets, chosen, barred>>
  BY DEF HubStep, allVars
<1> QED
  BY <1>3, <1>6, <1>7, <1>8, <1>9, <1>10, <1>11 DEF FanNext, Publisher

\* The recipients of a targeted publish carry a session when they are chosen, and
\* their credentials no longer change.
LEMMA AudienceStep ==
  ASSUME TypeOK, IndexAgrees, VerdictInv, CondemnedInv, FanTypeOK, WriterInv, PublishInv,
         AudienceInv, [FanNext]_allVars
  PROVE  AudienceInv'
<1> SUFFICES ASSUME BypassActor = None, NEW m \in Targeted, NEW c \in Conn,
                    Ahead(c, m)' \/ IsFed(c, m)'
             PROVE  Settled(c)' /\ cred'[c].session # None
  BY DEF AudienceInv
<1> USE DEF FanTypeOK, pubVars, writerVars, fanVars
<1>1. m \in Msg
  BY FanoutAssumption
<1>2. Ahead(c, m) \/ IsFed(c, m) => Settled(c)' /\ cred'[c].session # None
  BY HubSteps, CredentialStep DEF AudienceInv
<1>3. CASE IsFed(c, m)'
  BY <1>1, <1>2, <1>3, FedOnlyBySend DEF Ahead
<1>4. CASE Ahead(c, m)'
  <2>1. CASE UNCHANGED <<targets, chosen>>
    BY <1>2, <1>4, <2>1 DEF Ahead
  <2>2. ASSUME NEW n \in Msg, PublishTo(n) \/ Publish(n)
        PROVE  Settled(c)' /\ cred'[c].session # None
    <3>1. CASE n = m
      <4>1. /\ targets'[m] = UNION {byUser[u] : u \in Audience[m] \ {None}} /\ chosen' = chosen
            /\ mpc[m] = "idle"
        BY <2>2, <3>1 DEF PublishTo, Publish, Snapshot
      <4>2. chosen[m] # c
        BY <1>1, <4>1 DEF PublishInv, Ahead
      <4>3. c \in targets'[m]
        BY <1>4, <4>1, <4>2 DEF Ahead
      <4>4. Settled(c) /\ cred[c].session # None
        BY <1>1, <4>1, <4>3, Recipients
      <4> QED
        BY <4>4, HubSteps, CredentialStep
    <3>2. CASE n # m
      <4>1. targets'[m] = targets[m] /\ chosen' = chosen
        BY <1>1, <2>2, <3>2 DEF PublishTo, Publish, Snapshot
      <4> QED
        BY <1>2, <1>4, <4>1 DEF Ahead
    <3> QED
      BY <3>1, <3>2
  <2>3. ASSUME NEW n \in Msg, FanCheck(n) PROVE Settled(c)' /\ cred'[c].session # None
    <3>1. Ahead(c, m)
      BY <1>1, <1>4, <2>3, NoneAssumption DEF FanCheck, Ahead
    <3> QED
      BY <1>2, <3>1
  <2>4. ASSUME NEW n \in Msg, FanSend(n) \/ FanDone(n) PROVE Settled(c)' /\ cred'[c].session # None
    <3>1. Ahead(c, m)
      BY <1>1, <1>4, <2>4, NoneAssumption DEF FanSend, FanDone, Ahead
    <3> QED
      BY <1>2, <3>1
  <2>5. ASSUME NEW d \in Conn, Writer(d) PROVE UNCHANGED <<targets, chosen>>
    BY <2>5 DEF Writer, TakeFrame, CheckFrame, WriteFrame, WriteFails
  <2>6. HubStep \/ UNCHANGED allVars => UNCHANGED <<targets, chosen>>
    BY DEF HubStep, allVars
  <2> QED
    BY <2>1, <2>2, <2>3, <2>4, <2>5, <2>6 DEF FanNext, Publisher
<1> QED
  BY <1>3, <1>4

\* A targeted publish that is done stays done.
LEMMA DoneStays ==
  ASSUME FanTypeOK, [FanNext]_allVars, NEW m \in Msg, mpc[m] = "done"
  PROVE  mpc'[m] = "done"
<1> USE DEF FanTypeOK, pubVars, fanVars
<1>1. ASSUME NEW n \in Msg, Publisher(n) PROVE mpc'[m] = "done"
  BY <1>1 DEF Publisher, PublishTo, Publish, Snapshot, FanCheck, FanSend, FanDone
<1>2. ASSUME NEW c \in Conn, Writer(c) PROVE mpc'[m] = "done"
  BY <1>2 DEF Writer, TakeFrame, CheckFrame, WriteFrame, WriteFails
<1>3. HubStep \/ UNCHANGED allVars => mpc'[m] = "done"
  BY DEF HubStep, allVars
<1> QED
  BY <1>1, <1>2, <1>3 DEF FanNext

\* While a targeted message is being sent every other one that reached somebody is
\* finished, so it comes last wherever it goes.
LEMMA OrderStep ==
  ASSUME FanTypeOK, WriterInv, PublishInv, OrderInv, [FanNext]_allVars
  PROVE  OrderInv'
<1> SUFFICES ASSUME NEW c \in Conn, NEW d \in Conn, NEW m \in Targeted, NEW n \in Targeted,
                    Before(c, m, n)'
             PROVE  mpc'[m] = "done" /\ m # n /\ ~Before(d, n, m)'
  BY DEF OrderInv
<1>1. m \in Msg /\ n \in Msg
  BY FanoutAssumption
<1>2. ASSUME NEW e \in Conn, NEW x \in Targeted, NEW y \in Targeted, FanSend(y), chosen[y] = e,
             IsFed(e, x)
      PROVE  mpc[x] = "done" /\ mpc[y] = "fanning" /\ x # y
  <2>1. x \in Msg /\ y \in Msg
    BY FanoutAssumption
  <2>2. mpc[y] = "fanning" /\ pub = y /\ ~IsFed(e, y)
    BY <1>2, <2>1 DEF PublishInv, Ahead
  <2>3. mpc[x] # "idle" /\ (mpc[x] = "fanning" => pub = x)
    BY <1>2, <2>1 DEF PublishInv
  <2> QED
    BY <1>2, <2>1, <2>2, <2>3 DEF FanTypeOK
<1>3. /\ Before(c, m, n) \/ (FanSend(n) /\ chosen[n] = c /\ IsFed(c, m))
      /\ Before(d, n, m)' => Before(d, n, m) \/ (FanSend(m) /\ chosen[m] = d /\ IsFed(d, n))
  BY <1>1, FedOnlyBySend
<1>4. Before(c, m, n) => mpc[m] = "done" /\ m # n /\ ~Before(d, n, m)
  BY DEF OrderInv
<1>5. Before(d, n, m) => mpc[n] = "done"
  BY DEF OrderInv
<1>6. mpc[m] = "done" /\ m # n
  BY <1>2, <1>3, <1>4
<1>7. ~Before(d, n, m)'
  BY <1>2, <1>3, <1>4, <1>5
<1> QED
  BY <1>1, <1>6, <1>7, DoneStays
----------------------------------------------------------------------------
(* The theorems. *)

\* The initial state satisfies every invariant.
LEMMA InitFanInv == FanInit => FanInv
<1> SUFFICES ASSUME FanInit PROVE FanInv
  OBVIOUS
<1> USE NoneAssumption, FanoutAssumption DEF FanInit
<1>1. IInv
  BY InitIInv
<1>2. FanTypeOK /\ WriterInv
  BY DEF FanTypeOK, WriterInv
<1>3. CondemnedInv
  BY DEF CondemnedInv, Init, Anonymous, Credential
<1>4. ASSUME NEW c \in Conn PROVE Fed(c) = <<>>
  BY DEF Fed
<1>5. \A c \in Conn : \A m, n : ~IsFed(c, m) /\ ~Before(c, m, n)
  BY <1>4 DEF IsFed, Before
<1>6. PublishInv /\ AudienceInv /\ OrderInv
  BY <1>5 DEF PublishInv, AudienceInv, OrderInv, Ahead
<1> QED
  BY <1>1, <1>2, <1>3, <1>6 DEF FanInv

\* The conjunction of the invariants is inductive.
LEMMA FanInvStep == FanInv /\ [FanNext]_allVars => FanInv'
<1> SUFFICES ASSUME FanInv, [FanNext]_allVars PROVE FanInv'
  OBVIOUS
<1>1. /\ IInv /\ FanTypeOK /\ CondemnedInv /\ WriterInv /\ PublishInv /\ AudienceInv /\ OrderInv
      /\ TypeOK /\ IndexAgrees /\ VerdictInv
  BY DEF FanInv, IInv
<1>2. IInv' /\ CondemnedInv'
  BY <1>1, HubSteps, IInvStep, CondemnedStep
<1> QED
  BY <1>1, <1>2, FanTypeStep, WriterStep, PublishStep, AudienceStep, OrderStep DEF FanInv

\* The inductive invariant holds of every reachable state of the hub with its publishes.
THEOREM FanoutInvariant == FanSpec => []FanInv
BY InitFanInv, FanInvStep, PTL DEF FanSpec

\* The hub with its publishes implements the hub: every step is one of the hub, or
\* leaves the hub as it is, so every theorem of the hub holds under its publishes.
THEOREM FanoutImplementsHub == FanSpec => Spec
<1>1. FanInit => Init
  BY DEF FanInit
<1>2. FanInv /\ [FanNext]_allVars => [Next]_vars
  BY HubSteps DEF FanInv, IInv
<1> QED
  BY <1>1, <1>2, FanoutInvariant, PTL DEF FanSpec, Spec

\* Every variable of the publishes and the write pumps keeps its type.
THEOREM FanoutTypeCorrect == FanSpec => []FanTypeOK
<1>1. FanInv => FanTypeOK
  BY DEF FanInv
<1> QED
  BY <1>1, FanoutInvariant, PTL

\* Nothing published after a verdict reaches the condemned socket, at most the one
\* frame being written when it fell does, and no member-restricted payload goes to
\* a connection that no revocation could reach.
THEOREM VerdictsAreFinal == FanSpec => []VerdictIsFinal
<1>1. FanInv => VerdictIsFinal
  <2> SUFFICES ASSUME FanInv PROVE VerdictIsFinal
    OBVIOUS
  <2>1. NothingAfterTheVerdict
    BY DEF FanInv, PublishInv, Ahead, NothingAfterTheVerdict
  <2>2. AtMostOneLateFrame
    BY DEF FanInv, WriterInv, AtMostOneLateFrame
  <2>3. UnrevocableIsBroadcastOnly
    BY DEF FanInv, AudienceInv, UnrevocableIsBroadcastOnly
  <2> QED
    BY <2>1, <2>2, <2>3 DEF VerdictIsFinal
<1> QED
  BY <1>1, FanoutInvariant, PTL

\* No two clients are fed two targeted messages in different orders.
THEOREM OrdersAgree == FanSpec => []TargetedOrderAgrees
<1>1. FanInv => TargetedOrderAgrees
  BY DEF FanInv, OrderInv, TargetedOrderAgrees
<1> QED
  BY <1>1, FanoutInvariant, PTL
=============================================================================

---------------------------- MODULE LimitsProofs ----------------------------
(***************************************************************************)
(* Proofs about the limits of McpHost and LoginLimiter, for any callers,   *)
(* addresses, tokens, members, accounts and budgets.                       *)
(*                                                                         *)
(* Of the host: a limiter keeps the end of the history, in time order, so  *)
(* what it prunes to is what happened in the window (SpentInv); the slots  *)
(* taken are counted by who holds them (HeldInv); and whoever asked and is *)
(* not recorded yet is counted beside what was (TriedInv, LiveInv).        *)
(* Of the sign-ins: a window that runs counts the failures since it began  *)
(* (CountedInv), and the logins past the question are counted beside it    *)
(* (ChargedInv).                                                           *)
(***************************************************************************)
EXTENDS McpHost, LoginLimiter, FiniteSetTheorems, SequenceTheorems, TLAPS

----------------------------------------------------------------------------
(* Counting. *)

\* A set of naturals that is not empty has a least member.
LEMMA LeastMember ==
  ASSUME NEW T, T \subseteq Nat, T # {}
  PROVE  \E x \in T : \A y \in T : x <= y
<1>1. IsWellFoundedOn(OpToRel(<, Nat), Nat)
  BY NatLessThanWellFounded
<1>2. PICK x \in T : \A y \in T : ~(<<y, x>> \in OpToRel(<, Nat))
  BY <1>1, WFMin
<1>3. \A y \in T : ~(y < x)
  BY <1>2 DEF OpToRel
<1> QED
  BY <1>3

LEMMA Interval ==
  ASSUME NEW a \in Int, NEW b \in Int, a <= b + 1
  PROVE  IsFiniteSet(a..b) /\ Cardinality(a..b) = b - a + 1
<1>1. IsFiniteSet(a..b) /\ Cardinality(a..b) = IF a > b THEN 0 ELSE b - a + 1
  BY FS_Interval
<1> QED
  BY <1>1

\* Two sets that differ at one place only.
LEMMA OneMore ==
  ASSUME NEW U, IsFiniteSet(U), NEW A, A \subseteq U, NEW B, B \subseteq U, NEW c, A \ {c} = B \ {c}
  PROVE  /\ IsFiniteSet(A) /\ IsFiniteSet(B) /\ Cardinality(A) \in Nat /\ Cardinality(B) \in Nat
         /\ Cardinality(B) = Cardinality(A) + (IF c \in B THEN 1 ELSE 0) - (IF c \in A THEN 1 ELSE 0)
<1>1. IsFiniteSet(A) /\ IsFiniteSet(B)
  BY FS_Subset
<1>2. Cardinality(A) \in Nat /\ Cardinality(B) \in Nat
  BY <1>1, FS_CardinalityType
<1>3. Cardinality(A \ {c}) = IF c \in A THEN Cardinality(A) - 1 ELSE Cardinality(A)
  BY <1>1, FS_RemoveElement
<1>4. Cardinality(B \ {c}) = IF c \in B THEN Cardinality(B) - 1 ELSE Cardinality(B)
  BY <1>1, FS_RemoveElement
<1> QED
  BY <1>1, <1>2, <1>3, <1>4

----------------------------------------------------------------------------
(* Times, and how many of them are late. *)

InOrder(times) == \A m, n \in DOMAIN times : m <= n => times[m] <= times[n]

LEMMA LateAreFinite ==
  ASSUME NEW s \in Seq(Nat), NEW at \in Int
  PROVE  /\ IsFiniteSet({n \in DOMAIN s : s[n] > at})
         /\ After(s, at) \in Nat /\ After(s, at) <= Len(s) /\ Len(s) \in Nat
<1>1. DOMAIN s = 1..Len(s) /\ Len(s) \in Nat
  BY LenProperties
<1>2. IsFiniteSet(1..Len(s)) /\ Cardinality(1..Len(s)) = Len(s)
  <2>1. 1 \in Int /\ Len(s) \in Int /\ 1 <= Len(s) + 1 /\ Len(s) - 1 + 1 = Len(s)
    BY <1>1
  <2> HIDE <1>1
  <2> QED
    BY <2>1, Interval
<1>3. IsFiniteSet({n \in DOMAIN s : s[n] > at}) /\ Cardinality({n \in DOMAIN s : s[n] > at}) <= Len(s)
  BY <1>1, <1>2, FS_Subset
<1>4. Cardinality({n \in DOMAIN s : s[n] > at}) \in Nat
  BY <1>3, FS_CardinalityType
<1> QED
  BY <1>1, <1>3, <1>4 DEF After

LEMMA FewerAreLater ==
  ASSUME NEW s \in Seq(Nat), NEW at \in Int, NEW later \in Int, at <= later
  PROVE  After(s, later) <= After(s, at)
<1>1. \A n \in DOMAIN s : s[n] \in Nat
  BY LenProperties, ElementOfSeq
<1>2. {n \in DOMAIN s : s[n] > later} \subseteq {n \in DOMAIN s : s[n] > at}
  BY <1>1
<1>3. IsFiniteSet({n \in DOMAIN s : s[n] > at})
  BY LateAreFinite
<1> QED
  BY <1>2, <1>3, FS_Subset DEF After

LEMMA AfterNone ==
  ASSUME NEW s \in Seq(Nat), NEW at \in Int
  PROVE  After(s, at) = 0 <=> \A n \in DOMAIN s : s[n] <= at
<1>1. \A n \in DOMAIN s : s[n] \in Nat
  BY ElementOfSeq, LenProperties
<1>2. IsFiniteSet({n \in DOMAIN s : s[n] > at})
  BY LateAreFinite
<1>3. After(s, at) = 0 <=> {n \in DOMAIN s : s[n] > at} = {}
  BY <1>2, FS_EmptySet DEF After
<1> QED
  BY <1>1, <1>3

LEMMA AfterAppend ==
  ASSUME NEW s \in Seq(Nat), NEW x \in Nat, NEW at \in Int
  PROVE  After(Append(s, x), at) = After(s, at) + IF x > at THEN 1 ELSE 0
<1> DEFINE L == Len(s)
           S == {n \in DOMAIN s : s[n] > at}
           T == {n \in DOMAIN Append(s, x) : Append(s, x)[n] > at}
<1>1. L \in Nat /\ DOMAIN s = 1..L /\ DOMAIN Append(s, x) = 1..(L + 1) /\ Append(s, x)[L + 1] = x
      /\ \A n \in 1..L : Append(s, x)[n] = s[n]
  BY AppendProperties, LenProperties
<1>2. IsFiniteSet(S) /\ After(s, at) \in Nat
  BY LateAreFinite
<1>3. L + 1 \notin S
  BY <1>1
<1>4. After(s, at) = Cardinality(S) /\ After(Append(s, x), at) = Cardinality(T)
  BY DEF After
<1>5. T = IF x > at THEN S \cup {L + 1} ELSE S
  BY <1>1
<1> HIDE DEF S, T, L
<1>6. Cardinality(S \cup {L + 1}) = Cardinality(S) + 1
  BY <1>2, <1>3, FS_AddElement
<1> QED
  BY <1>2, <1>4, <1>5, <1>6

\* In times in order the late ones are the last ones.
LEMMA LateAreLast ==
  ASSUME NEW s \in Seq(Nat), InOrder(s), NEW at \in Int
  PROVE  \A n \in 1..Len(s) : s[n] > at <=> n > Len(s) - After(s, at)
<1> DEFINE L == Len(s)
           D == {n \in 1..L : s[n] > at}
<1>1. L \in Nat /\ DOMAIN s = 1..L /\ (\A n \in 1..L : s[n] \in Nat)
  BY LenProperties, ElementOfSeq
<1>2. After(s, at) = Cardinality(D) /\ D \subseteq 1..L
  BY <1>1 DEF After
<1>3. \A m, n \in 1..L : m <= n /\ m \in D => n \in D
  BY <1>1 DEF InOrder
<1>4. \A n \in 1..L : s[n] > at <=> n \in D
  OBVIOUS
<1> HIDE DEF D, L
<1>5. \A n \in 1..L : n \in D <=> n > L - Cardinality(D)
  <2>1. CASE D = {}
    BY <1>1, <2>1, FS_EmptySet
  <2>2. CASE D # {}
    <3>1. D \subseteq Nat
      BY <1>1, <1>2
    <3>2. PICK m \in D : \A y \in D : m <= y
      BY <2>2, <3>1, LeastMember
    <3>3. m \in 1..L /\ \A y \in D : y \in 1..L /\ m <= y
      BY <1>2, <3>2
    <3>4. \A n \in 1..L : m <= n => n \in D
      BY <1>3, <3>2, <3>3
    <3>5. D = m..L
      <4>1. D \subseteq m..L
        BY <1>1, <3>3
      <4>2. ASSUME NEW n \in m..L PROVE n \in D
        BY <1>1, <3>3, <3>4
      <4> QED
        BY <4>1, <4>2
    <3>6. Cardinality(D) = L - m + 1
      BY <1>1, <3>3, <3>5, Interval
    <3> QED
      BY <1>1, <3>3, <3>5, <3>6
  <2> QED
    BY <2>1, <2>2
<1> QED
  BY <1>2, <1>4, <1>5 DEF L

\* So what is left of the hits after the cut is neither more nor less than those late.
Latest(s, cut) == SubSeq(s, Len(s) - After(s, cut) + 1, Len(s))
LEMMA Kept ==
  ASSUME NEW s \in Seq(Nat), InOrder(s), NEW cut \in Int
  PROVE  /\ Latest(s, cut) \in Seq(Nat) /\ Len(Latest(s, cut)) = After(s, cut) /\ InOrder(Latest(s, cut))
         /\ \A n \in DOMAIN Latest(s, cut) :
              Latest(s, cut)[n] > cut /\ \E m \in DOMAIN s : Latest(s, cut)[n] = s[m]
         /\ \A at \in Int : at >= cut => After(Latest(s, cut), at) = After(s, at)
<1> DEFINE L == Len(s)
           a == After(s, cut)
           r == Latest(s, cut)
<1>1. L \in Nat /\ DOMAIN s = 1..L /\ (\A n \in 1..L : s[n] \in Nat) /\ a \in Nat /\ a <= L
  BY LenProperties, ElementOfSeq, LateAreFinite
<1>2. r \in Seq(Nat) /\ Len(r) = a /\ \A n \in 1..a : r[n] = s[L - a + n]
  <2> DEFINE i == L - a + 1
  <2>1. r = SubSeq(s, i, L)
    BY DEF Latest
  <2> HIDE DEF a, L, r
  <2>2. i \in Int /\ L \in Int /\ L - i + 1 = a /\ \A n \in i..L : s[n] \in Nat
    BY <1>1
  <2>3. /\ r \in Seq(Nat) /\ Len(r) = (IF i <= L THEN L - i + 1 ELSE 0)
        /\ \A n \in 1..(L - i + 1) : r[n] = s[i + n - 1]
    <3> HIDE DEF i
    <3>1. /\ SubSeq(s, i, L) \in Seq(Nat)
          /\ Len(SubSeq(s, i, L)) = (IF i <= L THEN L - i + 1 ELSE 0)
          /\ \A n \in 1..(L - i + 1) : SubSeq(s, i, L)[n] = s[i + n - 1]
      BY <2>2, SubSeqProperties
    <3> QED
      BY <2>1, <3>1
  <2>4. \A n \in 1..a : i + n - 1 = L - a + n
    BY <1>1
  <2>5. Len(r) = a
    BY <1>1, <2>2, <2>3
  <2> HIDE DEF i
  <2> QED
    BY <2>2, <2>3, <2>4, <2>5
<1> HIDE DEF r
<1>3. DOMAIN r = 1..a
  BY <1>2, LenProperties
<1>4. \A n \in 1..a : L - a + n \in 1..L
  <2> HIDE DEF a, L
  <2> QED
    BY <1>1
<1>5. InOrder(r)
  <2> HIDE DEF a, L
  <2> QED
    <3>1. SUFFICES ASSUME NEW m \in 1..a, NEW n \in 1..a, m <= n PROVE r[m] <= r[n]
      BY <1>3 DEF InOrder
    <3>2. L - a + m \in 1..L /\ L - a + n \in 1..L /\ L - a + m <= L - a + n
      BY <1>1, <1>4, <3>1
    <3>3. s[L - a + m] <= s[L - a + n]
      BY <1>1, <3>2 DEF InOrder
    <3> QED
      BY <1>2, <3>3
<1>6. \A n \in 1..L : s[n] > cut <=> n > L - a
  BY LateAreLast
<1>7. \A n \in 1..a : r[n] > cut /\ \E m \in DOMAIN s : r[n] = s[m]
  <2> HIDE DEF a, L
  <2> QED
    <3>1. SUFFICES ASSUME NEW n \in 1..a PROVE r[n] > cut /\ \E m \in DOMAIN s : r[n] = s[m]
      OBVIOUS
    <3>2. L - a + n \in 1..L /\ L - a + n > L - a
      BY <1>1, <1>4
    <3> QED
      BY <1>1, <1>2, <1>6, <3>2
<1>8. ASSUME NEW at \in Int, at >= cut PROVE After(r, at) = After(s, at)
  <2> DEFINE b == After(s, at)
             T == {n \in DOMAIN r : r[n] > at}
  <2>1. b \in Nat /\ b <= a
    BY <1>8, FewerAreLater, LateAreFinite
  <2>2. \A n \in 1..L : s[n] > at <=> n > L - b
    BY LateAreLast
  <2>3. After(r, at) = Cardinality(T)
    BY DEF After
  <2> HIDE DEF a, L, b
  <2>4. T = (a - b + 1)..a
    <3>1. \A n \in 1..a : r[n] > at <=> n > a - b
      <4>1. SUFFICES ASSUME NEW n \in 1..a PROVE r[n] > at <=> n > a - b
        OBVIOUS
      <4>2. L - a + n \in 1..L /\ (L - a + n > L - b <=> n > a - b)
        BY <1>1, <1>4, <2>1
      <4> QED
        BY <1>2, <2>2, <4>2
    <3>2. ASSUME NEW n \in T PROVE n \in (a - b + 1)..a
      <4>1. n \in 1..a /\ r[n] > at
        BY <1>3
      <4>2. n > a - b
        BY <3>1, <4>1
      <4> QED
        BY <1>1, <2>1, <4>1, <4>2
    <3>3. ASSUME NEW n \in (a - b + 1)..a PROVE n \in T
      <4>1. n \in 1..a /\ n > a - b
        BY <1>1, <2>1
      <4> QED
        BY <1>3, <3>1, <4>1
    <3> QED
      BY <3>2, <3>3
  <2>5. Cardinality((a - b + 1)..a) = b
    BY <1>1, <2>1, Interval
  <2> QED
    BY <2>3, <2>4, <2>5 DEF b
<1> QED
  BY <1>2, <1>3, <1>5, <1>7, <1>8 DEF r

----------------------------------------------------------------------------
(* The limiters. *)

Limiter(K) == [hits : [K -> Seq(Nat)], swept : Int]
Timely(l) ==
  \A k \in DOMAIN l.hits : InOrder(l.hits[k]) /\ \A n \in DOMAIN l.hits[k] : l.hits[k][n] <= minute

\* No hit still in the window is lost to a key that asks, and none is added.
LEMMA PrunedKeeps ==
  ASSUME HostConstants, minute \in Nat, NEW K, NEW l \in Limiter(K), Timely(l), NEW k \in K
  PROVE  /\ Pruned(l, k) \in Limiter(K) /\ Timely(Pruned(l, k))
         /\ Len(Pruned(l, k).hits[k]) = After(l.hits[k], minute - Window) /\ Recent(l, k) = Pruned(l, k).hits[k]
         /\ \A j \in K : /\ Len(Pruned(l, k).hits[j]) <= Len(l.hits[j])
                         /\ \A at \in Int : at >= minute - Window =>
                              After(Pruned(l, k).hits[j], at) = After(l.hits[j], at)
<1> DEFINE p == Pruned(l, k)
           r == Recent(l, k)
           cut == minute - Window
<1>1. /\ l.hits \in [K -> Seq(Nat)] /\ l.hits[k] \in Seq(Nat) /\ InOrder(l.hits[k]) /\ cut \in Int
      /\ \A n \in DOMAIN l.hits[k] : l.hits[k][n] <= minute
  BY DEF Limiter, Timely, HostConstants
<1>2. /\ r \in Seq(Nat) /\ Len(r) = After(l.hits[k], cut) /\ InOrder(r)
      /\ \A n \in DOMAIN r : r[n] > cut /\ \E m \in DOMAIN l.hits[k] : r[n] = l.hits[k][m]
      /\ \A at \in Int : at >= cut => After(r, at) = After(l.hits[k], at)
  <2> DEFINE s == l.hits[k]
  <2>1. r = Latest(s, cut)
    BY DEF Recent, Latest
  <2>2. s \in Seq(Nat) /\ InOrder(s) /\ cut \in Int
    BY <1>1
  <2> HIDE DEF r, cut, s, p
  <2>3. /\ r \in Seq(Nat) /\ Len(r) = After(s, cut) /\ InOrder(r)
        /\ \A n \in DOMAIN r : r[n] > cut /\ \E m \in DOMAIN s : r[n] = s[m]
        /\ \A at \in Int : at >= cut => After(r, at) = After(s, at)
    BY <2>1, <2>2, Kept
  <2> QED
    BY <2>3 DEF s
<1>3. p \in Limiter(K) /\ p.hits[k] = r /\ (\A j \in K \ {k} : p.hits[j] = l.hits[j]) /\ DOMAIN p.hits = K
  <2> HIDE DEF r
  <2>1. p = [l EXCEPT !.hits[k] = r]
    BY DEF Pruned, r
  <2> HIDE DEF p
  <2> QED
    BY <1>1, <1>2, <2>1 DEF Limiter
<1>4. Len(r) <= Len(l.hits[k])
  BY <1>1, <1>2, LateAreFinite
<1>5. \A n \in DOMAIN r : r[n] <= minute
  <2> HIDE DEF r
  <2> QED
    BY <1>1, <1>2
<1>6. \A j \in K : l.hits[j] \in Seq(Nat) /\ Len(l.hits[j]) \in Nat /\ DOMAIN l.hits = K
  BY <1>1, LenProperties
<1> HIDE DEF p, r
<1>7. Timely(p)
  BY <1>1, <1>2, <1>3, <1>5, <1>6 DEF Timely
<1>8. ASSUME NEW j \in K PROVE Len(p.hits[j]) <= Len(l.hits[j])
                              /\ \A at \in Int : at >= cut => After(p.hits[j], at) = After(l.hits[j], at)
  <2>1. CASE j = k
    BY <1>2, <1>3, <1>4, <2>1
  <2>2. CASE j # k
    <3>1. p.hits[j] = l.hits[j] /\ Len(l.hits[j]) <= Len(l.hits[j])
      BY <1>3, <1>6, <2>2
    <3> QED
      BY <3>1
  <2> QED
    BY <2>1, <2>2
<1> QED
  BY <1>2, <1>3, <1>7, <1>8 DEF p, r

\* A sweep forgets a key with no hit left in the window, and no other.
LEMMA SweptKeeps ==
  ASSUME HostConstants, minute \in Nat, NEW K, NEW l \in Limiter(K), Timely(l)
  PROVE  /\ Swept(l) \in Limiter(K) /\ Timely(Swept(l))
         /\ \A j \in K : \/ Swept(l).hits[j] = l.hits[j]
                         \/ Swept(l).hits[j] = <<>> /\ After(l.hits[j], minute - Window) = 0
<1> DEFINE cut == minute - Window
           Stays(k) == \E n \in DOMAIN l.hits[k] : n = Len(l.hits[k]) /\ l.hits[k][n] > cut
           q == [swept |-> minute, hits |-> [k \in DOMAIN l.hits |-> IF Stays(k) THEN l.hits[k] ELSE <<>>]]
<1>1. Swept(l) = l \/ Swept(l) = q
  BY DEF Swept
<1>2. l.hits \in [K -> Seq(Nat)] /\ DOMAIN l.hits = K /\ cut \in Int /\ cut < minute
  BY DEF Limiter, HostConstants
<1>3. <<>> \in Seq(Nat) /\ DOMAIN <<>> = {}
  BY EmptySeq
<1>4. ASSUME NEW j \in K PROVE q.hits[j] = l.hits[j] \/ (q.hits[j] = <<>> /\ ~Stays(j))
  <2>1. q.hits[j] = IF Stays(j) THEN l.hits[j] ELSE <<>>
    BY <1>2
  <2> HIDE DEF Stays, q
  <2> QED
    BY <2>1
<1>5. ASSUME NEW j \in K, ~Stays(j) PROVE After(l.hits[j], cut) = 0
  <2>1. l.hits[j] \in Seq(Nat) /\ DOMAIN l.hits[j] = 1..Len(l.hits[j]) /\ Len(l.hits[j]) \in Nat /\ InOrder(l.hits[j])
    BY <1>2, LenProperties DEF Timely
  <2>2. \A n \in DOMAIN l.hits[j] : l.hits[j][n] \in Nat
    BY <2>1, ElementOfSeq
  <2>3. \A n \in DOMAIN l.hits[j] : Len(l.hits[j]) \in DOMAIN l.hits[j] /\ n <= Len(l.hits[j])
    BY <2>1
  <2>4. \A n \in DOMAIN l.hits[j] : l.hits[j][n] <= l.hits[j][Len(l.hits[j])] /\ l.hits[j][Len(l.hits[j])] <= cut
    BY <1>2, <1>5, <2>1, <2>2, <2>3 DEF InOrder
  <2>5. \A n \in DOMAIN l.hits[j] : l.hits[j][n] <= cut
    BY <1>2, <2>2, <2>3, <2>4
  <2> HIDE DEF cut
  <2> QED
    BY <1>2, <2>1, <2>5, AfterNone
<1>6. q \in Limiter(K) /\ DOMAIN q.hits = K
  BY <1>2, <1>3 DEF Limiter
<1>7. \A j \in K : InOrder(<<>>)
  BY <1>3 DEF InOrder
<1> HIDE DEF q
<1>8. Timely(q)
  BY <1>2, <1>3, <1>4, <1>6, <1>7 DEF Timely
<1> QED
  BY <1>1, <1>4, <1>5, <1>6, <1>8

\* A hit is added to its key, and no other hit in the window is lost.
LEMMA RecordedAdds ==
  ASSUME HostConstants, minute \in Nat, NEW K, NEW l \in Limiter(K), Timely(l), NEW k \in K
  PROVE  /\ Recorded(l, k) \in Limiter(K) /\ Timely(Recorded(l, k))
         /\ Len(Recorded(l, k).hits[k]) <= After(l.hits[k], minute - Window) + 1
         /\ \A j \in K \ {k} : Len(Recorded(l, k).hits[j]) <= Len(l.hits[j])
         /\ \A j \in K, at \in Int : at >= minute - Window =>
              After(Recorded(l, k).hits[j], at) = After(l.hits[j], at) + (IF j = k /\ minute > at THEN 1 ELSE 0)
<1> DEFINE r == Recent(l, k)
           s == Append(r, minute)
           m == [l EXCEPT !.hits[k] = s]
           q == Recorded(l, k)
           cut == minute - Window
<1>1. /\ r \in Seq(Nat) /\ Len(r) = After(l.hits[k], cut) /\ InOrder(r)
      /\ \A n \in DOMAIN r : r[n] <= minute
      /\ \A at \in Int : at >= cut => After(r, at) = After(l.hits[k], at)
  <2>1. Pruned(l, k) \in Limiter(K) /\ Pruned(l, k).hits[k] = r /\ Timely(Pruned(l, k))
        /\ Len(r) = After(l.hits[k], cut)
        /\ \A at \in Int : at >= cut => After(r, at) = After(l.hits[k], at)
    BY PrunedKeeps
  <2> HIDE DEF r, cut
  <2>2. DOMAIN Pruned(l, k).hits = K /\ Pruned(l, k).hits[k] \in Seq(Nat)
    BY <2>1 DEF Limiter
  <2> QED
    BY <2>1, <2>2 DEF Timely
<1>2. l.hits \in [K -> Seq(Nat)] /\ DOMAIN l.hits = K /\ cut \in Int /\ cut < minute
  BY DEF Limiter, HostConstants
<1>3. \A j \in K : l.hits[j] \in Seq(Nat) /\ Len(l.hits[j]) \in Nat
  BY <1>2, LenProperties
<1> HIDE DEF r
<1>4. /\ s \in Seq(Nat) /\ Len(s) = Len(r) + 1 /\ DOMAIN s = 1..(Len(r) + 1) /\ s[Len(r) + 1] = minute
      /\ DOMAIN r = 1..Len(r) /\ Len(r) \in Nat
      /\ \A n \in 1..Len(r) : s[n] = r[n]
  BY <1>1, AppendProperties, LenProperties
<1>5. \A at \in Int : at >= cut => After(s, at) = After(l.hits[k], at) + IF minute > at THEN 1 ELSE 0
  BY <1>1, AfterAppend
<1> HIDE DEF s, cut
<1>6. InOrder(s) /\ \A n \in DOMAIN s : s[n] <= minute
  <2>1. \A n \in DOMAIN s : n = Len(r) + 1 \/ n \in 1..Len(r)
    BY <1>4
  <2>2. \A n \in DOMAIN s : s[n] <= minute
    BY <1>1, <1>4, <2>1
  <2>3. ASSUME NEW a \in DOMAIN s, NEW b \in DOMAIN s, a <= b PROVE s[a] <= s[b]
    <3>1. CASE b = Len(r) + 1
      BY <1>4, <2>2, <3>1
    <3>2. CASE b \in 1..Len(r)
      <4>1. a \in 1..Len(r)
        BY <1>4, <2>1, <2>3, <3>2
      <4> QED
        BY <1>1, <1>4, <2>3, <3>2, <4>1 DEF InOrder
    <3> QED
      BY <2>1, <3>1, <3>2
  <2> QED
    BY <2>2, <2>3 DEF InOrder
<1>7. m \in Limiter(K) /\ m.hits[k] = s /\ (\A j \in K \ {k} : m.hits[j] = l.hits[j]) /\ DOMAIN m.hits = K
  BY <1>2, <1>4 DEF Limiter
<1>8. q = Swept(m)
  BY DEF Recorded, r, s
<1> HIDE DEF m, q
<1>9. Timely(m)
  BY <1>2, <1>6, <1>7 DEF Timely
<1>10. /\ q \in Limiter(K) /\ Timely(q)
       /\ \A j \in K : q.hits[j] = m.hits[j] \/ (q.hits[j] = <<>> /\ After(m.hits[j], cut) = 0)
  <2>1. /\ Swept(m) \in Limiter(K) /\ Timely(Swept(m))
        /\ \A j \in K : \/ Swept(m).hits[j] = m.hits[j]
                        \/ Swept(m).hits[j] = <<>> /\ After(m.hits[j], minute - Window) = 0
    BY <1>7, <1>9, SweptKeeps
  <2> QED
    BY <1>8, <2>1 DEF cut
<1>11. Len(<<>>) = 0 /\ <<>> \in Seq(Nat) /\ DOMAIN <<>> = {}
  BY EmptySeq
<1>12. \A at \in Int : After(<<>>, at) = 0
  BY <1>11, AfterNone
<1>13. ASSUME NEW j \in K PROVE Len(q.hits[j]) <= Len(m.hits[j])
                              /\ \A at \in Int : at >= cut => After(q.hits[j], at) = After(m.hits[j], at)
  <2>1. m.hits[j] \in Seq(Nat) /\ Len(m.hits[j]) \in Nat
    BY <1>3, <1>4, <1>7
  <2>2. ASSUME After(m.hits[j], cut) = 0, NEW at \in Int, at >= cut PROVE After(m.hits[j], at) = 0
    <3> DEFINE t == m.hits[j]
    <3>1. t \in Seq(Nat)
      BY <2>1
    <3> HIDE DEF t
    <3>2. After(t, at) <= After(t, cut) /\ After(t, at) \in Nat
      BY <1>2, <2>2, <3>1, FewerAreLater, LateAreFinite
    <3> QED
      BY <2>2, <3>2 DEF t
  <2> QED
    BY <1>10, <1>11, <1>12, <2>1, <2>2
<1>14. Len(q.hits[k]) <= After(l.hits[k], cut) + 1
  BY <1>1, <1>4, <1>7, <1>13
<1>15. \A j \in K \ {k} : Len(q.hits[j]) <= Len(l.hits[j])
  BY <1>7, <1>13
<1>16. ASSUME NEW j \in K, NEW at \in Int, at >= cut
       PROVE  After(q.hits[j], at) = After(l.hits[j], at) + (IF j = k /\ minute > at THEN 1 ELSE 0)
  <2>1. After(l.hits[j], at) \in Nat
    BY <1>3, LateAreFinite
  <2> QED
    BY <1>5, <1>7, <1>13, <1>16, <2>1
<1> QED
  BY <1>10, <1>14, <1>15, <1>16 DEF q, cut

----------------------------------------------------------------------------
(* The host's invariant. *)

Bearers == Token \cup {a[1] : a \in Asked}
Wanted == {a[2] : a \in Asked}
Ranks == {"viewer", "editor", "admin", "closed", None}
Late == {"identifying", "identified", "unresolved", "resolved", "waiting", "running", "working"}
Unread == [pc : {"looking", "unresolved"}, ip : Ip, bearer : Bearers, ask : Wanted, now : Nat]
Resolved == [pc : Late, ip : Ip, bearer : Token, ask : Wanted, now : Nat, tok : TokenRow, role : Ranks]
Minting == [pc : {"minting"}, user : Member, now : Nat]
Patching == [pc : {"patching"}, bearer : Token, modules : SUBSET Module]
Revoking == [pc : {"revoking"}, bearer : Token]
Request == Unread \cup Resolved \cup Minting \cup Patching \cup Revoking \cup {Done}

HostTypeInv ==
  /\ minute \in Nat /\ rows \in [Token -> TokenRow \cup {None}]
  /\ role \in [Member -> Ranks] /\ known \in [Member -> Ranks]
  /\ calls \in Limiter(Token) /\ anon \in Limiter(Ip) /\ fails \in Limiter(Ip)
  /\ held \in [Token -> Int] /\ req \in [Poster -> Request]
  /\ spent \in [Token \cup Ip -> Seq(Nat)]

\* A row is never deleted, so a request that has read it writes to a row there is.
RowsStay ==
  \A c \in Poster : req[c].pc \in {"identifying", "identified", "patching", "revoking"} => rows[req[c].bearer] # None

\* The limiters hold what was spent, and a token's no more than its budget.
SpentInv ==
  /\ Timely(calls) /\ Timely(anon) /\ Timely(fails)
  /\ \A t \in Token : /\ Len(calls.hits[t]) <= Rate
                      /\ \A at \in Int : at >= minute - Window => After(spent[t], at) <= After(calls.hits[t], at)
  /\ \A ip \in Ip, at \in Int : at >= minute - Window => After(spent[ip], at) <= After(fails.hits[ip], at)

Holders(t) == {c \in Poster : Holds(c) /\ req[c].bearer = t}
HeldInv == \A t \in Token : held[t] = Cardinality(Holders(t)) /\ held[t] <= Width

Triers(ip) == {c \in Poster : Tried(c, ip)}
TriedInv == \A ip \in Ip : SpentIn(ip) + Cardinality(Triers(ip)) < Rate + Cardinality(Poster)

LiveOnes(u) == {t \in Token : TokenAlive(t, minute) /\ rows[t].user = u}
Minters(u) == {c \in Poster : At(c, "minting") /\ req[c].user = u}
LiveInv == \A u \in Member : CountLive(u, minute) + Cardinality(Minters(u)) < MaxTokens + Cardinality(Poster)

HostInv == HostTypeInv /\ RowsStay /\ SpentInv /\ HeldInv /\ TriedInv /\ LiveInv

----------------------------------------------------------------------------
(* Requests. *)

LEMMA RequestShapes ==
  ASSUME NEW r \in Request
  PROVE  /\ r.pc \in Late \cup {"looking", "minting", "patching", "revoking", "done"}
         /\ r.pc = "looking" => r \in Unread
         /\ r.pc = "unresolved" => r \in Unread \cup Resolved
         /\ r.pc \in Late \ {"unresolved"} => r \in Resolved
         /\ r.pc = "minting" => r \in Minting
         /\ r.pc = "patching" => r \in Patching
         /\ r.pc = "revoking" => r \in Revoking
         /\ r.pc = "done" => r = Done
<1>1. CASE r \in Unread
  BY <1>1 DEF Unread, Late
<1>2. CASE r \in Resolved
  BY <1>2 DEF Resolved, Late
<1>3. CASE r \in Minting \cup Patching \cup Revoking \cup {Done}
  BY <1>3 DEF Minting, Patching, Revoking, Done, Late
<1> QED
  BY <1>1, <1>2, <1>3 DEF Request

\* A request's next state, and the others'.
LEMMA NewRequest ==
  ASSUME req \in [Poster -> Request], NEW c \in Poster, NEW r \in Request, Goes(c, r)
  PROVE  req' \in [Poster -> Request] /\ req'[c] = r /\ \A d \in Poster \ {c} : req'[d] = req[d]
BY DEF Goes

\* A request that resolved its bearer goes on.
LEMMA Onwards ==
  ASSUME NEW r \in Resolved, NEW pc \in Late
  PROVE  /\ [r EXCEPT !.pc = pc] \in Resolved /\ [r EXCEPT !.pc = pc].pc = pc
         /\ [r EXCEPT !.pc = pc].bearer = r.bearer /\ [r EXCEPT !.pc = pc].ip = r.ip
BY DEF Resolved

\* A row that is written stays a row of the same member, no longer alive than before.
SameRows(new) ==
  /\ new \in [Token -> TokenRow \cup {None}]
  /\ \A t \in Token : /\ rows[t] # None <=> new[t] # None
                      /\ rows[t] # None => /\ new[t].user = rows[t].user /\ new[t].expires = rows[t].expires
                                           /\ rows[t].revoked => new[t].revoked

LEMMA RowWrites ==
  ASSUME HostConstants, HostTypeInv, NEW t \in Token, rows[t] # None
  PROVE  /\ SameRows(rows) /\ SameRows(Withdrawn(t))
         /\ \A at \in Nat : SameRows([rows EXCEPT ![t].used = at])
         /\ \A m \in SUBSET Module : SameRows([rows EXCEPT ![t].modules = m])
<1>1. rows \in [Token -> TokenRow \cup {None}] /\ rows[t] \in TokenRow /\ None \notin TokenRow
  BY DEF HostTypeInv, HostConstants
<1>2. ASSUME NEW r \in TokenRow, r.user = rows[t].user, r.expires = rows[t].expires, rows[t].revoked => r.revoked,
             NEW new, new = [rows EXCEPT ![t] = r]
      PROVE  SameRows(new)
  BY <1>1, <1>2 DEF SameRows
<1>3. [rows[t] EXCEPT !.revoked = TRUE] \in TokenRow /\ [rows[t] EXCEPT !.revoked = TRUE].user = rows[t].user
      /\ [rows[t] EXCEPT !.revoked = TRUE].expires = rows[t].expires /\ [rows[t] EXCEPT !.revoked = TRUE].revoked
  BY <1>1 DEF TokenRow
<1>4. ASSUME NEW at \in Nat
      PROVE  [rows[t] EXCEPT !.used = at] \in TokenRow /\ [rows[t] EXCEPT !.used = at].user = rows[t].user
             /\ [rows[t] EXCEPT !.used = at].expires = rows[t].expires
             /\ [rows[t] EXCEPT !.used = at].revoked = rows[t].revoked
  BY <1>1 DEF TokenRow
<1>5. ASSUME NEW m \in SUBSET Module
      PROVE  [rows[t] EXCEPT !.modules = m] \in TokenRow /\ [rows[t] EXCEPT !.modules = m].user = rows[t].user
             /\ [rows[t] EXCEPT !.modules = m].expires = rows[t].expires
             /\ [rows[t] EXCEPT !.modules = m].revoked = rows[t].revoked
  BY <1>1 DEF TokenRow
<1>6. SameRows(rows)
  BY <1>1 DEF SameRows
<1>7. SameRows(Withdrawn(t))
  BY <1>2, <1>3 DEF Withdrawn
<1>8. ASSUME NEW at \in Nat PROVE SameRows([rows EXCEPT ![t].used = at])
  BY <1>2, <1>4
<1>9. ASSUME NEW m \in SUBSET Module PROVE SameRows([rows EXCEPT ![t].modules = m])
  BY <1>2, <1>5
<1> QED
  BY <1>6, <1>7, <1>8, <1>9

\* Nothing of the types is disturbed by a request that goes on over rows written as above.
LEMMA TypeKept ==
  ASSUME HostConstants, HostTypeInv, RowsStay, NEW c \in Poster, NEW r \in Request, Goes(c, r), SameRows(rows'),
         r.pc \in {"identifying", "identified", "patching", "revoking"} => rows[r.bearer] # None,
         r.pc \in {"identifying", "identified", "patching", "revoking"} => r.bearer \in Token,
         minute' = minute, role' = role, known' \in [Member -> Ranks], calls' \in Limiter(Token), anon' \in Limiter(Ip),
         fails' \in Limiter(Ip), held' \in [Token -> Int], spent' \in [Token \cup Ip -> Seq(Nat)]
  PROVE  HostTypeInv' /\ RowsStay'
<1>1. req' \in [Poster -> Request] /\ req'[c] = r /\ \A d \in Poster \ {c} : req'[d] = req[d]
  BY NewRequest DEF HostTypeInv
<1>2. HostTypeInv'
  BY <1>1 DEF HostTypeInv, SameRows
<1>3. ASSUME NEW d \in Poster, req'[d].pc \in {"identifying", "identified", "patching", "revoking"}
      PROVE  rows'[req'[d].bearer] # None
  <2>1. CASE d = c
    BY <1>1, <1>3, <2>1 DEF SameRows
  <2>2. CASE d # c
    <3>1. req'[d] = req[d] /\ req[d] \in Request /\ rows[req[d].bearer] # None
      BY <1>1, <1>3, <2>2 DEF RowsStay, HostTypeInv
    <3>2. req[d].bearer \in Token
      BY <1>3, <3>1, RequestShapes DEF Late, Resolved, Patching, Revoking
    <3> QED
      BY <3>1, <3>2 DEF SameRows
  <2> QED
    BY <2>1, <2>2
<1> QED
  BY <1>2, <1>3 DEF RowsStay

LEMMA TypeStep ==
  ASSUME HostConstants, HostTypeInv, RowsStay, Timely(calls), Timely(anon), Timely(fails), HostNext
  PROVE  HostTypeInv' /\ RowsStay'
<1> DEFINE Quiet == /\ minute' = minute /\ role' = role /\ known' \in [Member -> Ranks] /\ calls' \in Limiter(Token)
                    /\ anon' \in Limiter(Ip) /\ fails' \in Limiter(Ip) /\ held' \in [Token -> Int]
                    /\ spent' \in [Token \cup Ip -> Seq(Nat)]
<1>0. /\ minute \in Nat /\ rows \in [Token -> TokenRow \cup {None}] /\ req \in [Poster -> Request]
      /\ role \in [Member -> Ranks] /\ known \in [Member -> Ranks] /\ None \notin TokenRow /\ SameRows(rows)
      /\ \A k \in Token \cup Ip : spent[k] \in Seq(Nat) /\ Append(spent[k], minute) \in Seq(Nat)
  BY AppendProperties DEF HostTypeInv, HostConstants, SameRows
<1>01. Done \in Request /\ Done.pc = "done"
  BY DEF Request, Done
<1>1. CASE MinutePasses
  BY <1>0, <1>1 DEF MinutePasses, HostTypeInv, RowsStay
<1>2. CASE \E u \in Member : RoleChanges(u) \/ LogsIn(u)
  BY <1>0, <1>2 DEF RoleChanges, LogsIn, HostTypeInv, RowsStay, Ranks
<1>3. ASSUME NEW c \in Poster, NEW ip \in Ip, NEW a \in Asked, Arrives(c, ip, a[1], a[2]) PROVE HostTypeInv' /\ RowsStay'
  <2>1. /\ Allowed(anon, ip) \in Limiter(Ip) /\ Pruned(fails, ip) \in Limiter(Ip)
    BY <1>0, PrunedKeeps, RecordedAdds DEF Allowed, HostTypeInv
  <2>2. CASE a[1] # None \/ a[2] # "initialize"
    <3> DEFINE r == IF a[1] # None /\ Spent(fails, ip) THEN Done
                    ELSE [pc |-> IF a[1] = None THEN "unresolved" ELSE "looking",
                          ip |-> ip, bearer |-> a[1], ask |-> a[2], now |-> minute]
    <3>1. Goes(c, r) /\ rows' = rows /\ Quiet
      BY <1>3, <2>1, <2>2 DEF Arrives, World, HostTypeInv
    <3>2. r \in Request /\ r.pc \in {"done", "unresolved", "looking"}
      BY <1>0, <1>01 DEF Request, Unread, Bearers, Wanted
    <3> QED
      BY <1>0, <3>1, <3>2, TypeKept
  <2>3. CASE ~(a[1] # None \/ a[2] # "initialize")
    BY <1>3, <2>1, <2>3 DEF Arrives, World, HostTypeInv, RowsStay
  <2> QED
    BY <2>2, <2>3
<1>4. ASSUME NEW c \in Poster, LooksUp(c) PROVE HostTypeInv' /\ RowsStay'
  <2>1. req[c] \in Unread
    BY <1>0, <1>4, RequestShapes DEF LooksUp, At
  <2>2. rows' = rows /\ Quiet
    BY <1>4 DEF LooksUp, World, HostTypeInv
  <2>3. CASE req[c].bearer \in Token /\ TokenAlive(req[c].bearer, req[c].now)
    <3> DEFINE r == [pc |-> "identifying", ip |-> req[c].ip, ask |-> req[c].ask, now |-> req[c].now,
                     bearer |-> req[c].bearer, tok |-> rows[req[c].bearer], role |-> None]
    <3>1. Goes(c, r) /\ rows[req[c].bearer] # None
      BY <1>4, <2>3 DEF LooksUp, TokenAlive
    <3>2. r \in Resolved /\ r.bearer \in Token /\ rows[r.bearer] # None
      BY <1>0, <2>1, <2>3, <3>1 DEF Resolved, Unread, Late, Ranks
    <3> QED
      BY <1>0, <2>2, <3>1, <3>2, TypeKept DEF Request
  <2>4. CASE ~(req[c].bearer \in Token /\ TokenAlive(req[c].bearer, req[c].now))
    <3> DEFINE r == [req[c] EXCEPT !.pc = "unresolved"]
    <3>1. Goes(c, r) /\ r \in Unread /\ r.pc = "unresolved"
      BY <1>4, <2>1, <2>4 DEF LooksUp, To, Unread
    <3> QED
      BY <1>0, <2>2, <3>1, TypeKept DEF Request
  <2> QED
    BY <2>3, <2>4
\* An action that ends the request, and writes at most its row.
<1>5. ASSUME NEW c \in Poster, Ends(c), SameRows(rows'), Quiet PROVE HostTypeInv' /\ RowsStay'
  BY <1>01, <1>5, TypeKept DEF Ends
<1>6. ASSUME NEW c \in Poster, LookupFails(c) \/ HangsUp(c) PROVE HostTypeInv' /\ RowsStay'
  BY <1>0, <1>5, <1>6 DEF LookupFails, HangsUp, World, HostTypeInv
<1>7. ASSUME NEW c \in Poster, req[c] \in Resolved, NEW pc \in Late, To(c, pc), SameRows(rows'), Quiet,
             pc \in {"identifying", "identified"} => rows[req[c].bearer] # None
      PROVE  HostTypeInv' /\ RowsStay'
  <2> DEFINE r == [req[c] EXCEPT !.pc = pc]
  <2>1. r \in Resolved /\ r.pc = pc /\ r.bearer = req[c].bearer /\ r.bearer \in Token
    BY <1>7, Onwards DEF Resolved
  <2>2. r \in Request /\ Goes(c, r)
    BY <1>7, <2>1 DEF Request, To
  <2>3. pc \notin {"patching", "revoking"}
    BY DEF Late
  <2> QED
    BY <1>7, <2>1, <2>2, <2>3, TypeKept
<1>8. ASSUME NEW c \in Poster, Remembers(c) \/ Asks(c) PROVE HostTypeInv' /\ RowsStay'
  <2>1. req[c] \in Resolved /\ rows[req[c].bearer] # None /\ req[c].bearer \in Token /\ req[c].tok.user \in Member
    BY <1>0, <1>8, RequestShapes DEF Remembers, Asks, At, RowsStay, Late, Resolved, TokenRow
  <2>2. rows' = rows /\ Quiet
    BY <1>0, <1>8, <2>1 DEF Remembers, Asks, World, HostTypeInv
  <2>3. CASE To(c, "unresolved")
    BY <1>0, <1>7, <2>1, <2>2, <2>3 DEF Late
  <2>4. ASSUME NEW as \in Ranks, Identified(c, as) PROVE HostTypeInv' /\ RowsStay'
    <3> DEFINE r == [req[c] EXCEPT !.pc = "identified", !.role = as]
    <3>1. r \in Resolved /\ r.bearer = req[c].bearer /\ Goes(c, r)
      BY <2>1, <2>4 DEF Resolved, Late, Identified
    <3> QED
      BY <1>0, <2>1, <2>2, <3>1, TypeKept DEF Request
  <2> QED
    BY <1>0, <1>8, <2>1, <2>3, <2>4 DEF Remembers, Asks
<1>9. ASSUME NEW c \in Poster, FoundClosed(c) PROVE HostTypeInv' /\ RowsStay'
  <2>1. req[c] \in Resolved /\ rows[req[c].bearer] # None /\ req[c].bearer \in Token
    BY <1>0, <1>9, RequestShapes DEF FoundClosed, At, RowsStay, Late, Resolved
  <2>2. SameRows(rows') /\ Quiet /\ To(c, "unresolved")
    BY <1>0, <1>9, <2>1, RowWrites DEF FoundClosed, World, HostTypeInv
  <2> QED
    BY <1>7, <2>1, <2>2 DEF Late
<1>10. ASSUME NEW c \in Poster, Touches(c) PROVE HostTypeInv' /\ RowsStay'
  <2>1. req[c] \in Resolved /\ rows[req[c].bearer] # None /\ req[c].bearer \in Token /\ req[c].now \in Nat
    BY <1>0, <1>10, RequestShapes DEF Touches, At, RowsStay, Late, Resolved
  <2>2. rows' = rows \/ rows' = [rows EXCEPT ![req[c].bearer].used = req[c].now]
    BY <1>10 DEF Touches
  <2>3. SameRows(rows')
    BY <2>1, <2>2, RowWrites
  <2>4. Quiet /\ To(c, "resolved")
    BY <1>0, <1>10 DEF Touches, World, HostTypeInv
  <2> QED
    BY <1>7, <2>1, <2>3, <2>4 DEF Late
<1>11. ASSUME NEW c \in Poster, Refused(c) PROVE HostTypeInv' /\ RowsStay'
  <2>1. req[c].ip \in Ip
    BY <1>0, <1>11, RequestShapes DEF Refused, At, Unread, Resolved
  <2>2. Recorded(fails, req[c].ip) \in Limiter(Ip)
    BY <1>0, <2>1, RecordedAdds DEF HostTypeInv
  <2>3. spent' \in [Token \cup Ip -> Seq(Nat)]
    BY <1>0, <1>11, <2>1 DEF Refused, Charge, HostTypeInv
  <2> QED
    BY <1>0, <1>5, <1>11, <2>2, <2>3 DEF Refused, World, HostTypeInv
<1>12. ASSUME NEW c \in Poster, Admits(c) PROVE HostTypeInv' /\ RowsStay'
  <2>1. req[c] \in Resolved /\ req[c].bearer \in Token
    BY <1>0, <1>12, RequestShapes DEF Admits, At, Late, Resolved
  <2>2. Allowed(calls, req[c].bearer) \in Limiter(Token)
    BY <1>0, <2>1, PrunedKeeps, RecordedAdds DEF Allowed, HostTypeInv
  <2>3. spent' \in [Token \cup Ip -> Seq(Nat)]
    BY <1>0, <1>12, <2>1 DEF Admits, Charge, HostTypeInv
  <2>4. SameRows(rows') /\ Quiet
    BY <1>0, <1>12, <2>2, <2>3 DEF Admits, World, HostTypeInv
  <2>5. Ends(c) \/ To(c, "waiting")
    BY <1>12 DEF Admits
  <2> QED
    BY <1>5, <1>7, <2>1, <2>4, <2>5 DEF Late
<1>13. ASSUME NEW c \in Poster, Acquires(c) \/ Starts(c) PROVE HostTypeInv' /\ RowsStay'
  <2>1. req[c] \in Resolved /\ req[c].bearer \in Token
    BY <1>0, <1>13, RequestShapes DEF Acquires, Starts, At, Late, Resolved
  <2>2. SameRows(rows') /\ Quiet
    BY <1>0, <1>13, <2>1 DEF Acquires, Starts, World, HostTypeInv
  <2>3. To(c, "running") \/ To(c, "working")
    BY <1>13 DEF Acquires, Starts
  <2> QED
    BY <1>7, <2>1, <2>2, <2>3 DEF Late
<1>14. ASSUME NEW c \in Poster, Answers(c) PROVE HostTypeInv' /\ RowsStay'
  <2>1. req[c].bearer \in Token
    BY <1>0, <1>14, RequestShapes DEF Answers, Holds, Late, Resolved
  <2>2. SameRows(rows') /\ Quiet /\ Ends(c)
    BY <1>0, <1>14, <2>1 DEF Answers, World, HostTypeInv
  <2> QED
    BY <1>5, <2>2
<1>15. ASSUME NEW c \in Poster, NEW u \in Member, MintBegins(c, u) PROVE HostTypeInv' /\ RowsStay'
  <2> DEFINE r == [pc |-> "minting", user |-> u, now |-> minute]
  <2>1. r \in Request /\ Goes(c, r) /\ SameRows(rows') /\ Quiet
    BY <1>0, <1>15 DEF MintBegins, Request, Minting, World, HostTypeInv
  <2> QED
    BY <2>1, TypeKept
<1>16. ASSUME NEW c \in Poster, NEW t \in Token, NEW m \in SUBSET Module, NEW life \in Lives \cup {None},
              MintCommits(c, t, m, life)
       PROVE  HostTypeInv' /\ RowsStay'
  <2> DEFINE row == [user |-> req[c].user, modules |-> m, revoked |-> FALSE, used |-> None,
                     expires |-> IF life = None THEN NoExpiry ELSE req[c].now + life]
  <2>1. req[c].user \in Member /\ req[c].now \in Nat
    BY <1>0, <1>16, RequestShapes DEF MintCommits, At, Minting
  <2>2. (IF life = None THEN NoExpiry ELSE req[c].now + life) \in Nat
    <3>1. MaxMinute \in Nat /\ Lives \subseteq Nat
      BY DEF HostConstants
    <3>2. CASE life = None
      BY <3>1, <3>2 DEF NoExpiry
    <3>3. CASE life # None
      BY <2>1, <3>1, <3>3
    <3> QED
      BY <3>2, <3>3
  <2>3. row \in TokenRow
    BY <2>1, <2>2 DEF TokenRow
  <2>4. rows' = [rows EXCEPT ![t] = row] /\ Goes(c, Done) /\ Quiet
    BY <1>0, <1>16 DEF MintCommits, Ends, World, HostTypeInv
  <2>5. req' \in [Poster -> Request] /\ req'[c] = Done /\ \A d \in Poster \ {c} : req'[d] = req[d]
    BY <1>0, <1>01, <2>4, NewRequest
  <2> HIDE DEF row
  <2>6. rows' \in [Token -> TokenRow \cup {None}] /\ \A x \in Token : rows[x] # None => rows'[x] # None
    BY <1>0, <2>3, <2>4
  <2>7. HostTypeInv'
    BY <1>0, <2>4, <2>5, <2>6 DEF HostTypeInv
  <2>8. ASSUME NEW d \in Poster, req'[d].pc \in {"identifying", "identified", "patching", "revoking"}
        PROVE  rows'[req'[d].bearer] # None
    <3>1. d # c /\ req'[d] = req[d]
      BY <1>01, <2>5, <2>8
    <3>2. req[d].bearer \in Token /\ rows[req[d].bearer] # None
      BY <1>0, <2>8, <3>1, RequestShapes DEF RowsStay, Late, Resolved, Patching, Revoking
    <3> QED
      BY <2>6, <3>1, <3>2
  <2> QED
    BY <2>7, <2>8 DEF RowsStay
<1>17. ASSUME NEW c \in Poster, NEW u \in Member, NEW t \in Token, NEW m \in {None} \cup SUBSET Module, PatchBegins(c, u, t, m)
       PROVE  HostTypeInv' /\ RowsStay'
  <2> DEFINE r == [pc |-> "patching", bearer |-> t, modules |-> IF m = None THEN rows[t].modules ELSE m]
  <2>1. rows[t] # None /\ rows[t].modules \subseteq Module
    BY <1>0, <1>17 DEF PatchBegins, TokenRow
  <2>2. (IF m = None THEN rows[t].modules ELSE m) \in SUBSET Module
    BY <2>1
  <2>3. r \in Request /\ Goes(c, r) /\ SameRows(rows') /\ Quiet
    BY <1>0, <1>17, <2>2 DEF PatchBegins, Request, Patching, World, HostTypeInv
  <2> QED
    BY <2>1, <2>3, TypeKept
<1>18. ASSUME NEW c \in Poster, NEW u \in Member, NEW t \in Token, RevokeBegins(c, u, t)
       PROVE  HostTypeInv' /\ RowsStay'
  <2> DEFINE r == [pc |-> "revoking", bearer |-> t]
  <2>1. r \in Request /\ Goes(c, r) /\ SameRows(rows') /\ Quiet /\ rows[t] # None
    BY <1>0, <1>18 DEF RevokeBegins, Request, Revoking, World, HostTypeInv
  <2> QED
    BY <2>1, TypeKept
<1>19. ASSUME NEW c \in Poster, PatchCommits(c) \/ RevokeCommits(c) PROVE HostTypeInv' /\ RowsStay'
  <2>1. req[c].bearer \in Token /\ rows[req[c].bearer] # None /\ (At(c, "patching") => req[c].modules \in SUBSET Module)
    BY <1>0, <1>19, RequestShapes DEF PatchCommits, RevokeCommits, At, RowsStay, Patching, Revoking
  <2>2. \/ rows' = Withdrawn(req[c].bearer)
        \/ req[c].modules \in SUBSET Module /\ rows' = [rows EXCEPT ![req[c].bearer].modules = req[c].modules]
    BY <1>19, <2>1 DEF PatchCommits, RevokeCommits
  <2>3. SameRows(rows')
    BY <2>1, <2>2, RowWrites
  <2>4. Quiet /\ Ends(c)
    BY <1>0, <1>19 DEF PatchCommits, RevokeCommits, World, HostTypeInv
  <2> QED
    BY <1>5, <2>3, <2>4
<1> QED
  BY <1>1, <1>2, <1>3, <1>4, <1>6, <1>8, <1>9, <1>10, <1>11, <1>12, <1>13, <1>14, <1>15, <1>16, <1>17, <1>18, <1>19
     DEF HostNext, Serves

----------------------------------------------------------------------------
(* The budgets. *)

\* The actions that leave the minute, the limiters and what was spent alone.
LEMMA OthersSpendNothing ==
  ASSUME HostNext,
         ~MinutePasses, \A c \in Poster : ~Refused(c) /\ ~Admits(c),
         \A c \in Poster, ip \in Ip, a \in Asked : ~Arrives(c, ip, a[1], a[2])
  PROVE  UNCHANGED <<minute, calls, anon, fails, spent>>
BY DEF HostNext, Serves, RoleChanges, LogsIn, LooksUp, LookupFails, Remembers, Asks, FoundClosed, Touches, Acquires,
       HangsUp, Starts, Answers, MintBegins, MintCommits, PatchBegins, PatchCommits, RevokeBegins, RevokeCommits, World

LEMMA AllowedKeeps ==
  ASSUME HostConstants, minute \in Nat, NEW K, NEW l \in Limiter(K), Timely(l), NEW k \in K
  PROVE  /\ Allowed(l, k) \in Limiter(K) /\ Timely(Allowed(l, k))
         /\ (\A j \in K : Len(l.hits[j]) <= Rate) => \A j \in K : Len(Allowed(l, k).hits[j]) <= Rate
         /\ \A j \in K, at \in Int : at >= minute - Window =>
              After(Allowed(l, k).hits[j], at)
                = After(l.hits[j], at) + (IF j = k /\ ~Spent(l, k) /\ minute > at THEN 1 ELSE 0)
<1>1. /\ \A j \in K : l.hits[j] \in Seq(Nat) /\ Len(l.hits[j]) \in Nat
      /\ \A j \in K, at \in Int : After(l.hits[j], at) \in Nat
      /\ minute - Window \in Int /\ Rate \in Nat
  <2>1. l.hits \in [K -> Seq(Nat)] /\ Rate \in Nat /\ minute - Window \in Int
    BY DEF Limiter, HostConstants
  <2>2. \A j \in K : l.hits[j] \in Seq(Nat) /\ Len(l.hits[j]) \in Nat
    BY <2>1, LenProperties
  <2> QED
    BY <2>1, <2>2, LateAreFinite
<1>2. CASE Spent(l, k)
  <2>1. Allowed(l, k) = Pruned(l, k)
    BY <1>2 DEF Allowed
  <2>2. \A j \in K : /\ Len(Pruned(l, k).hits[j]) <= Len(l.hits[j])
                     /\ \A at \in Int : at >= minute - Window => After(Pruned(l, k).hits[j], at) = After(l.hits[j], at)
    BY PrunedKeeps
  <2>3. \A j \in K : Len(Pruned(l, k).hits[j]) \in Nat
    <3>1. Pruned(l, k).hits \in [K -> Seq(Nat)]
      BY PrunedKeeps DEF Limiter
    <3> QED
      BY <3>1, LenProperties
  <2>4. ASSUME \A j \in K : Len(l.hits[j]) <= Rate, NEW j \in K PROVE Len(Pruned(l, k).hits[j]) <= Rate
    <3>1. Len(l.hits[j]) \in Nat /\ Len(l.hits[j]) <= Rate /\ Len(Pruned(l, k).hits[j]) <= Len(l.hits[j])
      BY <1>1, <2>2, <2>4
    <3>2. Len(Pruned(l, k).hits[j]) \in Nat /\ Rate \in Nat
      BY <1>1, <2>3
    <3> DEFINE a == Len(l.hits[j])
               b == Len(Pruned(l, k).hits[j])
    <3> HIDE DEF a, b
    <3>3. a \in Nat /\ a <= Rate /\ b <= a /\ b \in Nat
      BY <3>1, <3>2 DEF a, b
    <3>4. b <= Rate
      BY <3>2, <3>3
    <3> QED
      BY <3>4 DEF b
  <2>5. ASSUME NEW j \in K, NEW at \in Int, at >= minute - Window
        PROVE  After(Pruned(l, k).hits[j], at) = After(l.hits[j], at) + (IF j = k /\ ~Spent(l, k) /\ minute > at THEN 1 ELSE 0)
    <3>1. After(Pruned(l, k).hits[j], at) = After(l.hits[j], at) /\ After(l.hits[j], at) \in Nat
      BY <1>1, <2>2, <2>5
    <3> QED
      BY <1>2, <3>1
  <2>6. Pruned(l, k) \in Limiter(K) /\ Timely(Pruned(l, k))
    BY PrunedKeeps
  <2> QED
    BY <2>1, <2>4, <2>5, <2>6
<1>3. CASE ~Spent(l, k)
  <2>1. Allowed(l, k) = Recorded(l, k)
    BY <1>3 DEF Allowed
  <2>2. After(l.hits[k], minute - Window) < Rate
    <3>1. Len(Recent(l, k)) = After(l.hits[k], minute - Window)
      BY PrunedKeeps
    <3>2. ~(Len(Recent(l, k)) >= Rate)
      BY <1>3 DEF Spent
    <3> QED
      BY <1>1, <3>1, <3>2
  <2>3. /\ Len(Recorded(l, k).hits[k]) <= After(l.hits[k], minute - Window) + 1
        /\ \A j \in K \ {k} : Len(Recorded(l, k).hits[j]) <= Len(l.hits[j])
        /\ \A j \in K, at \in Int : at >= minute - Window =>
             After(Recorded(l, k).hits[j], at) = After(l.hits[j], at) + (IF j = k /\ minute > at THEN 1 ELSE 0)
    BY RecordedAdds
  <2>4. \A j \in K : Len(Recorded(l, k).hits[j]) \in Nat
    <3>1. Recorded(l, k).hits \in [K -> Seq(Nat)]
      BY RecordedAdds DEF Limiter
    <3> QED
      BY <3>1, LenProperties
  <2>5. ASSUME \A j \in K : Len(l.hits[j]) <= Rate, NEW j \in K PROVE Len(Recorded(l, k).hits[j]) <= Rate
    <3>1. After(l.hits[k], minute - Window) \in Nat /\ Len(Recorded(l, k).hits[j]) \in Nat /\ Len(l.hits[j]) \in Nat
      BY <1>1, <2>4
    <3> DEFINE a == Len(l.hits[j])
               b == Len(Recorded(l, k).hits[j])
               n == After(l.hits[k], minute - Window)
    <3> HIDE DEF a, b, n
    <3>0. a \in Nat /\ b \in Nat /\ n \in Nat /\ n < Rate /\ a <= Rate /\ Rate \in Nat
      BY <1>1, <2>2, <2>5, <3>1 DEF a, b, n
    <3>2. CASE j = k
      <4>1. b <= n + 1
        BY <2>3, <3>2 DEF b, n
      <4>2. b <= Rate
        BY <3>0, <4>1
      <4> QED
        BY <4>2 DEF b
    <3>3. CASE j # k
      <4>1. b <= a
        BY <2>3, <3>3 DEF a, b
      <4>2. b <= Rate
        BY <3>0, <4>1
      <4> QED
        BY <4>2 DEF b
    <3> QED
      BY <3>2, <3>3
  <2> QED
    BY <1>3, <2>1, <2>3, <2>5, RecordedAdds
<1> QED
  BY <1>2, <1>3

LEMMA SpentStep ==
  ASSUME HostConstants, HostTypeInv, SpentInv, HostNext
  PROVE  SpentInv'
<1>0. /\ minute \in Nat /\ Window \in Nat /\ Rate \in Nat /\ minute - Window \in Int
      /\ calls \in Limiter(Token) /\ anon \in Limiter(Ip) /\ fails \in Limiter(Ip)
      /\ Timely(calls) /\ Timely(anon) /\ Timely(fails) /\ req \in [Poster -> Request]
      /\ spent \in [Token \cup Ip -> Seq(Nat)] /\ Token \cap Ip = {}
  BY DEF HostTypeInv, SpentInv, HostConstants
<1>01. \A t \in Token, at \in Int : After(calls.hits[t], at) \in Nat
  BY <1>0, LateAreFinite DEF Limiter
<1>02. \A ip \in Ip, at \in Int : After(fails.hits[ip], at) \in Nat
  BY <1>0, LateAreFinite DEF Limiter
<1>03. \A k \in Token \cup Ip, at \in Int : After(spent[k], at) \in Nat
  BY <1>0, LateAreFinite
<1>1. CASE MinutePasses
  <2>1. minute' = minute + 1 /\ UNCHANGED <<calls, anon, fails, spent>>
    BY <1>1 DEF MinutePasses
  <2>2. ASSUME NEW K, NEW l \in Limiter(K), Timely(l)
        PROVE  \A k \in DOMAIN l.hits : InOrder(l.hits[k]) /\ \A n \in DOMAIN l.hits[k] : l.hits[k][n] <= minute + 1
    <3>1. \A k \in DOMAIN l.hits : l.hits[k] \in Seq(Nat)
      BY DEF Limiter
    <3>2. \A k \in DOMAIN l.hits : \A n \in DOMAIN l.hits[k] : l.hits[k][n] \in Nat
      BY <3>1, ElementOfSeq, LenProperties
    <3> QED
      BY <1>0, <2>2, <3>2 DEF Timely
  <2>3. Timely(calls)' /\ Timely(anon)' /\ Timely(fails)'
    BY <1>0, <2>1, <2>2 DEF Timely
  <2>4. \A at \in Int : at >= minute' - Window => at >= minute - Window
    BY <1>0, <2>1
  <2> QED
    BY <2>1, <2>3, <2>4 DEF SpentInv
<1>2. CASE UNCHANGED <<minute, calls, anon, fails, spent>>
  BY <1>2 DEF SpentInv, Timely
<1>3. ASSUME NEW c \in Poster, NEW ip \in Ip, NEW a \in Asked, Arrives(c, ip, a[1], a[2]) PROVE SpentInv'
  <2>1. UNCHANGED <<minute, calls, spent>>
    BY <1>3 DEF Arrives, World
  <2>2. /\ anon' = anon \/ anon' = Allowed(anon, ip)
        /\ fails' = fails \/ fails' = Pruned(fails, ip)
    BY <1>3 DEF Arrives
  <2>3. Timely(Allowed(anon, ip)) /\ Timely(Pruned(fails, ip))
    BY <1>0, PrunedKeeps, AllowedKeeps
  <2>4. Timely(anon)' /\ Timely(fails)' /\ Timely(calls)'
    BY <1>0, <2>1, <2>2, <2>3 DEF Timely
  <2>5. \A i \in Ip, at \in Int : at >= minute - Window => After(fails'.hits[i], at) = After(fails.hits[i], at)
    BY <1>0, <2>2, PrunedKeeps
  <2> QED
    BY <2>1, <2>4, <2>5 DEF SpentInv
<1>4. ASSUME NEW c \in Poster, Refused(c) PROVE SpentInv'
  <2> DEFINE ip == req[c].ip
  <2>1. ip \in Ip
    BY <1>0, <1>4, RequestShapes DEF Refused, At, Unread, Resolved
  <2>2. UNCHANGED <<minute, calls, anon>> /\ fails' = Recorded(fails, ip)
        /\ (spent' = spent \/ spent' = [spent EXCEPT ![ip] = Append(@, minute)])
    BY <1>4 DEF Refused, World, Charge
  <2> HIDE DEF ip
  <2>3. /\ Timely(Recorded(fails, ip))
        /\ \A j \in Ip, at \in Int : at >= minute - Window =>
             After(fails'.hits[j], at) = After(fails.hits[j], at) + (IF j = ip /\ minute > at THEN 1 ELSE 0)
    BY <1>0, <2>1, <2>2, RecordedAdds
  <2>4. Timely(anon)' /\ Timely(fails)' /\ Timely(calls)'
    BY <1>0, <2>2, <2>3 DEF Timely
  <2>5. ASSUME NEW j \in Ip, NEW at \in Int, at >= minute - Window PROVE After(spent'[j], at) <= After(fails'.hits[j], at)
    <3>1. After(spent[j], at) <= After(fails.hits[j], at)
      BY <2>5 DEF SpentInv
    <3>2. After(Append(spent[j], minute), at) = After(spent[j], at) + IF minute > at THEN 1 ELSE 0
      BY <1>0, AfterAppend
    <3>3. spent'[j] = spent[j] \/ (j = ip /\ spent'[j] = Append(spent[j], minute))
      BY <1>0, <2>2
    <3>4. After(fails'.hits[j], at) = After(fails.hits[j], at) + (IF j = ip /\ minute > at THEN 1 ELSE 0)
      BY <2>3, <2>5
    <3>5. After(spent[j], at) \in Nat /\ After(fails.hits[j], at) \in Nat
      BY <1>02, <1>03
    <3>6. CASE spent'[j] = spent[j]
      <4>1. After(spent'[j], at) = After(spent[j], at)
        BY <3>6
      <4> HIDE <3>6
      <4> QED
        BY <3>1, <3>4, <3>5, <4>1
    <3>7. CASE j = ip /\ spent'[j] = Append(spent[j], minute)
      <4>1. After(spent'[j], at) = After(spent[j], at) + IF minute > at THEN 1 ELSE 0
        BY <3>2, <3>7
      <4>2. After(fails'.hits[j], at) = After(fails.hits[j], at) + IF minute > at THEN 1 ELSE 0
        BY <3>4, <3>7
      <4> HIDE <3>7
      <4> QED
        BY <3>1, <3>5, <4>1, <4>2
    <3> QED
      BY <3>3, <3>6, <3>7
  <2>6. \A t \in Token : spent'[t] = spent[t]
    BY <1>0, <2>1, <2>2
  <2> QED
    BY <2>2, <2>4, <2>5, <2>6 DEF SpentInv
<1>5. ASSUME NEW c \in Poster, Admits(c) PROVE SpentInv'
  <2> DEFINE t == req[c].bearer
  <2>1. t \in Token
    BY <1>0, <1>5, RequestShapes DEF Admits, At, Late, Resolved
  <2>2. UNCHANGED <<minute, fails, anon>> /\ calls' = Allowed(calls, t)
        /\ (spent' = spent \/ (~Spent(calls, t) /\ spent' = [spent EXCEPT ![t] = Append(@, minute)]))
    BY <1>5 DEF Admits, World, Charge
  <2> HIDE DEF t
  <2>3. /\ Timely(Allowed(calls, t))
        /\ \A j \in Token : Len(calls'.hits[j]) <= Rate
        /\ \A j \in Token, at \in Int : at >= minute - Window =>
             After(calls'.hits[j], at)
               = After(calls.hits[j], at) + (IF j = t /\ ~Spent(calls, t) /\ minute > at THEN 1 ELSE 0)
    BY <1>0, <2>1, <2>2, AllowedKeeps DEF SpentInv
  <2>4. Timely(anon)' /\ Timely(fails)' /\ Timely(calls)'
    BY <1>0, <2>2, <2>3 DEF Timely
  <2>5. ASSUME NEW j \in Token, NEW at \in Int, at >= minute - Window PROVE After(spent'[j], at) <= After(calls'.hits[j], at)
    <3>1. After(spent[j], at) <= After(calls.hits[j], at)
      BY <2>5 DEF SpentInv
    <3>2. After(Append(spent[j], minute), at) = After(spent[j], at) + IF minute > at THEN 1 ELSE 0
      BY <1>0, AfterAppend
    <3>3. spent'[j] = spent[j] \/ (j = t /\ ~Spent(calls, t) /\ spent'[j] = Append(spent[j], minute))
      BY <1>0, <2>2
    <3>4. After(calls'.hits[j], at)
            = After(calls.hits[j], at) + (IF j = t /\ ~Spent(calls, t) /\ minute > at THEN 1 ELSE 0)
      BY <2>3, <2>5
    <3>5. After(spent[j], at) \in Nat /\ After(calls.hits[j], at) \in Nat
      BY <1>01, <1>03
    <3>6. CASE spent'[j] = spent[j]
      <4>1. After(spent'[j], at) = After(spent[j], at)
        BY <3>6
      <4> HIDE <3>6
      <4> QED
        BY <3>1, <3>4, <3>5, <4>1
    <3>7. CASE j = t /\ ~Spent(calls, t) /\ spent'[j] = Append(spent[j], minute)
      <4>1. After(spent'[j], at) = After(spent[j], at) + IF minute > at THEN 1 ELSE 0
        BY <3>2, <3>7
      <4>2. After(calls'.hits[j], at) = After(calls.hits[j], at) + IF minute > at THEN 1 ELSE 0
        BY <3>4, <3>7
      <4> HIDE <3>7
      <4> QED
        BY <3>1, <3>5, <4>1, <4>2
    <3> QED
      BY <3>3, <3>6, <3>7
  <2>6. \A ip \in Ip : spent'[ip] = spent[ip]
    BY <1>0, <2>1, <2>2
  <2> QED
    BY <2>2, <2>3, <2>4, <2>5, <2>6 DEF SpentInv
<1> QED
  BY <1>1, <1>2, <1>3, <1>4, <1>5, OthersSpendNothing

----------------------------------------------------------------------------
(* The slots. *)

LEMMA FewerInSubset ==
  ASSUME NEW B, IsFiniteSet(B), NEW A, A \subseteq B
  PROVE  IsFiniteSet(A) /\ Cardinality(A) \in Nat /\ Cardinality(B) \in Nat /\ Cardinality(A) <= Cardinality(B)
BY FS_Subset, FS_CardinalityType

\* One request moves on, and no other.
Alone(c) == \A d \in Poster \ {c} : req'[d] = req[d]

LEMMA GoesAlone ==
  ASSUME HostTypeInv, HostTypeInv', NEW c \in Poster,
         (\E r : Goes(c, r)) \/ (\E pc : To(c, pc)) \/ Ends(c) \/ (\E as : Identified(c, as)) \/ UNCHANGED req
  PROVE  /\ Alone(c)
         /\ \A r : Goes(c, r) => req'[c] = r
         /\ \A pc : To(c, pc) => req'[c] = [req[c] EXCEPT !.pc = pc]
         /\ \A as : Identified(c, as) => req'[c] = [req[c] EXCEPT !.pc = "identified", !.role = as]
         /\ Ends(c) => req'[c] = Done
BY DEF HostTypeInv, Goes, To, Ends, Identified, Alone

\* The actions that give no slot and take none.
LEMMA OthersHoldTheSame ==
  ASSUME HostTypeInv, HostTypeInv', HostNext, \A c \in Poster : ~Acquires(c) /\ ~Answers(c)
  PROVE  held' = held /\ \A t \in Token : Holders(t)' = Holders(t)
<1>0. req \in [Poster -> Request] /\ Done.pc = "done"
  BY DEF HostTypeInv, Done
<1>1. held' = held
  BY DEF HostNext, Serves, MinutePasses, RoleChanges, LogsIn, LooksUp, LookupFails, Remembers, Asks, FoundClosed, Touches, Refused,
         Admits, HangsUp, Starts, MintBegins, MintCommits, PatchBegins, PatchCommits, RevokeBegins, RevokeCommits,
         Arrives, World
<1>2. CASE UNCHANGED req
  BY <1>1, <1>2 DEF Holders, Holds
<1>3. ASSUME NEW c \in Poster, Alone(c), ~Holds(c), ~Holds(c)' PROVE \A t \in Token : Holders(t)' = Holders(t)
  BY <1>3 DEF Holders, Holds, Alone
<1>4. ASSUME NEW c \in Poster, Starts(c) PROVE \A t \in Token : Holders(t)' = Holders(t)
  <2>1. req[c] \in Resolved
    BY <1>0, <1>4, RequestShapes DEF Starts, At, Late
  <2>2. Alone(c) /\ req'[c] = [req[c] EXCEPT !.pc = "working"]
    BY <1>4, GoesAlone DEF Starts
  <2>3. req'[c].pc = "working" /\ req'[c].bearer = req[c].bearer /\ req[c].pc = "running"
    BY <1>4, <2>1, <2>2, Onwards DEF Starts, At, Late
  <2> QED
    BY <2>2, <2>3 DEF Holders, Holds, Alone
<1>5. CASE MinutePasses \/ \E u \in Member : RoleChanges(u) \/ LogsIn(u)
  BY <1>2, <1>5 DEF MinutePasses, RoleChanges, LogsIn
<1>6. ASSUME NEW c \in Poster, NEW ip \in Ip, NEW a \in Asked, Arrives(c, ip, a[1], a[2])
      PROVE  \A t \in Token : Holders(t)' = Holders(t)
  <2>1. CASE UNCHANGED req
    BY <1>2, <2>1
  <2>2. CASE ~UNCHANGED req
    <3> DEFINE r == IF a[1] # None /\ Spent(fails, ip) THEN Done
                    ELSE [pc |-> IF a[1] = None THEN "unresolved" ELSE "looking",
                          ip |-> ip, bearer |-> a[1], ask |-> a[2], now |-> minute]
    <3>1. Goes(c, r) /\ At(c, "done")
      BY <1>6, <2>2 DEF Arrives
    <3>2. r.pc \in {"done", "unresolved", "looking"}
      BY <1>0
    <3> HIDE DEF r
    <3>3. Alone(c) /\ req'[c] = r
      BY <3>1, GoesAlone
    <3> QED
      BY <1>3, <3>1, <3>2, <3>3 DEF Holds, At
  <2> QED
    BY <2>1, <2>2
<1>7. ASSUME NEW c \in Poster, Ends(c), ~Holds(c) PROVE \A t \in Token : Holders(t)' = Holders(t)
  BY <1>0, <1>3, <1>7, GoesAlone DEF Holds
<1>8. ASSUME NEW c \in Poster, LookupFails(c) \/ Refused(c) \/ HangsUp(c) \/ PatchCommits(c) \/ RevokeCommits(c)
      PROVE  \A t \in Token : Holders(t)' = Holders(t)
  BY <1>7, <1>8 DEF LookupFails, Refused, HangsUp, PatchCommits, RevokeCommits, At, Holds
<1>9. ASSUME NEW c \in Poster, NEW pc \in Late \ {"running", "working"}, To(c, pc), ~Holds(c),
             req[c].pc \in {"looking"} \cup Late
      PROVE  \A t \in Token : Holders(t)' = Holders(t)
  <2>1. req[c] \in Unread \cup Resolved
    BY <1>0, <1>9, RequestShapes DEF Late
  <2>2. [req[c] EXCEPT !.pc = pc].pc = pc
    BY <2>1 DEF Unread, Resolved
  <2>3. Alone(c) /\ req'[c] = [req[c] EXCEPT !.pc = pc]
    BY <1>9, GoesAlone
  <2> QED
    BY <1>3, <1>9, <2>2, <2>3 DEF Holds
<1>10. ASSUME NEW c \in Poster, LooksUp(c) PROVE \A t \in Token : Holders(t)' = Holders(t)
  <2>1. At(c, "looking") /\ ~Holds(c)
    BY <1>10 DEF LooksUp, At, Holds
  <2>2. CASE To(c, "unresolved")
    BY <1>9, <2>1, <2>2 DEF At, Late
  <2>3. CASE ~To(c, "unresolved")
    <3> DEFINE r == [pc |-> "identifying", ip |-> req[c].ip, ask |-> req[c].ask, now |-> req[c].now,
                     bearer |-> req[c].bearer, tok |-> rows[req[c].bearer], role |-> None]
    <3>1. Goes(c, r) /\ r.pc = "identifying"
      BY <1>10, <2>3 DEF LooksUp
    <3> HIDE DEF r
    <3> QED
      BY <1>3, <2>1, <3>1, GoesAlone DEF Holds
  <2> QED
    BY <2>2, <2>3
<1>11. ASSUME NEW c \in Poster, Remembers(c) \/ Asks(c) \/ FoundClosed(c) \/ Touches(c) \/ Admits(c)
       PROVE  \A t \in Token : Holders(t)' = Holders(t)
  <2>1. req[c].pc \in {"identifying", "identified", "resolved"} /\ ~Holds(c) /\ req[c].pc \in Late
    BY <1>11 DEF Remembers, Asks, FoundClosed, Touches, Admits, At, Holds, Late
  <2>2. To(c, "unresolved") \/ To(c, "resolved") \/ To(c, "waiting") \/ Ends(c) \/ \E as : Identified(c, as)
    BY <1>11 DEF Remembers, Asks, FoundClosed, Touches, Admits
  <2>3. ASSUME NEW as, Identified(c, as) PROVE \A t \in Token : Holders(t)' = Holders(t)
    <3>1. req[c] \in Resolved
      BY <1>0, <2>1, RequestShapes DEF Late
    <3>2. Alone(c) /\ req'[c].pc = "identified"
      BY <2>3, <3>1, GoesAlone DEF Resolved
    <3> QED
      BY <1>3, <2>1, <3>2 DEF Holds
  <2> QED
    BY <1>7, <1>9, <2>1, <2>2, <2>3 DEF Late
<1>12. ASSUME NEW c \in Poster, At(c, "done"), NEW r, r.pc \in {"minting", "patching", "revoking"}, Goes(c, r)
       PROVE  \A t \in Token : Holders(t)' = Holders(t)
  BY <1>3, <1>12, GoesAlone DEF At, Holds
<1>13. ASSUME NEW c \in Poster, NEW u \in Member, MintBegins(c, u) PROVE \A t \in Token : Holders(t)' = Holders(t)
  BY <1>12, <1>13 DEF MintBegins
<1>14. ASSUME NEW c \in Poster, NEW u \in Member, NEW x \in Token, NEW m \in {None} \cup SUBSET Module,
              PatchBegins(c, u, x, m) \/ RevokeBegins(c, u, x)
       PROVE  \A t \in Token : Holders(t)' = Holders(t)
  <2> DEFINE r == [pc |-> "patching", bearer |-> x, modules |-> IF m = None THEN rows[x].modules ELSE m]
             q == [pc |-> "revoking", bearer |-> x]
  <2>1. At(c, "done") /\ (Goes(c, r) \/ Goes(c, q))
    BY <1>14 DEF PatchBegins, RevokeBegins
  <2>2. r.pc = "patching" /\ q.pc = "revoking"
    OBVIOUS
  <2> HIDE DEF r, q
  <2> QED
    BY <1>12, <2>1, <2>2
<1>15. ASSUME NEW c \in Poster, NEW t \in Token, NEW m, NEW life, MintCommits(c, t, m, life)
       PROVE  \A x \in Token : Holders(x)' = Holders(x)
  BY <1>7, <1>15 DEF MintCommits, At, Holds
<1> QED
  BY <1>1, <1>4, <1>5, <1>6, <1>8, <1>10, <1>11, <1>13, <1>14, <1>15 DEF HostNext, Serves

LEMMA HeldStep ==
  ASSUME HostConstants, HostTypeInv, HostTypeInv', HeldInv, HostNext
  PROVE  HeldInv'
<1>0. req \in [Poster -> Request] /\ held \in [Token -> Int] /\ IsFiniteSet(Poster) /\ Width \in Nat /\ Done.pc = "done"
  BY DEF HostTypeInv, HostConstants, Done
<1>1. CASE \A c \in Poster : ~Acquires(c) /\ ~Answers(c)
  BY <1>1, OthersHoldTheSame DEF HeldInv
<1>2. ASSUME NEW c \in Poster, Alone(c), NEW t \in Token
      PROVE  /\ Cardinality(Holders(t)) \in Nat /\ Cardinality(Holders(t)') \in Nat
             /\ Cardinality(Holders(t)')
                  = Cardinality(Holders(t)) + (IF c \in Holders(t)' THEN 1 ELSE 0) - (IF c \in Holders(t) THEN 1 ELSE 0)
  <2>1. Holders(t) \subseteq Poster /\ Holders(t)' \subseteq Poster
    BY DEF Holders
  <2>2. Holders(t) \ {c} = Holders(t)' \ {c}
    BY <1>2 DEF Holders, Holds, Alone
  <2> HIDE DEF Holders
  <2> QED
    BY <1>0, <2>1, <2>2, OneMore
<1>3. ASSUME NEW c \in Poster, Acquires(c) \/ Answers(c) PROVE HeldInv'
  <2>1. req[c] \in Resolved /\ req[c].bearer \in Token
    BY <1>0, <1>3, RequestShapes DEF Acquires, Answers, Holds, At, Late, Resolved
  <2>2. Alone(c)
    BY <1>3, GoesAlone DEF Acquires, Answers
  <2>3. CASE Acquires(c)
    <3>0. To(c, "running") /\ req[c].pc = "waiting"
      BY <2>3 DEF Acquires, At
    <3>01. req'[c] = [req[c] EXCEPT !.pc = "running"]
      BY <3>0, GoesAlone
    <3>1. req'[c].pc = "running" /\ req'[c].bearer = req[c].bearer /\ req[c].pc = "waiting"
      BY <2>1, <3>0, <3>01 DEF Resolved
    <3>2. \A t \in Token : (c \in Holders(t)' <=> t = req[c].bearer) /\ c \notin Holders(t)
      BY <3>1 DEF Holders, Holds
    <3>3. \A t \in Token : held'[t] = held[t] + (IF t = req[c].bearer THEN 1 ELSE 0) /\ (t = req[c].bearer => held[t] < Width)
      BY <1>0, <2>3 DEF Acquires
    <3>4. ASSUME NEW t \in Token PROVE held'[t] = Cardinality(Holders(t)') /\ held'[t] <= Width
      <4>1. held[t] = Cardinality(Holders(t)) /\ held[t] <= Width /\ held[t] \in Int
        BY <1>0 DEF HeldInv
      <4> QED
        BY <1>0, <1>2, <2>2, <3>2, <3>3, <4>1
    <3> QED
      BY <3>4 DEF HeldInv
  <2>4. CASE Answers(c)
    <3>1. req'[c].pc = "done" /\ Holds(c)
      BY <1>0, <2>4, GoesAlone DEF Answers
    <3>2. \A t \in Token : (c \in Holders(t) <=> t = req[c].bearer) /\ c \notin Holders(t)'
      BY <3>1 DEF Holders, Holds
    <3>3. \A t \in Token : held'[t] = held[t] - (IF t = req[c].bearer THEN 1 ELSE 0)
      BY <1>0, <2>4 DEF Answers
    <3>4. ASSUME NEW t \in Token PROVE held'[t] = Cardinality(Holders(t)') /\ held'[t] <= Width
      <4>1. held[t] = Cardinality(Holders(t)) /\ held[t] <= Width /\ held[t] \in Int
        BY <1>0 DEF HeldInv
      <4> QED
        BY <1>0, <1>2, <2>2, <3>2, <3>3, <4>1
    <3> QED
      BY <3>4 DEF HeldInv
  <2> QED
    BY <1>3, <2>3, <2>4
<1> QED
  BY <1>1, <1>3

----------------------------------------------------------------------------
(* The failures of an address. *)

Asking == {"looking", "identifying", "unresolved"}

\* A request moves on without becoming one that tries a bearer, or mints.
Fades(c) ==
  /\ Alone(c) /\ req'[c].pc # "minting"
  /\ req'[c].pc \in Asking => /\ req[c].pc \in Asking
                              /\ req'[c].ip = req[c].ip /\ req'[c].bearer = req[c].bearer

\* Only a request that arrives may try a bearer, and only one that begins to mint may mint.
LEMMA OthersFade ==
  ASSUME HostTypeInv, HostTypeInv', HostNext,
         \A c \in Poster, ip \in Ip, a \in Asked : ~Arrives(c, ip, a[1], a[2]),
         \A c \in Poster, u \in Member : ~MintBegins(c, u)
  PROVE  UNCHANGED req \/ \E c \in Poster : Fades(c)
<1>0. req \in [Poster -> Request] /\ Done.pc = "done"
  BY DEF HostTypeInv, Done
<1>1. CASE MinutePasses \/ \E u \in Member : RoleChanges(u) \/ LogsIn(u)
  BY <1>1 DEF MinutePasses, RoleChanges, LogsIn
<1>2. ASSUME NEW c \in Poster, Ends(c) PROVE Fades(c)
  <2>1. Alone(c) /\ req'[c] = Done
    BY <1>2, GoesAlone
  <2> QED
    BY <1>0, <2>1 DEF Fades, Asking
<1>3. ASSUME NEW c \in Poster, NEW pc \in Late, To(c, pc), req[c] \in Resolved, pc = "unresolved" => req[c].pc \in Asking,
             pc # "identifying"
      PROVE  Fades(c)
  <2>1. Alone(c) /\ req'[c] = [req[c] EXCEPT !.pc = pc]
    BY <1>3, GoesAlone
  <2>2. req'[c].pc = pc /\ req'[c].bearer = req[c].bearer /\ req'[c].ip = req[c].ip
    BY <1>3, <2>1, Onwards
  <2> QED
    BY <1>3, <2>1, <2>2 DEF Fades, Asking, Late
<1>4. ASSUME NEW c \in Poster, LooksUp(c) PROVE Fades(c)
  <2>1. req[c] \in Unread /\ req[c].pc = "looking"
    BY <1>0, <1>4, RequestShapes DEF LooksUp, At
  <2>2. CASE To(c, "unresolved")
    <3>1. Alone(c) /\ req'[c] = [req[c] EXCEPT !.pc = "unresolved"]
      BY <2>2, GoesAlone
    <3>2. req'[c].pc = "unresolved" /\ req'[c].ip = req[c].ip /\ req'[c].bearer = req[c].bearer
      BY <2>1, <3>1 DEF Unread
    <3> QED
      BY <2>1, <3>1, <3>2 DEF Fades, Asking
  <2>3. CASE ~To(c, "unresolved")
    <3> DEFINE r == [pc |-> "identifying", ip |-> req[c].ip, ask |-> req[c].ask, now |-> req[c].now,
                     bearer |-> req[c].bearer, tok |-> rows[req[c].bearer], role |-> None]
    <3>1. Goes(c, r) /\ r.pc = "identifying" /\ r.ip = req[c].ip /\ r.bearer = req[c].bearer
      BY <1>4, <2>3 DEF LooksUp
    <3> HIDE DEF r
    <3>2. Alone(c) /\ req'[c] = r
      BY <3>1, GoesAlone
    <3> QED
      BY <2>1, <3>1, <3>2 DEF Fades, Asking
  <2> QED
    BY <2>2, <2>3
<1>5. ASSUME NEW c \in Poster, Remembers(c) \/ Asks(c) \/ FoundClosed(c) PROVE Fades(c)
  <2>1. req[c] \in Resolved /\ req[c].pc = "identifying"
    BY <1>0, <1>5, RequestShapes DEF Remembers, Asks, FoundClosed, At, Late
  <2>2. To(c, "unresolved") \/ \E as : Identified(c, as)
    BY <1>5 DEF Remembers, Asks, FoundClosed
  <2>3. ASSUME NEW as, Identified(c, as) PROVE Fades(c)
    <3>0. Alone(c) /\ req'[c] = [req[c] EXCEPT !.pc = "identified", !.role = as]
      BY <2>3, GoesAlone
    <3>1. req'[c].pc = "identified"
      BY <2>1, <3>0 DEF Resolved
    <3> QED
      BY <3>0, <3>1 DEF Fades, Asking
  <2> QED
    BY <1>3, <2>1, <2>2, <2>3 DEF Late, Asking
<1>6. ASSUME NEW c \in Poster, Touches(c) \/ Admits(c) \/ Acquires(c) \/ Starts(c) PROVE Fades(c)
  <2>1. req[c] \in Resolved
    BY <1>0, <1>6, RequestShapes DEF Touches, Admits, Acquires, Starts, At, Late
  <2>2. Ends(c) \/ To(c, "resolved") \/ To(c, "waiting") \/ To(c, "running") \/ To(c, "working")
    BY <1>6 DEF Touches, Admits, Acquires, Starts
  <2> QED
    BY <1>2, <1>3, <2>1, <2>2 DEF Late
<1>7. ASSUME NEW c \in Poster,
             LookupFails(c) \/ Refused(c) \/ HangsUp(c) \/ Answers(c) \/ PatchCommits(c) \/ RevokeCommits(c)
      PROVE  Fades(c)
  BY <1>2, <1>7 DEF LookupFails, Refused, HangsUp, Answers, PatchCommits, RevokeCommits
<1>8. ASSUME NEW c \in Poster, NEW t \in Token, NEW m, NEW life, MintCommits(c, t, m, life) PROVE Fades(c)
  BY <1>2, <1>8 DEF MintCommits
<1>9. ASSUME NEW c \in Poster, NEW u \in Member, NEW x \in Token, NEW m \in {None} \cup SUBSET Module,
             PatchBegins(c, u, x, m) \/ RevokeBegins(c, u, x)
      PROVE  Fades(c)
  <2> DEFINE r == [pc |-> "patching", bearer |-> x, modules |-> IF m = None THEN rows[x].modules ELSE m]
             q == [pc |-> "revoking", bearer |-> x]
  <2>1. Goes(c, r) \/ Goes(c, q)
    BY <1>9 DEF PatchBegins, RevokeBegins
  <2>2. r.pc = "patching" /\ q.pc = "revoking"
    OBVIOUS
  <2> HIDE DEF r, q
  <2>3. Alone(c) /\ (req'[c] = r \/ req'[c] = q)
    BY <2>1, GoesAlone
  <2> QED
    BY <2>2, <2>3 DEF Fades, Asking
<1> QED
  BY <1>1, <1>4, <1>5, <1>6, <1>7, <1>8, <1>9 DEF HostNext, Serves

LEMMA FewerTryOrMint ==
  ASSUME UNCHANGED req \/ \E c \in Poster : Fades(c)
  PROVE  (\A ip \in Ip : Triers(ip)' \subseteq Triers(ip)) /\ (\A u \in Member : Minters(u)' \subseteq Minters(u))
<1>1. CASE UNCHANGED req
  BY <1>1 DEF Triers, Tried, Minters, At
<1>2. ASSUME NEW c \in Poster, Fades(c)
      PROVE  (\A ip \in Ip : Triers(ip)' \subseteq Triers(ip)) /\ (\A u \in Member : Minters(u)' \subseteq Minters(u))
  BY <1>2 DEF Fades, Alone, Asking, Triers, Tried, Minters, At
<1> QED
  BY <1>1, <1>2

LEMMA TriedStep ==
  ASSUME HostConstants, HostTypeInv, HostTypeInv', SpentInv, TriedInv, HostNext
  PROVE  TriedInv'
<1> DEFINE Many == Cardinality(Poster)
<1>0. /\ minute \in Nat /\ Window \in Nat /\ Rate \in Nat /\ Rate # 0 /\ minute - Window \in Int
      /\ req \in [Poster -> Request] /\ spent \in [Token \cup Ip -> Seq(Nat)] /\ spent' \in [Token \cup Ip -> Seq(Nat)]
      /\ Token \cap Ip = {} /\ IsFiniteSet(Poster) /\ Many \in Nat /\ fails \in Limiter(Ip) /\ Timely(fails)
      /\ minute' \in Nat /\ minute' - Window \in Int
  BY FS_CardinalityType DEF HostTypeInv, HostConstants, SpentInv
<1> HIDE DEF Many
<1>1. ASSUME NEW ip \in Ip
      PROVE  /\ Triers(ip) \subseteq Poster /\ Triers(ip)' \subseteq Poster
             /\ IsFiniteSet(Triers(ip)) /\ IsFiniteSet(Triers(ip)')
             /\ Cardinality(Triers(ip)) \in Nat /\ Cardinality(Triers(ip)') \in Nat /\ Cardinality(Triers(ip)') <= Many
             /\ SpentIn(ip) \in Nat /\ SpentIn(ip)' \in Nat
  <2>1. Triers(ip) \subseteq Poster /\ Triers(ip)' \subseteq Poster
    BY DEF Triers
  <2>2. SpentIn(ip) = After(spent[ip], minute - Window) /\ SpentIn(ip)' = After(spent'[ip], minute' - Window)
    BY DEF SpentIn
  <2>3. After(spent[ip], minute - Window) \in Nat /\ After(spent'[ip], minute' - Window) \in Nat
    BY <1>0, LateAreFinite
  <2> QED
    BY <1>0, <2>1, <2>2, <2>3, FewerInSubset DEF Many
\* No one more tries, and no more is spent.
<1>2. ASSUME NEW ip \in Ip, Triers(ip)' \subseteq Triers(ip), SpentIn(ip)' <= SpentIn(ip)
      PROVE  SpentIn(ip)' + Cardinality(Triers(ip)') < Rate + Many
  <2>1. Cardinality(Triers(ip)') <= Cardinality(Triers(ip))
    BY <1>1, <1>2, FewerInSubset
  <2>2. SpentIn(ip) + Cardinality(Triers(ip)) < Rate + Many
    BY DEF TriedInv, Many
  <2> DEFINE a == Cardinality(Triers(ip))
             b == Cardinality(Triers(ip)')
             m == SpentIn(ip)
             n == SpentIn(ip)'
  <2>3. a \in Nat /\ b \in Nat /\ m \in Nat /\ n \in Nat /\ n <= m /\ b <= a /\ m + a < Rate + Many
    BY <1>1, <1>2, <2>1, <2>2
  <2> HIDE DEF a, b, m, n
  <2>4. n + b < Rate + Many
    BY <1>0, <2>3
  <2> QED
    BY <2>4 DEF n, b
<1>3. CASE MinutePasses
  <2>1. minute' = minute + 1 /\ spent' = spent /\ req' = req
    BY <1>3 DEF MinutePasses
  <2>2. ASSUME NEW ip \in Ip PROVE Triers(ip)' \subseteq Triers(ip) /\ SpentIn(ip)' <= SpentIn(ip)
    <3>1. spent[ip] \in Seq(Nat) /\ minute - Window <= minute' - Window
      BY <1>0, <2>1
    <3>2. After(spent[ip], minute' - Window) <= After(spent[ip], minute - Window)
      BY <1>0, <3>1, FewerAreLater
    <3> QED
      BY <2>1, <3>2 DEF SpentIn, Triers, Tried
  <2> QED
    BY <1>2, <2>2 DEF TriedInv, Many
<1>4. ASSUME NEW c \in Poster, NEW ip \in Ip, NEW a \in Asked, Arrives(c, ip, a[1], a[2])
      PROVE  TriedInv'
  <2>1. minute' = minute /\ spent' = spent
    BY <1>4 DEF Arrives, World
  <2>2. ASSUME NEW i \in Ip PROVE SpentIn(i)' <= SpentIn(i)
    BY <1>1, <2>1, <2>2 DEF SpentIn
  <2>3. CASE UNCHANGED req
    <3>1. \A i \in Ip : Triers(i)' \subseteq Triers(i)
      BY <2>3 DEF Triers, Tried
    <3> QED
      BY <1>2, <2>2, <3>1 DEF TriedInv, Many
  <2>4. CASE ~UNCHANGED req
    <3> DEFINE r == IF a[1] # None /\ Spent(fails, ip) THEN Done
                    ELSE [pc |-> IF a[1] = None THEN "unresolved" ELSE "looking",
                          ip |-> ip, bearer |-> a[1], ask |-> a[2], now |-> minute]
    <3>1. Goes(c, r)
      BY <1>4, <2>4 DEF Arrives
    <3>2. r.pc = "done" \/ (r.ip = ip /\ r.bearer = a[1] /\ (a[1] # None => ~Spent(fails, ip)))
      BY DEF Done
    <3> HIDE DEF r
    <3>3. Alone(c) /\ req'[c] = r
      BY <3>1, GoesAlone
    <3>4. ASSUME NEW i \in Ip, ~(i = ip /\ ~Spent(fails, ip)) PROVE Triers(i)' \subseteq Triers(i)
      BY <3>2, <3>3, <3>4 DEF Triers, Tried, Alone
    <3>5. ASSUME ~Spent(fails, ip) PROVE SpentIn(ip)' + Cardinality(Triers(ip)') < Rate + Many
      <4>0. Len(Pruned(fails, ip).hits[ip]) = After(fails.hits[ip], minute - Window) /\ Recent(fails, ip) = Pruned(fails, ip).hits[ip]
        BY <1>0, PrunedKeeps
      <4>1. Len(Recent(fails, ip)) = After(fails.hits[ip], minute - Window)
        BY <4>0
      <4>2. SpentIn(ip)' <= After(fails.hits[ip], minute - Window)
        BY <1>0, <2>1 DEF SpentInv, SpentIn
      <4>3. After(fails.hits[ip], minute - Window) \in Nat
        BY <1>0, LateAreFinite DEF Limiter
      <4>4. After(fails.hits[ip], minute - Window) < Rate
        BY <1>0, <3>5, <4>1, <4>3 DEF Spent
      <4> DEFINE b == Cardinality(Triers(ip)')
                 n == SpentIn(ip)'
                 f == After(fails.hits[ip], minute - Window)
      <4>5. b \in Nat /\ n \in Nat /\ f \in Nat /\ n <= f /\ f < Rate /\ b <= Many
        BY <1>1, <4>2, <4>3, <4>4
      <4> HIDE DEF b, n, f
      <4>6. n + b < Rate + Many
        BY <1>0, <4>5
      <4> QED
        BY <4>6 DEF n, b
    <3> QED
      BY <1>2, <2>2, <3>4, <3>5 DEF TriedInv, Many
  <2> QED
    BY <2>3, <2>4
<1>5. ASSUME NEW c \in Poster, Refused(c) PROVE TriedInv'
  <2>0. req[c].pc = "unresolved" /\ Ends(c) /\ minute' = minute
    BY <1>5 DEF Refused, At, World
  <2>1. req[c].ip \in Ip
    BY <1>0, <2>0, RequestShapes DEF Unread, Resolved
  <2>2. Alone(c) /\ req'[c] = Done /\ Done.pc = "done"
    BY <2>0, GoesAlone DEF Done
  <2>3. \A i \in Ip : Triers(i)' \subseteq Triers(i) /\ c \notin Triers(i)'
    BY <2>2 DEF Triers, Tried, Alone
  <2>4. spent' = spent \/ (req[c].bearer # None /\ spent' = [spent EXCEPT ![req[c].ip] = Append(@, minute)])
    BY <1>5 DEF Refused, Charge
  <2>5. ASSUME NEW i \in Ip, spent'[i] = spent[i] PROVE SpentIn(i)' <= SpentIn(i)
    BY <1>1, <2>0, <2>5 DEF SpentIn
  <2>6. ASSUME NEW i \in Ip, req[c].ip = i, req[c].bearer # None, spent'[i] = Append(spent[i], minute)
        PROVE  SpentIn(i)' + Cardinality(Triers(i)') < Rate + Many
    <3>1. spent[i] \in Seq(Nat)
      BY <1>0, <2>6
    <3>2. After(Append(spent[i], minute), minute - Window)
            = After(spent[i], minute - Window) + IF minute > minute - Window THEN 1 ELSE 0
      BY <1>0, <3>1, AfterAppend
    <3>3. SpentIn(i) = After(spent[i], minute - Window) /\ SpentIn(i)' = After(Append(spent[i], minute), minute - Window)
      BY <2>0, <2>6 DEF SpentIn
    <3>4. c \in Triers(i)
      BY <2>0, <2>6 DEF Triers, Tried
    <3>5. Triers(i)' = Triers(i) \ {c}
      <4>1. Triers(i)' \subseteq Triers(i) \ {c}
        BY <2>3
      <4>2. Triers(i) \ {c} \subseteq Triers(i)'
        BY <2>2 DEF Triers, Tried, Alone
      <4> QED
        BY <4>1, <4>2
    <3>6. Cardinality(Triers(i)') = Cardinality(Triers(i)) - 1
      BY <1>1, <3>4, <3>5, FS_RemoveElement
    <3>7. SpentIn(i) + Cardinality(Triers(i)) < Rate + Many
      BY DEF TriedInv, Many
    <3> DEFINE a == Cardinality(Triers(i))
               b == Cardinality(Triers(i)')
               m == SpentIn(i)
               n == SpentIn(i)'
    <3>8. a \in Nat /\ b \in Nat /\ m \in Nat /\ n \in Nat /\ b = a - 1 /\ m + a < Rate + Many
      BY <1>1, <3>6, <3>7
    <3>9. n = m + IF minute > minute - Window THEN 1 ELSE 0
      BY <3>2, <3>3
    <3> HIDE DEF a, b, m, n
    <3>10. n + b < Rate + Many
      BY <1>0, <3>8, <3>9
    <3> QED
      BY <3>10 DEF n, b
  <2>7. ASSUME NEW i \in Ip PROVE SpentIn(i)' + Cardinality(Triers(i)') < Rate + Many
    <3>1. CASE spent'[i] = spent[i]
      BY <1>2, <2>3, <2>5, <3>1
    <3>2. CASE spent'[i] # spent[i]
      <4>1. i = req[c].ip /\ req[c].bearer # None /\ spent'[i] = Append(spent[i], minute)
        BY <1>0, <2>1, <2>4, <3>2
      <4> QED
        BY <2>6, <4>1
    <3> QED
      BY <3>1, <3>2
  <2> QED
    BY <2>7 DEF TriedInv, Many
<1>6. ASSUME \A c \in Poster, ip \in Ip, a \in Asked : ~Arrives(c, ip, a[1], a[2]), ~MinutePasses,
             \A c \in Poster : ~Refused(c)
      PROVE  TriedInv'
  <2>1. \A ip \in Ip : Triers(ip)' \subseteq Triers(ip)
    <3>1. CASE \A c \in Poster, u \in Member : ~MintBegins(c, u)
      BY <1>6, <3>1, OthersFade, FewerTryOrMint
    <3>2. ASSUME NEW c \in Poster, NEW u \in Member, MintBegins(c, u) PROVE \A ip \in Ip : Triers(ip)' \subseteq Triers(ip)
      <4>1. Goes(c, [pc |-> "minting", user |-> u, now |-> minute])
        BY <3>2 DEF MintBegins
      <4>2. Alone(c) /\ req'[c] = [pc |-> "minting", user |-> u, now |-> minute]
        BY <4>1, GoesAlone
      <4>3. req'[c].pc = "minting"
        BY <4>2
      <4> QED
        BY <4>2, <4>3 DEF Triers, Tried, Alone
    <3> QED
      BY <3>1, <3>2
  <2>2. minute' = minute /\ \A ip \in Ip : spent'[ip] = spent[ip]
    <3>1. CASE \A c \in Poster : ~Admits(c)
      BY <1>6, <3>1, OthersSpendNothing
    <3>2. ASSUME NEW c \in Poster, Admits(c) PROVE minute' = minute /\ \A ip \in Ip : spent'[ip] = spent[ip]
      <4>1. req[c].bearer \in Token
        BY <1>0, <3>2, RequestShapes DEF Admits, At, Late, Resolved
      <4>2. minute' = minute /\ (spent' = spent \/ spent' = [spent EXCEPT ![req[c].bearer] = Append(@, minute)])
        BY <3>2 DEF Admits, World, Charge
      <4> QED
        BY <1>0, <4>1, <4>2
    <3> QED
      BY <3>1, <3>2
  <2>3. ASSUME NEW ip \in Ip PROVE SpentIn(ip)' <= SpentIn(ip)
    BY <1>1, <2>2, <2>3 DEF SpentIn
  <2> QED
    BY <1>2, <2>1, <2>3 DEF TriedInv, Many
<1> QED
  BY <1>3, <1>4, <1>5, <1>6

----------------------------------------------------------------------------
(* The live tokens of a member. *)

LEMMA OthersKeepTheRows ==
  ASSUME HostConstants, HostTypeInv, RowsStay, HostNext,
         \A c \in Poster, t \in Token, m \in SUBSET Module, life \in Lives \cup {None} : ~MintCommits(c, t, m, life)
  PROVE  SameRows(rows')
<1>0. req \in [Poster -> Request] /\ SameRows(rows)
  BY DEF HostTypeInv, SameRows
<1>1. CASE rows' = rows
  BY <1>0, <1>1
<1>2. ASSUME NEW c \in Poster, FoundClosed(c) PROVE SameRows(rows')
  <2>1. req[c].bearer \in Token /\ rows[req[c].bearer] # None
    BY <1>0, <1>2, RequestShapes DEF FoundClosed, At, RowsStay, Late, Resolved
  <2> QED
    BY <1>2, <2>1, RowWrites DEF FoundClosed
<1>3. ASSUME NEW c \in Poster, Touches(c) PROVE SameRows(rows')
  <2>1. req[c].bearer \in Token /\ rows[req[c].bearer] # None /\ req[c].now \in Nat
    BY <1>0, <1>3, RequestShapes DEF Touches, At, RowsStay, Late, Resolved
  <2>2. rows' = rows \/ rows' = [rows EXCEPT ![req[c].bearer].used = req[c].now]
    BY <1>3 DEF Touches
  <2> QED
    BY <2>1, <2>2, RowWrites
<1>4. ASSUME NEW c \in Poster, PatchCommits(c) PROVE SameRows(rows')
  <2>1. req[c].bearer \in Token /\ rows[req[c].bearer] # None /\ req[c].modules \in SUBSET Module
    BY <1>0, <1>4, RequestShapes DEF PatchCommits, At, RowsStay, Patching
  <2> QED
    BY <1>4, <2>1, RowWrites DEF PatchCommits
<1>5. ASSUME NEW c \in Poster, RevokeCommits(c) PROVE SameRows(rows')
  <2>1. req[c].bearer \in Token /\ rows[req[c].bearer] # None
    BY <1>0, <1>5, RequestShapes DEF RevokeCommits, At, RowsStay, Revoking
  <2> QED
    BY <1>5, <2>1, RowWrites DEF RevokeCommits
<1>6. CASE \A c \in Poster : ~FoundClosed(c) /\ ~Touches(c) /\ ~PatchCommits(c) /\ ~RevokeCommits(c)
  <2>1. rows' = rows
    BY <1>6 DEF HostNext, Serves, MinutePasses, RoleChanges, LogsIn, Arrives, LooksUp, LookupFails, Remembers, Asks, Refused, Admits,
                Acquires, HangsUp, Starts, Answers, MintBegins, PatchBegins, RevokeBegins
  <2> QED
    BY <1>1, <2>1
<1> QED
  BY <1>2, <1>3, <1>4, <1>5, <1>6

LEMMA LiveStep ==
  ASSUME HostConstants, HostTypeInv, HostTypeInv', RowsStay, LiveInv, HostNext
  PROVE  LiveInv'
<1> DEFINE Many == Cardinality(Poster)
<1>0. /\ req \in [Poster -> Request] /\ rows \in [Token -> TokenRow \cup {None}] /\ None \notin TokenRow
      /\ MaxTokens \in Nat /\ minute \in Nat /\ minute' \in Nat /\ minute <= minute'
      /\ IsFiniteSet(Poster) /\ IsFiniteSet(Token) /\ Many \in Nat
  <2>1. minute' = minute \/ minute' = minute + 1
    BY DEF HostNext, Serves, MinutePasses, RoleChanges, LogsIn, Arrives, LooksUp, LookupFails, Remembers, Asks, FoundClosed, Touches,
           Refused, Admits, Acquires, HangsUp, Starts, Answers, MintBegins, MintCommits, PatchBegins, PatchCommits,
           RevokeBegins, RevokeCommits, World
  <2> QED
    BY <2>1, FS_CardinalityType DEF HostTypeInv, HostConstants
<1> HIDE DEF Many
<1>1. ASSUME NEW u \in Member
      PROVE  /\ LiveOnes(u) \subseteq Token /\ LiveOnes(u)' \subseteq Token
             /\ Minters(u) \subseteq Poster /\ Minters(u)' \subseteq Poster
             /\ CountLive(u, minute) = Cardinality(LiveOnes(u)) /\ CountLive(u, minute)' = Cardinality(LiveOnes(u)')
             /\ Cardinality(LiveOnes(u)) \in Nat /\ Cardinality(LiveOnes(u)') \in Nat
             /\ Cardinality(Minters(u)) \in Nat /\ Cardinality(Minters(u)') \in Nat /\ Cardinality(Minters(u)') <= Many
             /\ IsFiniteSet(LiveOnes(u)) /\ IsFiniteSet(Minters(u))
  <2>1. /\ LiveOnes(u) \subseteq Token /\ LiveOnes(u)' \subseteq Token
        /\ Minters(u) \subseteq Poster /\ Minters(u)' \subseteq Poster
    BY DEF LiveOnes, Minters
  <2>2. CountLive(u, minute) = Cardinality(LiveOnes(u)) /\ CountLive(u, minute)' = Cardinality(LiveOnes(u)')
    BY DEF CountLive, LiveOnes
  <2> QED
    BY <1>0, <2>1, <2>2, FewerInSubset DEF Many
<1>2. ASSUME NEW u \in Member, LiveOnes(u)' \subseteq LiveOnes(u), Minters(u)' \subseteq Minters(u)
      PROVE  CountLive(u, minute)' + Cardinality(Minters(u)') < MaxTokens + Many
  <2>1. Cardinality(LiveOnes(u)') <= Cardinality(LiveOnes(u)) /\ Cardinality(Minters(u)') <= Cardinality(Minters(u))
    BY <1>1, <1>2, FewerInSubset
  <2>2. Cardinality(LiveOnes(u)) + Cardinality(Minters(u)) < MaxTokens + Many
    BY <1>1 DEF LiveInv, Many
  <2> DEFINE a == Cardinality(LiveOnes(u))
             b == Cardinality(LiveOnes(u)')
             m == Cardinality(Minters(u))
             n == Cardinality(Minters(u)')
  <2>3. a \in Nat /\ b \in Nat /\ m \in Nat /\ n \in Nat /\ b <= a /\ n <= m /\ a + m < MaxTokens + Many
    BY <1>1, <2>1, <2>2
  <2> HIDE DEF a, b, m, n
  <2>4. b + n < MaxTokens + Many
    BY <1>0, <2>3
  <2> QED
    BY <1>1, <2>4 DEF b, n
<1>3. ASSUME SameRows(rows') PROVE \A u \in Member : LiveOnes(u)' \subseteq LiveOnes(u)
  <2>1. ASSUME NEW t \in Token, rows'[t] # None, ~rows'[t].revoked, minute' < rows'[t].expires
        PROVE  rows[t] # None /\ ~rows[t].revoked /\ minute < rows[t].expires /\ rows'[t].user = rows[t].user
    <3>1. rows[t] # None /\ ~rows[t].revoked /\ rows'[t].user = rows[t].user /\ rows'[t].expires = rows[t].expires
      BY <1>3, <2>1 DEF SameRows
    <3>2. rows[t].expires \in Nat
      BY <1>0, <3>1 DEF TokenRow
    <3> QED
      BY <1>0, <2>1, <3>1, <3>2
  <2> QED
    BY <2>1 DEF LiveOnes, TokenAlive
<1>4. ASSUME NEW c \in Poster, NEW t \in Token, NEW mods \in SUBSET Module, NEW life \in Lives \cup {None},
             MintCommits(c, t, mods, life)
      PROVE  LiveInv'
  <2>1. req[c].pc = "minting" /\ rows[t] = None /\ Ends(c) /\ minute' = minute
        /\ \E r : r.user = req[c].user /\ rows' = [rows EXCEPT ![t] = r]
    BY <1>4 DEF MintCommits, At, World
  <2>2. Alone(c) /\ req'[c] = Done /\ Done.pc = "done"
    BY <2>1, GoesAlone DEF Done
  <2>3. rows'[t].user = req[c].user /\ \A x \in Token \ {t} : rows'[x] = rows[x]
    BY <1>0, <2>1
  <2>4. \A u \in Member : Minters(u)' \subseteq Minters(u) /\ LiveOnes(u)' \subseteq LiveOnes(u) \cup {t}
    BY <2>1, <2>2, <2>3 DEF Minters, At, Alone, LiveOnes, TokenAlive
  <2>5. ASSUME NEW u \in Member, req[c].user # u PROVE LiveOnes(u)' \subseteq LiveOnes(u)
    BY <2>3, <2>4, <2>5 DEF LiveOnes
  <2>6. ASSUME NEW u \in Member, req[c].user = u PROVE CountLive(u, minute)' + Cardinality(Minters(u)') < MaxTokens + Many
    <3>1. c \in Minters(u) /\ c \notin Minters(u)'
      BY <2>1, <2>2, <2>6 DEF Minters, At
    <3>2. Minters(u)' \subseteq Minters(u) \ {c}
      BY <2>4, <3>1
    <3>3. Cardinality(Minters(u) \ {c}) = Cardinality(Minters(u)) - 1 /\ IsFiniteSet(Minters(u) \ {c})
      BY <1>1, <3>1, FS_RemoveElement
    <3>4. Cardinality(Minters(u)') <= Cardinality(Minters(u)) - 1
      BY <3>2, <3>3, FewerInSubset
    <3>50. /\ IsFiniteSet(LiveOnes(u) \cup {t})
           /\ \/ Cardinality(LiveOnes(u) \cup {t}) = Cardinality(LiveOnes(u))
              \/ Cardinality(LiveOnes(u) \cup {t}) = Cardinality(LiveOnes(u)) + 1
      BY <1>1, FS_AddElement
    <3>5. IsFiniteSet(LiveOnes(u) \cup {t}) /\ Cardinality(LiveOnes(u) \cup {t}) <= Cardinality(LiveOnes(u)) + 1
      <4>1. Cardinality(LiveOnes(u)) \in Nat
        BY <1>1
      <4> HIDE DEF LiveOnes
      <4> QED
        BY <3>50, <4>1
    <3>6. Cardinality(LiveOnes(u)') <= Cardinality(LiveOnes(u) \cup {t}) /\ Cardinality(LiveOnes(u) \cup {t}) \in Nat
      BY <2>4, <3>5, FewerInSubset
    <3>7. Cardinality(LiveOnes(u)) + Cardinality(Minters(u)) < MaxTokens + Many
      BY <1>1 DEF LiveInv, Many
    <3> DEFINE a == Cardinality(LiveOnes(u))
               b == Cardinality(LiveOnes(u)')
               d == Cardinality(LiveOnes(u) \cup {t})
               m == Cardinality(Minters(u))
               n == Cardinality(Minters(u)')
    <3>8. /\ a \in Nat /\ b \in Nat /\ m \in Nat /\ n \in Nat /\ d \in Nat
          /\ b <= d /\ d <= a + 1 /\ n <= m - 1 /\ a + m < MaxTokens + Many
      BY <1>1, <3>4, <3>5, <3>6, <3>7
    <3> HIDE DEF a, b, d, m, n
    <3>9. b + n < MaxTokens + Many
      BY <1>0, <3>8
    <3> QED
      BY <1>1, <3>9 DEF b, n
  <2> QED
    BY <1>2, <2>4, <2>5, <2>6 DEF LiveInv, Many
<1>5. ASSUME \A c \in Poster, t \in Token, m \in SUBSET Module, life \in Lives \cup {None} : ~MintCommits(c, t, m, life)
      PROVE  LiveInv'
  <2>1. \A u \in Member : LiveOnes(u)' \subseteq LiveOnes(u)
    BY <1>3, <1>5, OthersKeepTheRows
  <2>2. CASE \A u \in Member : Minters(u)' \subseteq Minters(u)
    BY <1>2, <2>1, <2>2 DEF LiveInv, Many
  <2>3. ASSUME NEW c \in Poster, NEW u \in Member, MintBegins(c, u) PROVE LiveInv'
    <3>1. CountLive(u, minute) < MaxTokens /\ Goes(c, [pc |-> "minting", user |-> u, now |-> minute])
      BY <2>3 DEF MintBegins
    <3>2. Alone(c) /\ req'[c] = [pc |-> "minting", user |-> u, now |-> minute]
      BY <3>1, GoesAlone
    <3>3. \A v \in Member \ {u} : Minters(v)' \subseteq Minters(v)
      BY <3>2 DEF Minters, At, Alone
    <3>4. Cardinality(LiveOnes(u)') <= Cardinality(LiveOnes(u))
      BY <1>1, <2>1, FewerInSubset
    <3> DEFINE a == Cardinality(LiveOnes(u))
               b == Cardinality(LiveOnes(u)')
               n == Cardinality(Minters(u)')
    <3>5. a \in Nat /\ b \in Nat /\ n \in Nat /\ b <= a /\ a < MaxTokens /\ n <= Many
      BY <1>1, <3>1, <3>4
    <3> HIDE DEF a, b, n
    <3>6. b + n < MaxTokens + Many
      BY <1>0, <3>5
    <3>7. CountLive(u, minute)' + Cardinality(Minters(u)') < MaxTokens + Many
      BY <1>1, <3>6 DEF b, n
    <3> QED
      BY <1>2, <2>1, <3>3, <3>7 DEF LiveInv, Many
  <2>4. ASSUME NEW c \in Poster, NEW ip \in Ip, NEW a \in Asked, Arrives(c, ip, a[1], a[2])
        PROVE  \A u \in Member : Minters(u)' \subseteq Minters(u)
    <3>1. CASE UNCHANGED req
      BY <3>1 DEF Minters, At
    <3>2. CASE ~UNCHANGED req
      <4> DEFINE r == IF a[1] # None /\ Spent(fails, ip) THEN Done
                      ELSE [pc |-> IF a[1] = None THEN "unresolved" ELSE "looking",
                            ip |-> ip, bearer |-> a[1], ask |-> a[2], now |-> minute]
      <4>1. Goes(c, r)
        BY <2>4, <3>2 DEF Arrives
      <4>2. r.pc # "minting"
        BY DEF Done
      <4> HIDE DEF r
      <4>3. Alone(c) /\ req'[c] = r
        BY <4>1, GoesAlone
      <4> QED
        BY <4>2, <4>3 DEF Minters, At, Alone
    <3> QED
      BY <3>1, <3>2
  <2> QED
    BY <2>2, <2>3, <2>4, OthersFade, FewerTryOrMint
<1> QED
  BY <1>4, <1>5

----------------------------------------------------------------------------
(* The theorems. *)

LEMMA HostBegins ==
  ASSUME HostConstants, HostInit
  PROVE  HostInv
<1>0. /\ minute = 0 /\ rows = [t \in Token |-> None] /\ req = [c \in Poster |-> Done]
      /\ calls = Unused(Token) /\ anon = Unused(Ip) /\ fails = Unused(Ip)
      /\ held = [t \in Token |-> 0] /\ spent = [k \in Token \cup Ip |-> <<>>]
      /\ Window \in Nat /\ Rate \in Nat /\ Rate # 0 /\ Width \in Nat /\ MaxTokens \in Nat /\ IsFiniteSet(Poster) /\ Poster # {}
  BY DEF HostInit, HostConstants
<1>1. <<>> \in Seq(Nat) /\ Len(<<>>) = 0 /\ DOMAIN <<>> = {}
  BY EmptySeq
<1>2. \A at \in Int : After(<<>>, at) = 0
  BY <1>1, AfterNone
<1>3. ASSUME NEW K PROVE Unused(K) \in Limiter(K) /\ Timely(Unused(K)) /\ \A k \in K : Unused(K).hits[k] = <<>>
  BY <1>0, <1>1 DEF Unused, Limiter, Timely, InOrder
<1>4. Done \in Request /\ Done.pc = "done" /\ \A c \in Poster : req[c] = Done
  BY <1>0 DEF Request, Done
<1>5. HostTypeInv
  BY <1>0, <1>1, <1>3, <1>4 DEF HostTypeInv, HostInit, Ranks
<1>6. RowsStay
  BY <1>4 DEF RowsStay
<1>7. SpentInv
  <2>1. \A k \in Token \cup Ip : spent[k] = <<>>
    BY <1>0
  <2> QED
    BY <1>0, <1>1, <1>2, <1>3, <2>1 DEF SpentInv
<1>8. Cardinality({}) = 0 /\ Cardinality(Poster) \in Nat /\ Cardinality(Poster) # 0
  BY <1>0, FS_EmptySet, FS_CardinalityType
<1>9. HeldInv
  <2>1. \A t \in Token : Holders(t) = {}
    BY <1>4 DEF Holders, Holds
  <2>2. \A t \in Token : Cardinality(Holders(t)) = 0
    BY <1>8, <2>1, Zenon
  <2>3. \A t \in Token : held[t] = 0
    BY <1>0
  <2>4. 0 <= Width
    BY <1>0
  <2> QED
    BY <2>2, <2>3, <2>4, Zenon DEF HeldInv
<1>10. TriedInv
  <2>1. \A ip \in Ip : Triers(ip) = {} /\ SpentIn(ip) = 0
    BY <1>0, <1>2, <1>4 DEF Triers, Tried, SpentIn
  <2>2. \A ip \in Ip : Cardinality(Triers(ip)) = 0
    BY <1>8, <2>1, Zenon
  <2> QED
    BY <1>0, <1>8, <2>1, <2>2 DEF TriedInv
<1>11. LiveInv
  <2>1. \A u \in Member : Minters(u) = {} /\ CountLive(u, minute) = 0
    BY <1>0, <1>4, <1>8 DEF Minters, At, CountLive, TokenAlive
  <2>2. \A u \in Member : Cardinality(Minters(u)) = 0
    BY <1>8, <2>1, Zenon
  <2> QED
    BY <1>0, <1>8, <2>1, <2>2 DEF LiveInv
<1> QED
  BY <1>5, <1>6, <1>7, <1>9, <1>10, <1>11 DEF HostInv

LEMMA HostGoesOn ==
  ASSUME HostConstants, HostInv, [HostNext]_hostVars
  PROVE  HostInv'
<1>1. CASE HostNext
  <2>1. HostTypeInv' /\ RowsStay'
    BY <1>1, TypeStep DEF HostInv, SpentInv
  <2> QED
    BY <1>1, <2>1, SpentStep, HeldStep, TriedStep, LiveStep DEF HostInv
<1>2. CASE UNCHANGED hostVars
  BY <1>2 DEF hostVars, HostInv, HostTypeInv, RowsStay, SpentInv, Timely, HeldInv, Holders, Holds, TriedInv, Triers, Tried,
              SpentIn, LiveInv, CountLive, TokenAlive, Minters, At
<1> QED
  BY <1>1, <1>2

LEMMA HostKeeps ==
  ASSUME HostConstants, HostInv
  PROVE  WithinLimits
<1>1. ASSUME NEW t \in Token PROVE SpentIn(t) <= Rate
  <2>1. /\ minute - Window \in Int /\ calls.hits[t] \in Seq(Nat) /\ Rate \in Nat /\ spent[t] \in Seq(Nat)
        /\ SpentIn(t) = After(spent[t], minute - Window)
    BY DEF HostConstants, HostInv, HostTypeInv, Limiter, SpentIn
  <2>2. After(spent[t], minute - Window) <= After(calls.hits[t], minute - Window) /\ Len(calls.hits[t]) <= Rate
    BY <2>1 DEF HostInv, SpentInv
  <2> DEFINE a == After(spent[t], minute - Window)
             b == After(calls.hits[t], minute - Window)
             n == Len(calls.hits[t])
  <2>3. a \in Nat /\ b \in Nat /\ n \in Nat /\ b <= n /\ a <= b /\ n <= Rate
    BY <2>1, <2>2, LateAreFinite
  <2> HIDE DEF a, b, n
  <2>4. a <= Rate
    BY <2>1, <2>3
  <2> QED
    BY <2>1, <2>4 DEF a
<1>2. \A t \in Token : held[t] = Cardinality({c \in Poster : Holds(c) /\ req[c].bearer = t}) /\ held[t] <= Width
  BY DEF HostInv, HeldInv, Holders
<1>3. AnswersFit
  BY DEF HostConstants, AnswersFit, Wire
<1> QED
  BY <1>1, <1>2, <1>3 DEF WithinLimits, HostInv, TriedInv, Triers, LiveInv, Minters

\* A token's calls in any minute stay within its budget and hold exactly the slots they
\* took, never more than there are; what is asked first and recorded later (the bearers
\* that fail from one address, the live tokens of a member) overshoots by no more than the
\* requests already past the question (limits.go, http.go:151-166, tokens_http.go:176-180).
\* And an answer, cut with its notes and its structured half, fits its limit (host.go).
THEOREM BudgetsHold ==
  ASSUME HostConstants
  PROVE  HostSpec => []WithinLimits
<1>1. HostInit => HostInv
  BY HostBegins
<1>2. HostInv /\ [HostNext]_hostVars => HostInv'
  BY HostGoesOn
<1>3. HostInv => WithinLimits
  BY HostKeeps
<1> QED
  BY <1>1, <1>2, <1>3, PTL DEF HostSpec

----------------------------------------------------------------------------
(* The limit on failed logins. *)

LoginTypeInv ==
  /\ now \in Nat /\ tracked \in [Key -> Windows \cup {Absent}] /\ lastSweep \in Int
  /\ attempt \in [Visitor -> Logins \cup {Absent}] /\ failed \in [Key -> Seq(Nat)]

\* The keys a login has left to charge: the address and the account, or the account.
LoginKeys ==
  \A c \in Visitor : attempt[c] # Absent =>
    \/ Len(attempt[c].keys) = 2 /\ attempt[c].keys[1] # attempt[c].keys[2]
    \/ Len(attempt[c].keys) = 1

\* What a key's window counts, and that no failure is later than its end; what is
\* not tracked any more failed before.
Counts(k, w, times) ==
  /\ w = Absent => \A n \in DOMAIN times : times[n] < now
  /\ w # Absent => /\ w.start <= now /\ w.count = After(times, w.start - 1)
                 /\ \A n \in DOMAIN times : times[n] < w.start + LoginWindow
CountedInv == \A k \in Key : Counts(k, tracked[k], failed[k])

ChargedInv ==
  \A k \in Key : ~Over(tracked[k]) =>
    tracked[k].count + Cardinality(Charging(k)) < Attempts + Cardinality(Visitor)

TrackedInv == Cardinality(Tracked(tracked)) <= MaxTracked + 1

LoginInv == LoginTypeInv /\ LoginKeys /\ CountedInv /\ ChargedInv /\ TrackedInv

\* The limiter counts as this module does.
LEMMA SameCounting ==
  /\ \A S : IsFiniteSet(S) <=> IsFiniteSet(S)
  /\ \A S : Cardinality(S) = Cardinality(S)
<1>1. \A S : IsFiniteSet(S) <=> IsFiniteSet(S)
  BY DEF IsFiniteSet, IsFiniteSet
<1>2. \A S : Cardinality(S) = Cardinality(S)
  BY DEF Cardinality, Cardinality
<1> QED
  BY <1>1, <1>2

LEMMA SinceIsAfter ==
  ASSUME LoginTypeInv, NEW k \in Key, NEW at \in Nat
  PROVE  FailedSince(k, at) = After(failed[k], at - 1)
<1>1. failed[k] \in Seq(Nat)
  BY DEF LoginTypeInv
<1>2. \A n \in DOMAIN failed[k] : failed[k][n] \in Nat
  BY <1>1, ElementOfSeq, LenProperties
<1>3. {n \in DOMAIN failed[k] : failed[k][n] >= at} = {n \in DOMAIN failed[k] : failed[k][n] > at - 1}
  BY <1>2
<1> QED
  BY <1>3, SameCounting DEF FailedSince, After

\* The keys are finitely many.
LEMMA KeysAreFinite ==
  ASSUME LoginConstants, NEW v
  PROVE  /\ IsFiniteSet(Key) /\ IsFiniteSet(Tracked(v)) /\ Cardinality(Tracked(v)) \in Nat
         /\ Tracked(v) \subseteq Key
<1>1. IsFiniteSet(Address) /\ IsFiniteSet(Account)
  BY SameCounting DEF LoginConstants
<1>2. IsFiniteSet(Account \cup {Absent})
  BY <1>1, FS_AddElement
<1>3. IsFiniteSet(Key)
  BY <1>1, <1>2, FS_Product DEF Key
<1>4. Tracked(v) \subseteq Key
  BY DEF Tracked
<1> QED
  BY <1>3, <1>4, FewerInSubset

\* A sweep forgets nothing that still counts.
LEMMA SweepKeeps ==
  ASSUME LoginConstants, LoginTypeInv, CountedInv
  PROVE  /\ \A k \in Key : SweptKeys[k] \in {tracked[k], Absent}
         /\ \A k \in Key : ~Wiped => Counts(k, SweptKeys[k], failed[k])
         /\ \A k \in Key : Wiped => SweptKeys[k] = Absent
         /\ Cardinality(Tracked(SweptKeys)) <= MaxTracked
<1>1. now \in Nat /\ LoginWindow \in Nat /\ MaxTracked \in Nat /\ Absent \notin Windows
      /\ tracked \in [Key -> Windows \cup {Absent}] /\ failed \in [Key -> Seq(Nat)]
  BY DEF LoginTypeInv, LoginConstants
<1>2. ASSUME NEW k \in Key PROVE Running[k] \in {tracked[k], Absent} /\ Counts(k, Running[k], failed[k])
  <2>1. Running[k] = IF Over(tracked[k]) THEN Absent ELSE tracked[k]
    BY DEF Running
  <2>2. Counts(k, tracked[k], failed[k])
    BY DEF CountedInv
  <2>3. CASE tracked[k] = Absent
    BY <2>1, <2>2, <2>3
  <2>4. CASE tracked[k] # Absent /\ Over(tracked[k])
    <3>1. tracked[k] \in Windows /\ now - tracked[k].start >= LoginWindow
      BY <1>1, <2>4 DEF Over
    <3>2. \A n \in DOMAIN failed[k] : failed[k][n] < tracked[k].start + LoginWindow /\ failed[k][n] \in Nat
      BY <1>1, <2>2, <2>4, ElementOfSeq, LenProperties DEF Counts
    <3>3. \A n \in DOMAIN failed[k] : failed[k][n] < now
      BY <1>1, <3>1, <3>2 DEF Windows
    <3> QED
      BY <2>1, <2>4, <3>3 DEF Counts
  <2>5. CASE tracked[k] # Absent /\ ~Over(tracked[k])
    BY <2>1, <2>2, <2>5
  <2> QED
    BY <2>3, <2>4, <2>5
<1>3. CASE ~SweepDue
  <2>1. SweptKeys = tracked /\ ~Wiped /\ ~(Cardinality(Tracked(tracked)) > MaxTracked)
    BY <1>3, SameCounting DEF SweptKeys, Wiped, SweepDue
  <2>2. Cardinality(Tracked(tracked)) <= MaxTracked
    BY <1>1, <2>1, KeysAreFinite
  <2> QED
    BY <2>1, <2>2 DEF CountedInv
<1>4. CASE SweepDue /\ ~(Cardinality(Tracked(Running)) > MaxTracked)
  <2>1. SweptKeys = Running /\ ~Wiped
    BY <1>4, SameCounting DEF SweptKeys, Wiped
  <2>2. Cardinality(Tracked(Running)) <= MaxTracked
    BY <1>1, <1>4, KeysAreFinite
  <2> QED
    BY <1>2, <2>1, <2>2
<1>5. CASE SweepDue /\ Cardinality(Tracked(Running)) > MaxTracked
  <2>1. SweptKeys = [k \in Key |-> Absent] /\ Wiped
    BY <1>5, SameCounting DEF SweptKeys, Wiped
  <2>2. Tracked(SweptKeys) = {}
    BY <2>1 DEF Tracked
  <2>3. Cardinality(Tracked(SweptKeys)) = 0
    BY <2>2, FS_EmptySet, Zenon
  <2> QED
    BY <1>1, <2>1, <2>3
<1> QED
  BY <1>3, <1>4, <1>5

\* A key is charged or cleared, and the login goes on to the next.
LEMMA OnwardShape ==
  ASSUME LoginConstants, LoginTypeInv, LoginKeys, NEW c \in Visitor, attempt[c] # Absent, MovesOn(c)
  PROVE  /\ attempt' \in [Visitor -> Logins \cup {Absent}] /\ (\A d \in Visitor \ {c} : attempt'[d] = attempt[d])
         /\ NextKey(c) \in Key /\ \E n \in DOMAIN attempt[c].keys : NextKey(c) = attempt[c].keys[n]
         /\ \/ attempt'[c] = Absent
            \/ /\ attempt'[c] # Absent /\ attempt'[c].pc = attempt[c].pc /\ Len(attempt'[c].keys) = 1
               /\ DOMAIN attempt'[c].keys = {1} /\ attempt'[c].keys[1] # NextKey(c)
               /\ DOMAIN attempt[c].keys = {1, 2} /\ attempt'[c].keys[1] = attempt[c].keys[2]
<1> DEFINE r == attempt[c]
<1>1. r \in Logins /\ attempt \in [Visitor -> Logins \cup {Absent}] /\ Absent \notin Logins
  BY DEF LoginTypeInv, LoginConstants
<1>2. r.keys \in Seq(Key) /\ r.pc \in {"asking", "failing", "clearing"}
  BY <1>1 DEF Logins
<1>3. attempt' = [attempt EXCEPT ![c] = IF Len(r.keys) = 1 THEN Absent ELSE [r EXCEPT !.keys = Tail(r.keys)]]
  BY DEF MovesOn, Left
<1>4. NextKey(c) = r.keys[1]
  BY DEF NextKey
<1>5. (Len(r.keys) = 2 /\ r.keys[1] # r.keys[2]) \/ Len(r.keys) = 1
  BY DEF LoginKeys
<1>6. DOMAIN r.keys = 1..Len(r.keys)
  BY <1>2, LenProperties
<1> HIDE DEF r
<1>7. CASE Len(r.keys) = 1
  <2>1. attempt'[c] = Absent /\ attempt' \in [Visitor -> Logins \cup {Absent}] /\ \A d \in Visitor \ {c} : attempt'[d] = attempt[d]
    BY <1>1, <1>3, <1>7
  <2>2. 1 \in DOMAIN r.keys
    BY <1>6, <1>7
  <2>3. r.keys[1] \in Key
    BY <1>2, <1>6, <2>2, ElementOfSeq
  <2> QED
    BY <1>4, <2>1, <2>2, <2>3 DEF r
<1>8. CASE Len(r.keys) = 2 /\ r.keys[1] # r.keys[2]
  <2>1. DOMAIN r.keys = {1, 2}
    BY <1>6, <1>8
  <2>2. r.keys[1] \in Key /\ r.keys[2] \in Key
    BY <1>2, <1>6, <2>1, ElementOfSeq
  <2>3. Tail(r.keys) \in Seq(Key) /\ Len(Tail(r.keys)) = 1 /\ Tail(r.keys)[1] = r.keys[2] /\ DOMAIN Tail(r.keys) = {1}
    <3>1. r.keys # <<>>
      BY <1>8, EmptySeq
    <3>2. Tail(r.keys) \in Seq(Key) /\ Len(Tail(r.keys)) = 1 /\ \A i \in 1..1 : Tail(r.keys)[i] = r.keys[i + 1]
      BY <1>2, <1>8, <3>1, HeadTailProperties
    <3>3. DOMAIN Tail(r.keys) = 1..1
      BY <3>2, LenProperties
    <3> QED
      BY <3>2, <3>3
  <2>4. [r EXCEPT !.keys = Tail(r.keys)] \in Logins
    BY <1>1, <2>3 DEF Logins
  <2>5. attempt'[c] = [r EXCEPT !.keys = Tail(r.keys)] /\ \A d \in Visitor \ {c} : attempt'[d] = attempt[d]
    BY <1>1, <1>3, <1>8
  <2>6. attempt' \in [Visitor -> Logins \cup {Absent}]
    BY <1>1, <1>3, <1>8, <2>4
  <2>7. attempt'[c].pc = r.pc /\ attempt'[c].keys = Tail(r.keys) /\ attempt'[c] # Absent
    BY <1>1, <2>4, <2>5 DEF Logins
  <2> QED
    BY <1>4, <1>8, <2>1, <2>2, <2>3, <2>5, <2>6, <2>7 DEF r
<1> QED
  BY <1>5, <1>7, <1>8

LEMMA LoginTypeStep ==
  ASSUME LoginConstants, LoginTypeInv, LoginKeys, CountedInv, LoginNext
  PROVE  LoginTypeInv' /\ LoginKeys'
<1>0. /\ now \in Nat /\ tracked \in [Key -> Windows \cup {Absent}] /\ lastSweep \in Int
      /\ attempt \in [Visitor -> Logins \cup {Absent}] /\ failed \in [Key -> Seq(Nat)]
      /\ Absent \notin Logins /\ Absent \notin Account /\ Absent \notin Windows
  BY DEF LoginTypeInv, LoginConstants
<1>1. CASE TimePasses
  BY <1>0, <1>1 DEF TimePasses, LoginTypeInv, LoginKeys
<1>2. ASSUME NEW c \in Visitor, NEW ip \in Address, NEW a \in Account, TriesLogin(c, ip, a)
      PROVE  LoginTypeInv' /\ LoginKeys'
  <2> DEFINE r == [pc |-> "asking", keys |-> <<<<ip, Absent>>, <<ip, a>>>>]
  <2>1. attempt' = [attempt EXCEPT ![c] = r] /\ UNCHANGED <<now, tracked, lastSweep, failed>>
    BY <1>2 DEF TriesLogin, Keys
  <2>2. <<ip, Absent>> \in Key /\ <<ip, a>> \in Key /\ <<ip, Absent>> # <<ip, a>>
    BY <1>0 DEF Key
  <2>3. r \in Logins /\ Len(r.keys) = 2 /\ r.keys[1] # r.keys[2]
    BY <2>2 DEF Logins
  <2> HIDE DEF r
  <2> QED
    BY <1>0, <2>1, <2>3 DEF LoginTypeInv, LoginKeys
<1>3. ASSUME NEW c \in Visitor, Answered(c) PROVE LoginTypeInv' /\ LoginKeys'
  <2>1. attempt[c] # Absent /\ UNCHANGED <<now, tracked, lastSweep, failed>>
    BY <1>3 DEF Answered
  <2>2. PICK next \in {Absent, [attempt[c] EXCEPT !.pc = "failing"], [attempt[c] EXCEPT !.pc = "clearing"]} :
          attempt' = [attempt EXCEPT ![c] = next]
    BY <1>3 DEF Answered
  <2>3. attempt[c] \in Logins
    BY <1>0, <2>1
  <2>4. next = Absent \/ (next \in Logins /\ next.keys = attempt[c].keys)
    BY <2>3 DEF Logins
  <2> QED
    BY <1>0, <2>1, <2>2, <2>4 DEF LoginTypeInv, LoginKeys
<1>4. ASSUME NEW c \in Visitor, Fail(c) PROVE LoginTypeInv' /\ LoginKeys'
  <2> DEFINE k == NextKey(c)
             v == SweptKeys
             w == Counted(v[k])
  <2>1. attempt[c] # Absent /\ MovesOn(c) /\ now' = now /\ lastSweep' \in {now, lastSweep}
    BY <1>4 DEF Fail
  <2>2. k \in Key /\ attempt' \in [Visitor -> Logins \cup {Absent}] /\ LoginKeys'
    BY <2>1, OnwardShape DEF LoginKeys
  <2>3. v \in [Key -> Windows \cup {Absent}]
    <3>1. v = tracked \/ v = Running \/ v = [j \in Key |-> Absent]
      BY DEF SweptKeys
    <3> QED
      BY <1>0, <3>1 DEF Running
  <2>4. tracked' = [v EXCEPT ![k] = w]
    BY <1>4 DEF Fail
  <2>5. w \in Windows
    <3>1. CASE Over(v[k])
      BY <1>0, <3>1 DEF Windows, Counted
    <3>2. CASE ~Over(v[k])
      <4>1. v[k] \in Windows
        BY <2>2, <2>3, <3>2 DEF Over
      <4> QED
        BY <3>2, <4>1 DEF Windows, Counted
    <3> QED
      BY <3>1, <3>2
  <2>6. tracked' \in [Key -> Windows \cup {Absent}]
    <3> HIDE DEF v, w, k
    <3> QED
      BY <2>3, <2>4, <2>5
  <2>7. failed' \in [Key -> Seq(Nat)]
    <3>1. failed' = [j \in Key |-> LET times == IF Wiped THEN <<>> ELSE failed[j]
                                          IN IF j = k THEN Append(times, now) ELSE times]
      BY <1>4 DEF Fail
    <3>2. \A s \in Seq(Nat) : Append(s, now) \in Seq(Nat)
      BY <1>0, AppendProperties
    <3>3. <<>> \in Seq(Nat)
      BY EmptySeq
    <3> QED
      BY <1>0, <3>1, <3>2, <3>3
  <2> QED
    BY <1>0, <2>1, <2>2, <2>6, <2>7 DEF LoginTypeInv
<1>5. ASSUME NEW c \in Visitor, Reset(c) PROVE LoginTypeInv' /\ LoginKeys'
  <2>1. attempt[c] # Absent /\ MovesOn(c) /\ now' = now /\ lastSweep' = lastSweep
        /\ tracked' = [tracked EXCEPT ![NextKey(c)] = Absent] /\ failed' = [failed EXCEPT ![NextKey(c)] = <<>>]
    BY <1>5 DEF Reset
  <2>2. attempt' \in [Visitor -> Logins \cup {Absent}] /\ LoginKeys'
    BY <2>1, OnwardShape DEF LoginKeys
  <2>3. <<>> \in Seq(Nat)
    BY EmptySeq
  <2> QED
    BY <1>0, <2>1, <2>2, <2>3 DEF LoginTypeInv
<1> QED
  BY <1>1, <1>2, <1>3, <1>4, <1>5 DEF LoginNext

\* What a failed login leaves of the map and of the history.
LEMMA FailShape ==
  ASSUME LoginConstants, LoginTypeInv, LoginKeys, CountedInv, NEW c \in Visitor, Fail(c),
         NEW k, k = NextKey(c)
  PROVE  /\ k \in Key /\ now' = now
         /\ tracked'[k] = Counted(SweptKeys[k])
         /\ \A j \in Key \ {k} : tracked'[j] = SweptKeys[j]
         /\ failed'[k] = Append(IF Wiped THEN <<>> ELSE failed[k], now)
         /\ \A j \in Key \ {k} : failed'[j] = IF Wiped THEN <<>> ELSE failed[j]
<1>1. attempt[c] # Absent /\ MovesOn(c) /\ now' = now
  BY DEF Fail
<1>2. k \in Key
  BY <1>1, OnwardShape
<1>3. tracked' = [SweptKeys EXCEPT ![k] = Counted(SweptKeys[k])]
  BY DEF Fail
<1>4. DOMAIN SweptKeys = Key
  BY DEF SweptKeys, Running, LoginTypeInv
<1>5. failed' = [j \in Key |-> LET times == IF Wiped THEN <<>> ELSE failed[j]
                                      IN IF j = k THEN Append(times, now) ELSE times]
  BY DEF Fail
<1>6. failed'[k] = Append(IF Wiped THEN <<>> ELSE failed[k], now)
      /\ \A j \in Key \ {k} : failed'[j] = IF Wiped THEN <<>> ELSE failed[j]
  BY <1>2, <1>5
<1> QED
  BY <1>1, <1>2, <1>3, <1>4, <1>6

\* A failure is counted in the window that runs, or begins one.
LEMMA CountedOnce ==
  ASSUME LoginConstants, now \in Nat, NEW w \in Windows \cup {Absent}, NEW times \in Seq(Nat), NEW k,
         Counts(k, w, times)
  PROVE  /\ Counted(w) # Absent /\ Counted(w).start <= now
         /\ Counted(w).count = After(Append(times, now), Counted(w).start - 1)
         /\ \A n \in DOMAIN Append(times, now) : Append(times, now)[n] < Counted(w).start + LoginWindow
<1> DEFINE q == Counted(w)
           s == Append(times, now)
<1>1. LoginWindow \in Nat /\ LoginWindow # 0 /\ Absent \notin Windows
  BY DEF LoginConstants
<1>2. /\ s \in Seq(Nat) /\ DOMAIN times = 1..Len(times) /\ Len(times) \in Nat /\ DOMAIN s = 1..(Len(times) + 1)
      /\ s[Len(times) + 1] = now /\ \A n \in 1..Len(times) : s[n] = times[n] /\ times[n] \in Nat
  BY AppendProperties, LenProperties, ElementOfSeq
<1>3. \A n \in DOMAIN s : s[n] = now \/ (n \in DOMAIN times /\ s[n] = times[n])
  BY <1>2
<1>4. ASSUME NEW at \in Int PROVE After(s, at) = After(times, at) + IF now > at THEN 1 ELSE 0
  BY AfterAppend
<1>5. CASE Over(w)
  <2>1. q = [start |-> now, count |-> 1]
    BY <1>5 DEF Counted
  <2>2. \A n \in DOMAIN times : times[n] < now
    <3>1. CASE w = Absent
      BY <3>1 DEF Counts
    <3>2. CASE w # Absent
      <4>1. w.start \in Nat /\ now - w.start >= LoginWindow
        BY <1>5, <3>2 DEF Over, Windows
      <4>2. \A n \in DOMAIN times : times[n] < w.start + LoginWindow
        BY <3>2 DEF Counts
      <4>3. \A n \in DOMAIN times : times[n] \in Nat
        BY <1>2
      <4> QED
        BY <1>1, <4>1, <4>2, <4>3
    <3> QED
      BY <3>1, <3>2
  <2>3. \A n \in DOMAIN times : times[n] <= now - 1
    BY <1>2, <2>2
  <2>4. After(times, now - 1) = 0
    BY <2>3, AfterNone
  <2>5. After(s, now - 1) = 1
    BY <1>4, <2>4
  <2>6. \A n \in DOMAIN s : s[n] < now + LoginWindow
    <3>1. \A n \in DOMAIN times : times[n] < now + LoginWindow
      BY <1>1, <1>2, <2>2
    <3> QED
      BY <1>1, <1>3, <3>1
  <2>7. q # Absent
    BY <1>1, <2>1 DEF Windows
  <2> QED
    BY <2>1, <2>5, <2>6, <2>7
<1>6. CASE ~Over(w)
  <2>1. w # Absent /\ w \in Windows /\ ~(now - w.start >= LoginWindow)
    BY <1>6 DEF Over
  <2>2. w.start \in Nat /\ w.count \in Nat /\ q = [w EXCEPT !.count = w.count + 1]
    BY <1>6, <2>1 DEF Counted, Windows
  <2>3. q.start = w.start /\ q.count = w.count + 1 /\ q \in Windows
    BY <2>1, <2>2 DEF Windows
  <2>4. w.start <= now /\ w.count = After(times, w.start - 1) /\ \A n \in DOMAIN times : times[n] < w.start + LoginWindow
    BY <2>1 DEF Counts
  <2>5. After(s, w.start - 1) = w.count + 1
    BY <1>4, <2>2, <2>4
  <2>6. now < w.start + LoginWindow
    BY <1>1, <2>1, <2>2
  <2> QED
    BY <1>1, <1>3, <2>3, <2>4, <2>5, <2>6
<1> QED
  BY <1>5, <1>6

LEMMA CountedStep ==
  ASSUME LoginConstants, LoginTypeInv, LoginTypeInv', LoginKeys, CountedInv, LoginNext
  PROVE  CountedInv'
<1>0. /\ now \in Nat /\ tracked \in [Key -> Windows \cup {Absent}] /\ failed \in [Key -> Seq(Nat)]
      /\ Absent \notin Windows
  BY DEF LoginTypeInv, LoginConstants
<1>01. <<>> \in Seq(Nat) /\ DOMAIN <<>> = {}
  BY EmptySeq
<1>1. CASE TimePasses
  <2>1. now' = now + 1 /\ tracked' = tracked /\ failed' = failed
    BY <1>1 DEF TimePasses
  <2>2. ASSUME NEW k \in Key PROVE Counts(k, tracked[k], failed[k])'
    <3>1. Counts(k, tracked[k], failed[k]) /\ (tracked[k] # Absent => tracked[k].start \in Nat)
      BY <1>0 DEF CountedInv, Windows
    <3>2. \A n \in DOMAIN failed[k] : failed[k][n] \in Nat
      BY <1>0, ElementOfSeq, LenProperties
    <3> QED
      BY <1>0, <2>1, <3>1, <3>2 DEF Counts
  <2> QED
    BY <2>2 DEF CountedInv
<1>2. CASE UNCHANGED <<now, tracked, failed>>
  BY <1>2 DEF CountedInv, Counts
<1>3. ASSUME NEW c \in Visitor, Fail(c) PROVE CountedInv'
  <2>0. PICK k : k = NextKey(c)
    OBVIOUS
  <2>1. /\ k \in Key /\ now' = now
        /\ tracked'[k] = Counted(SweptKeys[k])
        /\ \A j \in Key \ {k} : tracked'[j] = SweptKeys[j]
        /\ failed'[k] = Append(IF Wiped THEN <<>> ELSE failed[k], now)
        /\ \A j \in Key \ {k} : failed'[j] = IF Wiped THEN <<>> ELSE failed[j]
    BY <1>3, <2>0, FailShape
  <2>2. ASSUME NEW j \in Key
        PROVE  /\ SweptKeys[j] \in Windows \cup {Absent}
               /\ Counts(j, SweptKeys[j], IF Wiped THEN <<>> ELSE failed[j])
               /\ (IF Wiped THEN <<>> ELSE failed[j]) \in Seq(Nat)
    <3>1. CASE Wiped
      <4>1. SweptKeys[j] = Absent
        BY <3>1, SweepKeeps
      <4> QED
        BY <1>01, <3>1, <4>1 DEF Counts
    <3>2. CASE ~Wiped
      <4>1. Counts(j, SweptKeys[j], failed[j]) /\ SweptKeys[j] \in {tracked[j], Absent}
        BY <3>2, SweepKeeps
      <4> QED
        BY <1>0, <3>2, <4>1
    <3> QED
      BY <3>1, <3>2
  <2>3. Counts(k, tracked[k], failed[k])'
    <3> DEFINE w == SweptKeys[k]
               times == IF Wiped THEN <<>> ELSE failed[k]
    <3>1. w \in Windows \cup {Absent} /\ times \in Seq(Nat) /\ Counts(k, w, times)
      BY <2>1, <2>2
    <3>2. tracked'[k] = Counted(w) /\ failed'[k] = Append(times, now) /\ now' = now
      BY <2>1
    <3> HIDE DEF w, times
    <3>3. /\ Counted(w) # Absent /\ Counted(w).start <= now
          /\ Counted(w).count = After(Append(times, now), Counted(w).start - 1)
          /\ \A n \in DOMAIN Append(times, now) : Append(times, now)[n] < Counted(w).start + LoginWindow
      BY <1>0, <3>1, CountedOnce
    <3> QED
      BY <3>2, <3>3 DEF Counts
  <2>4. ASSUME NEW j \in Key, j # k PROVE Counts(j, tracked[j], failed[j])'
    <3>1. tracked'[j] = SweptKeys[j] /\ failed'[j] = (IF Wiped THEN <<>> ELSE failed[j]) /\ now' = now
      BY <2>1, <2>4
    <3> QED
      BY <2>2, <3>1 DEF Counts
  <2> QED
    BY <2>3, <2>4 DEF CountedInv
<1>4. ASSUME NEW c \in Visitor, Reset(c) PROVE CountedInv'
  <2>1. now' = now /\ tracked' = [tracked EXCEPT ![NextKey(c)] = Absent]
        /\ failed' = [failed EXCEPT ![NextKey(c)] = <<>>]
    BY <1>4 DEF Reset
  <2>2. ASSUME NEW k \in Key PROVE Counts(k, tracked[k], failed[k])'
    <3>1. CASE k = NextKey(c)
      BY <1>0, <1>01, <2>1, <3>1 DEF Counts
    <3>2. CASE k # NextKey(c)
      BY <1>0, <2>1, <3>2 DEF Counts, CountedInv
    <3> QED
      BY <3>1, <3>2
  <2> QED
    BY <2>2 DEF CountedInv
<1> QED
  BY <1>1, <1>2, <1>3, <1>4 DEF LoginNext, TriesLogin, Answered

\* Only a login that starts begins to charge a key.
LEMMA FewerCharge ==
  ASSUME LoginConstants, LoginTypeInv, LoginKeys, LoginNext,
         \A c \in Visitor, ip \in Address, a \in Account : ~TriesLogin(c, ip, a)
  PROVE  \A k \in Key : Charging(k)' \subseteq Charging(k)
<1>0. attempt \in [Visitor -> Logins \cup {Absent}] /\ Absent \notin Logins
  BY DEF LoginTypeInv, LoginConstants
<1>1. CASE attempt' = attempt
  BY <1>1 DEF Charging
<1>2. ASSUME NEW c \in Visitor, Answered(c) PROVE \A k \in Key : Charging(k)' \subseteq Charging(k)
  <2>1. attempt[c] # Absent /\ attempt[c].pc = "asking" /\ attempt[c] \in Logins
    BY <1>0, <1>2 DEF Answered
  <2>2. PICK next \in {Absent, [attempt[c] EXCEPT !.pc = "failing"], [attempt[c] EXCEPT !.pc = "clearing"]} :
          attempt' = [attempt EXCEPT ![c] = next]
    BY <1>2 DEF Answered
  <2>3. next = Absent \/ next.keys = attempt[c].keys
    BY <2>1 DEF Logins
  <2>4. attempt'[c] = next /\ \A d \in Visitor \ {c} : attempt'[d] = attempt[d]
    BY <1>0, <2>2
  <2> QED
    BY <2>1, <2>3, <2>4 DEF Charging
<1>3. ASSUME NEW c \in Visitor, attempt[c] # Absent, MovesOn(c)
      PROVE  \A k \in Key : Charging(k)' \subseteq Charging(k)
  <2>1. /\ \A d \in Visitor \ {c} : attempt'[d] = attempt[d]
        /\ \/ attempt'[c] = Absent
           \/ /\ attempt'[c].pc = attempt[c].pc
              /\ DOMAIN attempt'[c].keys = {1} /\ DOMAIN attempt[c].keys = {1, 2} /\ attempt'[c].keys[1] = attempt[c].keys[2]
    BY <1>3, OnwardShape
  <2> QED
    BY <1>3, <2>1 DEF Charging
<1> QED
  BY <1>1, <1>2, <1>3 DEF LoginNext, TimePasses, Fail, Reset

LEMMA ChargedStep ==
  ASSUME LoginConstants, LoginTypeInv, LoginTypeInv', LoginKeys, CountedInv, ChargedInv, LoginNext
  PROVE  ChargedInv'
<1> DEFINE Many == Cardinality(Visitor)
<1>0. /\ now \in Nat /\ tracked \in [Key -> Windows \cup {Absent}] /\ Absent \notin Windows
      /\ tracked' \in [Key -> Windows \cup {Absent}] /\ LoginWindow \in Nat
      /\ attempt \in [Visitor -> Logins \cup {Absent}] /\ Absent \notin Logins
      /\ Attempts \in Nat /\ Attempts # 0 /\ IsFiniteSet(Visitor) /\ Many \in Nat
  BY SameCounting, FS_CardinalityType DEF LoginTypeInv, LoginConstants
<1> HIDE DEF Many
<1>1. ASSUME NEW k \in Key
      PROVE  /\ Charging(k) \subseteq Visitor /\ Charging(k)' \subseteq Visitor
             /\ IsFiniteSet(Charging(k))
             /\ Cardinality(Charging(k)) \in Nat /\ Cardinality(Charging(k)') \in Nat
             /\ Cardinality(Charging(k)') <= Many
  <2>1. Charging(k) \subseteq Visitor /\ Charging(k)' \subseteq Visitor
    BY DEF Charging
  <2> QED
    BY <1>0, <2>1, FewerInSubset DEF Many
\* The window runs on, or it is gone, and no one more charges the key.
<1>2. ASSUME NEW k \in Key, Charging(k)' \subseteq Charging(k), tracked'[k] \in {tracked[k], Absent},
             now' \in Nat, now <= now', ~Over(tracked[k])'
      PROVE  tracked'[k].count + Cardinality(Charging(k)') < Attempts + Many
  <2>1. tracked'[k] = tracked[k] /\ tracked[k] # Absent /\ tracked[k] \in Windows
    BY <1>0, <1>2 DEF Over
  <2>2. ~Over(tracked[k])
    BY <1>0, <1>2, <2>1 DEF Over, Windows
  <2>3. tracked[k].count + Cardinality(Charging(k)) < Attempts + Many /\ tracked[k].count \in Nat
    BY <2>1, <2>2 DEF ChargedInv, Many, Windows
  <2>4. Cardinality(Charging(k)') <= Cardinality(Charging(k))
    BY <1>1, <1>2, FewerInSubset
  <2> DEFINE a == Cardinality(Charging(k))
             b == Cardinality(Charging(k)')
             m == tracked[k].count
  <2>5. a \in Nat /\ b \in Nat /\ m \in Nat /\ b <= a /\ m + a < Attempts + Many
    BY <1>1, <2>3, <2>4
  <2> HIDE DEF a, b, m
  <2>6. m + b < Attempts + Many
    BY <1>0, <2>5
  <2> QED
    BY <2>1, <2>6 DEF m, b
<1>3. ASSUME NEW c \in Visitor, NEW ip \in Address, NEW a \in Account, TriesLogin(c, ip, a) PROVE ChargedInv'
  <2>1. /\ Allows(<<ip, Absent>>) /\ Allows(<<ip, a>>) /\ UNCHANGED <<now, tracked>>
        /\ attempt' = [attempt EXCEPT ![c] = [pc |-> "asking", keys |-> <<<<ip, Absent>>, <<ip, a>>>>]]
    BY <1>3 DEF TriesLogin, Keys
  <2>2. /\ attempt'[c].keys = <<<<ip, Absent>>, <<ip, a>>>> /\ \A d \in Visitor \ {c} : attempt'[d] = attempt[d]
    BY <1>0, <2>1
  <2>3. ASSUME NEW k \in Key \ {<<ip, Absent>>, <<ip, a>>} PROVE Charging(k)' \subseteq Charging(k)
    <3>1. k \notin {attempt'[c].keys[n] : n \in DOMAIN attempt'[c].keys}
      BY <2>2, <2>3
    <3> QED
      BY <2>2, <3>1 DEF Charging
  <2>4. ASSUME NEW k \in Key, Allows(k), ~Over(tracked[k])'
        PROVE  tracked'[k].count + Cardinality(Charging(k)') < Attempts + Many
    <3>1. ~Over(tracked[k]) /\ tracked'[k] = tracked[k]
      BY <2>1, <2>4 DEF Over
    <3>2. tracked[k] \in Windows /\ tracked[k].count < Attempts
      BY <1>0, <2>4, <3>1 DEF Over, Allows
    <3> DEFINE b == Cardinality(Charging(k)')
               m == tracked[k].count
    <3>3. b \in Nat /\ m \in Nat /\ m < Attempts /\ b <= Many
      BY <1>1, <3>2 DEF Windows
    <3> HIDE DEF b, m
    <3>4. m + b < Attempts + Many
      BY <1>0, <3>3
    <3> QED
      BY <3>1, <3>4 DEF m, b
  <2>5. ASSUME NEW k \in Key, ~Over(tracked[k])'
        PROVE  tracked'[k].count + Cardinality(Charging(k)') < Attempts + Many
    <3>1. CASE k \in {<<ip, Absent>>, <<ip, a>>}
      BY <2>1, <2>4, <2>5, <3>1
    <3>2. CASE k \notin {<<ip, Absent>>, <<ip, a>>}
      <4>1. now' \in Nat /\ now <= now' /\ tracked'[k] \in {tracked[k], Absent}
        BY <1>0, <2>1
      <4> QED
        BY <1>2, <2>3, <2>5, <3>2, <4>1
    <3> QED
      BY <3>1, <3>2
  <2> QED
    BY <2>5 DEF ChargedInv, Many
<1>4. ASSUME NEW c \in Visitor, Fail(c) PROVE ChargedInv'
  <2>0. PICK k : k = NextKey(c)
    OBVIOUS
  <2>1. /\ k \in Key /\ now' = now
        /\ tracked'[k] = Counted(SweptKeys[k])
        /\ \A j \in Key \ {k} : tracked'[j] = SweptKeys[j]
    BY <1>4, <2>0, FailShape
  <2>2. \A j \in Key : SweptKeys[j] \in {tracked[j], Absent}
    BY SweepKeeps
  <2>3. \A j \in Key : Charging(j)' \subseteq Charging(j)
    <3>1. attempt[c] # Absent /\ MovesOn(c)
      BY <1>4 DEF Fail
    <3>2. /\ \A d \in Visitor \ {c} : attempt'[d] = attempt[d]
          /\ \/ attempt'[c] = Absent
             \/ /\ attempt'[c].pc = attempt[c].pc
                /\ DOMAIN attempt'[c].keys = {1} /\ DOMAIN attempt[c].keys = {1, 2}
                /\ attempt'[c].keys[1] = attempt[c].keys[2]
      BY <3>1, OnwardShape
    <3> QED
      BY <3>1, <3>2 DEF Charging
  <2>4. c \in Charging(k) /\ c \notin Charging(k)'
    <3>1. attempt[c] # Absent /\ attempt[c].pc = "failing" /\ MovesOn(c)
      BY <1>4 DEF Fail
    <3>2. /\ \E n \in DOMAIN attempt[c].keys : k = attempt[c].keys[n]
          /\ attempt'[c] = Absent \/ (DOMAIN attempt'[c].keys = {1} /\ attempt'[c].keys[1] # k)
      BY <2>0, <3>1, OnwardShape
    <3> QED
      BY <3>1, <3>2 DEF Charging
  <2>5. Cardinality(Charging(k)') <= Cardinality(Charging(k)) - 1
    <3>1. Charging(k)' \subseteq Charging(k) \ {c}
      BY <2>1, <2>3, <2>4
    <3>2. /\ Cardinality(Charging(k) \ {c}) = Cardinality(Charging(k)) - 1
          /\ IsFiniteSet(Charging(k) \ {c})
      BY <1>1, <2>1, <2>4, FS_RemoveElement
    <3> QED
      BY <3>1, <3>2, FewerInSubset
  <2>6. Cardinality(Charging(k)) <= Many
    BY <1>0, <1>1, <2>1, FewerInSubset DEF Many
  <2>7. tracked'[k].count + Cardinality(Charging(k)') < Attempts + Many
    <3> DEFINE a == Cardinality(Charging(k))
               b == Cardinality(Charging(k)')
    <3>1. a \in Nat /\ b \in Nat /\ b <= a - 1 /\ a <= Many
      BY <1>1, <2>1, <2>5, <2>6
    <3>2. CASE Over(SweptKeys[k])
      <4>1. tracked'[k].count = 1
        BY <2>1, <3>2 DEF Counted
      <4> HIDE DEF a, b
      <4>2. 1 + b < Attempts + Many
        BY <1>0, <3>1
      <4> QED
        BY <4>1, <4>2 DEF b
    <3>3. CASE ~Over(SweptKeys[k])
      <4>1. SweptKeys[k] = tracked[k] /\ tracked[k] # Absent /\ tracked[k] \in Windows /\ ~Over(tracked[k])
        BY <1>0, <2>1, <2>2, <3>3 DEF Over
      <4> DEFINE m == tracked[k].count
      <4>2. tracked'[k].count = m + 1 /\ m \in Nat
        BY <2>1, <3>3, <4>1 DEF Counted, Windows
      <4>3. m + a < Attempts + Many
        BY <2>1, <4>1 DEF ChargedInv, Many
      <4> HIDE DEF a, b, m
      <4>4. (m + 1) + b < Attempts + Many
        BY <1>0, <3>1, <4>2, <4>3
      <4> QED
        BY <4>2, <4>4 DEF b
    <3> QED
      BY <3>2, <3>3
  <2>8. ASSUME NEW j \in Key, j # k, ~Over(tracked[j])'
        PROVE  tracked'[j].count + Cardinality(Charging(j)') < Attempts + Many
    <3>1. tracked'[j] \in {tracked[j], Absent} /\ now' \in Nat /\ now <= now'
      BY <1>0, <2>1, <2>2, <2>8
    <3> QED
      BY <1>2, <2>3, <2>8, <3>1
  <2> QED
    BY <2>7, <2>8 DEF ChargedInv, Many
<1>5. ASSUME \A c \in Visitor, ip \in Address, a \in Account : ~TriesLogin(c, ip, a), \A c \in Visitor : ~Fail(c)
      PROVE  ChargedInv'
  <2>1. \A k \in Key : Charging(k)' \subseteq Charging(k)
    BY <1>5, FewerCharge
  <2>2. now' \in Nat /\ now <= now' /\ \A k \in Key : tracked'[k] \in {tracked[k], Absent}
    BY <1>0, <1>5 DEF LoginNext, TimePasses, Answered, Reset
  <2> QED
    BY <1>2, <2>1, <2>2 DEF ChargedInv, Many
<1> QED
  BY <1>3, <1>4, <1>5

LEMMA TrackedStep ==
  ASSUME LoginConstants, LoginTypeInv, LoginKeys, CountedInv, TrackedInv, LoginNext
  PROVE  TrackedInv'
<1>0. MaxTracked \in Nat /\ tracked \in [Key -> Windows \cup {Absent}]
  BY DEF LoginConstants, LoginTypeInv
<1>1. CASE tracked' = tracked
  BY <1>1 DEF TrackedInv, Tracked
<1>2. ASSUME NEW c \in Visitor, Fail(c) PROVE TrackedInv'
  <2>0. PICK k : k = NextKey(c)
    OBVIOUS
  <2>1. k \in Key /\ \A j \in Key \ {k} : tracked'[j] = SweptKeys[j]
    BY <1>2, <2>0, FailShape
  <2> DEFINE S == Tracked(SweptKeys)
             T == Tracked(tracked')
  <2>2. T \subseteq S \cup {k}
    BY <2>1 DEF Tracked
  <2>3. IsFiniteSet(S) /\ Cardinality(S) \in Nat /\ Cardinality(S) <= MaxTracked
    BY KeysAreFinite, SweepKeeps
  <2> HIDE DEF S, T
  <2>4. IsFiniteSet(S \cup {k}) /\ (Cardinality(S \cup {k}) = Cardinality(S) \/ Cardinality(S \cup {k}) = Cardinality(S) + 1)
    BY <2>3, FS_AddElement
  <2>5. Cardinality(T) <= Cardinality(S \cup {k}) /\ Cardinality(T) \in Nat
    BY <2>2, <2>4, FewerInSubset
  <2>6. Cardinality(T) <= MaxTracked + 1
    BY <1>0, <2>3, <2>4, <2>5
  <2> QED
    BY <2>6 DEF T, TrackedInv
<1>3. ASSUME NEW c \in Visitor, Reset(c) PROVE TrackedInv'
  <2> DEFINE S == Tracked(tracked)
             T == Tracked(tracked')
  <2>1. \A k \in Key : tracked'[k] \in {tracked[k], Absent}
    BY <1>0, <1>3 DEF Reset
  <2>2. T \subseteq S
    BY <2>1 DEF Tracked
  <2>3. IsFiniteSet(S) /\ Cardinality(S) \in Nat /\ Cardinality(S) <= MaxTracked + 1
    BY KeysAreFinite DEF TrackedInv
  <2> HIDE DEF S, T
  <2>4. Cardinality(T) <= Cardinality(S) /\ Cardinality(T) \in Nat
    BY <2>2, <2>3, FewerInSubset
  <2>5. Cardinality(T) <= MaxTracked + 1
    BY <1>0, <2>3, <2>4
  <2> QED
    BY <2>5 DEF T, TrackedInv
<1> QED
  BY <1>1, <1>2, <1>3 DEF LoginNext, TimePasses, TriesLogin, Answered

LEMMA LoginsBegin ==
  ASSUME LoginConstants, LoginInit
  PROVE  LoginInv
<1>0. /\ now = 0 /\ tracked = [k \in Key |-> Absent] /\ lastSweep = 0 - LoginWindow
      /\ attempt = [c \in Visitor |-> Absent] /\ failed = [k \in Key |-> <<>>] /\ LoginWindow \in Nat /\ MaxTracked \in Nat
  BY DEF LoginInit, LoginConstants
<1>1. <<>> \in Seq(Nat) /\ DOMAIN <<>> = {}
  BY EmptySeq
<1>2. LoginTypeInv /\ LoginKeys
  BY <1>0, <1>1 DEF LoginTypeInv, LoginKeys
<1>3. CountedInv
  BY <1>0, <1>1 DEF CountedInv, Counts
<1>4. ChargedInv
  BY <1>0 DEF ChargedInv, Over
<1>5. TrackedInv
  <2>1. Tracked(tracked) = {}
    BY <1>0 DEF Tracked
  <2>2. Cardinality(Tracked(tracked)) = 0
    BY <2>1, FS_EmptySet, Zenon
  <2> QED
    BY <1>0, <2>2 DEF TrackedInv
<1> QED
  BY <1>2, <1>3, <1>4, <1>5 DEF LoginInv

LEMMA LoginsGoOn ==
  ASSUME LoginConstants, LoginInv, [LoginNext]_loginVars
  PROVE  LoginInv'
<1>1. CASE LoginNext
  BY <1>1, LoginTypeStep, CountedStep, ChargedStep, TrackedStep DEF LoginInv
<1>2. CASE UNCHANGED loginVars
  <2>1. UNCHANGED <<now, tracked, lastSweep, attempt, failed>>
    BY <1>2 DEF loginVars
  <2> QED
    BY <2>1 DEF LoginInv, LoginTypeInv, LoginKeys, CountedInv, Counts, ChargedInv, TrackedInv,
                Over, Charging, Tracked
<1> QED
  BY <1>1, <1>2

LEMMA LoginsKeep ==
  ASSUME LoginConstants, LoginInv
  PROVE  LoginsAreBounded
<1>0. /\ now \in Nat /\ tracked \in [Key -> Windows \cup {Absent}] /\ failed \in [Key -> Seq(Nat)]
  BY DEF LoginInv, LoginTypeInv
<1>1. ASSUME NEW k \in Key, tracked[k] = Absent PROVE FailedSince(k, now) = 0
  <2>1. \A n \in DOMAIN failed[k] : failed[k][n] < now
    BY <1>1 DEF LoginInv, CountedInv, Counts
  <2>2. \A n \in DOMAIN failed[k] : failed[k][n] <= now - 1
    <3>1. \A n \in DOMAIN failed[k] : failed[k][n] \in Nat
      BY <1>0, ElementOfSeq, LenProperties
    <3> QED
      BY <1>0, <2>1, <3>1
  <2>3. After(failed[k], now - 1) = 0
    BY <1>0, <2>2, AfterNone
  <2> QED
    BY <1>0, <2>3, SinceIsAfter DEF LoginInv
<1>2. ASSUME NEW k \in Key, ~Over(tracked[k])
      PROVE  /\ tracked[k].count = FailedSince(k, tracked[k].start)
             /\ tracked[k].count + Cardinality(Charging(k)) < Attempts + Cardinality(Visitor)
  <2>1. tracked[k] # Absent /\ tracked[k].start \in Nat
    BY <1>0, <1>2 DEF Over, Windows
  <2>2. tracked[k].count = After(failed[k], tracked[k].start - 1)
    BY <2>1 DEF LoginInv, CountedInv, Counts
  <2>3. tracked[k].count = FailedSince(k, tracked[k].start)
    BY <2>1, <2>2, SinceIsAfter DEF LoginInv
  <2>4. tracked[k].count + Cardinality(Charging(k)) < Attempts + Cardinality(Visitor)
    BY <1>2 DEF LoginInv, ChargedInv
  <2> QED
    BY <2>3, <2>4, SameCounting
<1>3. Cardinality(Tracked(tracked)) <= MaxTracked + 1
  BY SameCounting DEF LoginInv, TrackedInv
<1> QED
  BY <1>1, <1>2, <1>3 DEF LoginsAreBounded

\* A window of failed logins counts every failure since it began, also across the sweeps,
\* and admits no more of them than its budget and the logins already past the question;
\* the map of windows never grows beyond its bound (ratelimit.go:33-104, auth's login).
THEOREM LoginsStayBounded ==
  ASSUME LoginConstants
  PROVE  LoginSpec => []LoginsAreBounded
<1>1. LoginInit => LoginInv
  BY LoginsBegin
<1>2. LoginInv /\ [LoginNext]_loginVars => LoginInv'
  BY LoginsGoOn
<1>3. LoginInv => LoginsAreBounded
  BY LoginsKeep
<1> QED
  BY <1>1, <1>2, <1>3, PTL DEF LoginSpec
=============================================================================

------------------------------ MODULE Lexorank ------------------------------
(* Fractional order keys (platform/lexorank/lexorank.go): sequences of digits *)
(* ordered as strings are.  The code's alphabet has 62 digits.                *)
EXTENDS Integers, Sequences

CONSTANT Base

\* Keys as the code makes them: they do not end in the smallest digit.
Digits == 0..(Base - 1)
OrderKeys == {k \in Seq(Digits) : k # <<>> /\ k[Len(k)] # 0}

\* The order of the text: at the first place where they differ, a has ended or has the smaller digit.
Precedes(a, b) ==
  \E n \in DOMAIN b : /\ \A j \in 1..(n - 1) : j \in DOMAIN a /\ a[j] = b[j]
                      /\ n \in DOMAIN a => a[n] < b[n]

\* Past its end a key goes on with the smallest digit.
Digit(k, i) == IF i \in DOMAIN k THEN k[i] ELSE 0

\* What a digit has to stay below: the digit of b while all before are b's own, and any
\* once it is over or dropped below.
Ceiling(a, b, i) ==
  IF i \in DOMAIN b /\ \A j \in 1..(i - 1) : Digit(a, j) = b[j] THEN b[i] ELSE Base

\* With a up to the first place that has room, and there halfway.
Midpoint(a, b) ==
  LET room == {n \in 1..(Len(a) + Len(b) + 1) : Digit(a, n) + 1 < Ceiling(a, b, n)}
      last == CHOOSE n \in room : \A m \in room : n <= m
  IN [i \in 1..last |-> IF i < last THEN Digit(a, i) ELSE (Digit(a, i) + Ceiling(a, b, i)) \div 2]

\* An empty key is no bound.
Between(a, b) ==
  IF a # <<>> /\ b # <<>> /\ ~Precedes(a, b) THEN Midpoint(a, <<>>) ELSE Midpoint(a, b)

FirstKey == Between(<<>>, <<>>)
After(k) == Between(k, <<>>)

\* The largest of a set of keys; <<>> when there is none.
LastKey(K) == IF K = {} THEN <<>> ELSE CHOOSE k \in K : \A j \in K : j = k \/ Precedes(j, k)

\* What the stores' last...Position gives: after all of them.
AtTheEnd(K) == IF K = {} THEN FirstKey ELSE After(LastKey(K))

\* NKeys: n keys of one width, evenly spaced.
Capacity(n) == CHOOSE c \in {Base ^ w : w \in 1..(n + 1)} :
                 c > n /\ \A d \in {Base ^ w : w \in 1..(n + 1)} : d > n => c <= d
Width(n) == CHOOSE w \in 1..(n + 1) : Base ^ w = Capacity(n)
EncodeFixed(v, width) == [i \in 1..width |-> (v \div (Base ^ (width - i))) % Base]
NKeys(n) == [i \in 1..n |-> EncodeFixed(i * (Capacity(n) \div (n + 1)), Width(n))]
=============================================================================

---------------------------- MODULE QueueLemmas ----------------------------
(***************************************************************************)
(* What the proofs need to know of queues: which elements a sequence       *)
(* holds, whether it holds each of them once, and what pushing to it and   *)
(* taking from either end of it does to that.                              *)
(***************************************************************************)
EXTENDS Integers, Sequences, SequenceTheorems, TLAPS

Content(s) == {s[i] : i \in 1 .. Len(s)}
Once(s)    == \A i, j \in 1 .. Len(s) : s[i] = s[j] => i = j

\* A push to the tail.
LEMMA AppendContent ==
  ASSUME NEW S, NEW s \in Seq(S), NEW x \in S
  PROVE  /\ Content(Append(s, x)) = Content(s) \cup {x}
         /\ Once(s) /\ x \notin Content(s) => Once(Append(s, x))
  BY DEF Content, Once

\* A take from the head.
LEMMA TailContent ==
  ASSUME NEW S, NEW s \in Seq(S), s # <<>>, Once(s)
  PROVE  /\ Head(s) \in Content(s)
         /\ Content(Tail(s)) = Content(s) \ {Head(s)}
         /\ Once(Tail(s))
<1>1. /\ Tail(s) \in Seq(S) /\ Len(Tail(s)) = Len(s) - 1 /\ Len(s) \in Nat /\ Len(s) > 0
      /\ \A i \in 1 .. Len(Tail(s)) : Tail(s)[i] = s[i + 1]
      /\ Head(s) = s[1]
  OBVIOUS
<1>2. Once(Tail(s))
  BY <1>1 DEF Once
<1>3. ASSUME NEW x \in Content(Tail(s)) PROVE x \in Content(s) \ {Head(s)}
  BY <1>1 DEF Once, Content
<1>4. ASSUME NEW x \in Content(s), x # Head(s) PROVE x \in Content(Tail(s))
  <2>1. PICK i \in 1 .. Len(s) : x = s[i]
    BY DEF Content
  <2>2. i # 1 /\ i - 1 \in 1 .. Len(Tail(s)) /\ Tail(s)[i - 1] = s[i]
    BY <1>1, <1>4, <2>1
  <2> QED
    BY <2>1, <2>2 DEF Content
<1> QED
  BY <1>1, <1>2, <1>3, <1>4, SMTT(30) DEF Content

\* A take from the tail.
LEMMA FrontContent ==
  ASSUME NEW S, NEW s \in Seq(S), s # <<>>, Once(s)
  PROVE  LET f == SubSeq(s, 1, Len(s) - 1) IN
         /\ s[Len(s)] \in Content(s)
         /\ Content(f) = Content(s) \ {s[Len(s)]}
         /\ Once(f)
<1> DEFINE f == SubSeq(s, 1, Len(s) - 1)
<1>0. Len(s) \in Nat /\ Len(s) > 0
  OBVIOUS
<1>1. Len(f) = Len(s) - 1 /\ \A i \in 1 .. Len(s) - 1 : f[i] = s[i]
  <2> DEFINE n == Len(s) - 1
  <2>1. n \in Int /\ 1 \in Int /\ \A i \in 1 .. n : s[i] \in S
    BY <1>0
  <2> HIDE DEF n
  <2>2. /\ Len(SubSeq(s, 1, n)) = IF 1 <= n THEN n - 1 + 1 ELSE 0
        /\ \A i \in 1 .. n - 1 + 1 : SubSeq(s, 1, n)[i] = s[1 + i - 1]
    BY ONLY <2>1, SubSeqProperties
  <2>3. n \in Nat /\ n - 1 + 1 = n /\ \A i \in 1 .. n : 1 + i - 1 = i
    BY <1>0 DEF n
  <2>4. Len(SubSeq(s, 1, n)) = n
    BY <2>2, <2>3
  <2>5. ASSUME NEW i \in 1 .. n PROVE SubSeq(s, 1, n)[i] = s[i]
    <3>1. i \in 1 .. n - 1 + 1 /\ 1 + i - 1 = i
      BY <2>3
    <3>2. SubSeq(s, 1, n)[i] = s[1 + i - 1]
      BY <2>2, <3>1
    <3> QED
      BY <3>1, <3>2
  <2> QED
    BY <2>4, <2>5 DEF n
<1> HIDE DEF f
<1>2. Once(f)
  BY <1>0, <1>1 DEF Once
<1>3. Content(f) = Content(s) \ {s[Len(s)]}
  BY <1>0, <1>1 DEF Once, Content
<1>4. s[Len(s)] \in Content(s)
  BY <1>0 DEF Content
<1> QED
  BY <1>2, <1>3, <1>4 DEF f

\* A take from the middle.
LEMMA CutContent ==
  ASSUME NEW S, NEW s \in Seq(S), NEW k \in 1 .. Len(s), Once(s)
  PROVE  LET r == SubSeq(s, 1, k - 1) \o SubSeq(s, k + 1, Len(s)) IN
         /\ r \in Seq(S)
         /\ Content(r) = Content(s) \ {s[k]}
         /\ Once(r)
<1> DEFINE a == SubSeq(s, 1, k - 1)
           b == SubSeq(s, k + 1, Len(s))
           r == a \o b
<1>0. Len(s) \in Nat /\ k \in Nat /\ k >= 1 /\ k <= Len(s) /\ \A i \in 1 .. Len(s) : s[i] \in S
  OBVIOUS
<1>1. a \in Seq(S) /\ Len(a) = k - 1 /\ \A i \in 1 .. k - 1 : a[i] = s[i]
  <2> DEFINE n == k - 1
  <2>1. n \in Int /\ 1 \in Int /\ \A i \in 1 .. n : s[i] \in S
    BY <1>0
  <2>2. n \in Nat /\ n - 1 + 1 = n /\ \A i \in 1 .. n : 1 + i - 1 = i
    BY <1>0
  <2> HIDE DEF n
  <2>3. /\ SubSeq(s, 1, n) \in Seq(S)
        /\ Len(SubSeq(s, 1, n)) = IF 1 <= n THEN n - 1 + 1 ELSE 0
        /\ \A i \in 1 .. n - 1 + 1 : SubSeq(s, 1, n)[i] = s[1 + i - 1]
    BY ONLY <2>1, SubSeqProperties
  <2>4. Len(SubSeq(s, 1, n)) = n
    BY <2>2, <2>3
  <2>5. ASSUME NEW i \in 1 .. n PROVE SubSeq(s, 1, n)[i] = s[i]
    <3>1. i \in 1 .. n - 1 + 1 /\ 1 + i - 1 = i
      BY <2>2
    <3>2. SubSeq(s, 1, n)[i] = s[1 + i - 1]
      BY <2>3, <3>1
    <3> QED
      BY <3>1, <3>2
  <2> QED
    BY <2>3, <2>4, <2>5 DEF n
<1>2. b \in Seq(S) /\ Len(b) = Len(s) - k /\ \A i \in 1 .. Len(s) - k : b[i] = s[k + i]
  <2> DEFINE m == k + 1
             n == Len(s)
             d == n - m + 1
  <2>1. m \in Int /\ n \in Int /\ \A i \in m .. n : s[i] \in S
    BY <1>0
  <2>2. d = Len(s) - k /\ d \in Nat /\ (IF m <= n THEN d ELSE 0) = d
        /\ \A i \in 1 .. d : m + i - 1 = k + i
    BY <1>0
  <2> HIDE DEF m, n
  <2>3. /\ SubSeq(s, m, n) \in Seq(S)
        /\ Len(SubSeq(s, m, n)) = IF m <= n THEN n - m + 1 ELSE 0
        /\ \A i \in 1 .. n - m + 1 : SubSeq(s, m, n)[i] = s[m + i - 1]
    BY ONLY <2>1, SubSeqProperties
  <2> HIDE DEF d
  <2>4. /\ Len(SubSeq(s, m, n)) = IF m <= n THEN d ELSE 0
        /\ \A i \in 1 .. d : SubSeq(s, m, n)[i] = s[m + i - 1]
    BY <2>3 DEF d
  <2>5. ASSUME NEW i \in 1 .. d PROVE SubSeq(s, m, n)[i] = s[k + i]
    <3>1. m + i - 1 = k + i
      BY <2>2
    <3>2. SubSeq(s, m, n)[i] = s[m + i - 1]
      BY <2>4
    <3> QED
      BY <3>1, <3>2
  <2>6. Len(SubSeq(s, m, n)) = d
    BY <2>2, <2>4
  <2> QED
    BY <2>2, <2>3, <2>5, <2>6 DEF m, n
<1> HIDE DEF a, b
<1>3. /\ r \in Seq(S) /\ Len(r) = Len(s) - 1
      /\ \A i \in 1 .. Len(s) - 1 : r[i] = IF i < k THEN s[i] ELSE s[i + 1]
  <2>1. /\ r \in Seq(S) /\ Len(r) = Len(a) + Len(b)
        /\ \A i \in 1 .. Len(a) + Len(b) : r[i] = IF i <= Len(a) THEN a[i] ELSE b[i - Len(a)]
    BY <1>1, <1>2, ConcatProperties
  <2>2. ASSUME NEW i \in 1 .. Len(s) - 1, i < k PROVE r[i] = s[i]
    BY <1>0, <1>1, <1>2, <2>1, <2>2
  <2>3. ASSUME NEW i \in 1 .. Len(s) - 1, ~(i < k) PROVE r[i] = s[i + 1]
    <3>1. r[i] = b[i - (k - 1)] /\ i - (k - 1) \in 1 .. Len(s) - k
      BY <1>0, <1>1, <1>2, <2>1, <2>3
    <3>2. b[i - (k - 1)] = s[k + (i - (k - 1))] /\ k + (i - (k - 1)) = i + 1
      BY <1>0, <1>2, <3>1
    <3> QED
      BY <3>1, <3>2
  <2> QED
    BY <1>0, <1>1, <1>2, <2>1, <2>2, <2>3
<1> HIDE DEF r
<1>4. Once(r)
  BY <1>0, <1>3 DEF Once
<1>5. ASSUME NEW x \in Content(r) PROVE x \in Content(s) \ {s[k]}
  <2>1. PICK i \in 1 .. Len(s) - 1 : x = r[i]
    BY <1>3 DEF Content
  <2>2. PICK j \in 1 .. Len(s) : j # k /\ x = s[j]
    BY <1>0, <1>3, <2>1, SMTT(30)
  <2> QED
    BY <1>0, <2>2 DEF Content, Once
<1>6. ASSUME NEW x \in Content(s), x # s[k] PROVE x \in Content(r)
  <2>1. PICK j \in 1 .. Len(s) : x = s[j]
    BY DEF Content
  <2>2. CASE j < k
    BY <1>0, <1>3, <2>1, <2>2 DEF Content
  <2>3. CASE j > k
    <3>1. j - 1 \in 1 .. Len(s) - 1 /\ r[j - 1] = s[j]
      BY <1>0, <1>3, <2>3
    <3> QED
      BY <1>3, <2>1, <3>1 DEF Content
  <2> QED
    BY <1>0, <1>6, <2>1, <2>2, <2>3
<1>7. Content(r) = Content(s) \ {s[k]}
  BY <1>5, <1>6
<1> QED
  BY <1>3, <1>4, <1>7 DEF r, a, b

\* A queue without its head holds nothing new, whatever it holds twice.
LEMMA TailWithin ==
  ASSUME NEW S, NEW s \in Seq(S), s # <<>>
  PROVE  /\ Content(Tail(s)) \subseteq Content(s)
         /\ Content(s) = Content(Tail(s)) \cup {Head(s)}
<1>1. /\ Len(Tail(s)) = Len(s) - 1 /\ Len(s) \in Nat /\ Len(s) > 0
      /\ \A i \in 1 .. Len(Tail(s)) : Tail(s)[i] = s[i + 1]
      /\ Head(s) = s[1]
  OBVIOUS
<1>2. ASSUME NEW x \in Content(Tail(s)) PROVE x \in Content(s)
  BY <1>1 DEF Content
<1>3. ASSUME NEW x \in Content(s), x # Head(s) PROVE x \in Content(Tail(s))
  <2>1. PICK i \in 1 .. Len(s) : x = s[i]
    BY DEF Content
  <2>2. i # 1 /\ i - 1 \in 1 .. Len(Tail(s)) /\ Tail(s)[i - 1] = s[i]
    BY <1>1, <1>3, <2>1
  <2> QED
    BY <2>1, <2>2 DEF Content
<1>4. Head(s) \in Content(s)
  BY <1>1 DEF Content
<1> QED
  BY <1>2, <1>3, <1>4

\* What a queue holds is of the type it is a queue of.
LEMMA ContentTyped == ASSUME NEW S, NEW s \in Seq(S) PROVE Content(s) \subseteq S
  BY DEF Content

\* The queues with nothing and with one element in them.
LEMMA SmallContent ==
  /\ Content(<<>>) = {} /\ Once(<<>>)
  /\ \A x : Content(<<x>>) = {x} /\ Once(<<x>>)
  BY DEF Content, Once
\* What is left after the first k elements.
LEMMA DropContent ==
  ASSUME NEW S, NEW s \in Seq(S), NEW k \in 1 .. Len(s)
  PROVE  LET r == SubSeq(s, k + 1, Len(s)) IN
         /\ r \in Seq(S) /\ Len(r) = Len(s) - k
         /\ Content(r) = {s[i] : i \in (k + 1) .. Len(s)}
         /\ Once(s) => Once(r)
<1> DEFINE m == k + 1
           n == Len(s)
           r == SubSeq(s, m, n)
<1>0. n \in Nat /\ k \in Nat /\ k >= 1 /\ k <= n /\ \A i \in 1 .. n : s[i] \in S
  OBVIOUS
<1>1. /\ m \in Int /\ n \in Int /\ \A i \in m .. n : s[i] \in S
      /\ n - m + 1 = n - k /\ n - k \in Nat
      /\ \A i \in 1 .. (n - k) : m + i - 1 = k + i /\ k + i \in 1 .. n
  BY <1>0
<1> HIDE DEF m, n
<1>2. /\ SubSeq(s, m, n) \in Seq(S)
      /\ Len(SubSeq(s, m, n)) = IF m <= n THEN n - m + 1 ELSE 0
      /\ \A i \in 1 .. n - m + 1 : SubSeq(s, m, n)[i] = s[m + i - 1]
  BY ONLY <1>1, SubSeqProperties
<1>3. m = k + 1
  BY DEF m
<1>4. Len(r) = n - k
  BY <1>0, <1>1, <1>2, <1>3
<1>5. \A i \in 1 .. (n - k) : r[i] = s[k + i]
  BY <1>1, <1>2
<1>6. r \in Seq(S)
  BY <1>2
<1> HIDE DEF r
<1>7. Content(r) = {s[i] : i \in m .. n}
  <2>1. ASSUME NEW x \in Content(r) PROVE x \in {s[i] : i \in m .. n}
    BY <1>0, <1>3, <1>4, <1>5 DEF Content
  <2>2. ASSUME NEW i \in m .. n PROVE s[i] \in Content(r)
    <3>1. i - k \in 1 .. (n - k) /\ k + (i - k) = i
      BY <1>0, <1>3
    <3> QED
      BY <1>4, <1>5, <3>1 DEF Content
  <2> QED
    BY <2>1, <2>2
<1>8. ASSUME Once(s) PROVE Once(r)
  <2>1. \A i \in 1 .. Len(r) : r[i] = s[k + i] /\ k + i \in 1 .. n
    BY <1>1, <1>4, <1>5
  <2>2. n = Len(s)
    BY DEF n
  <2>3. ASSUME NEW i \in 1 .. Len(r), NEW j \in 1 .. Len(r), r[i] = r[j] PROVE i = j
    <3>1. k + i = k + j
      BY <1>8, <2>1, <2>2, <2>3 DEF Once
    <3>2. Len(r) \in Nat
      BY <1>1, <1>4
    <3> QED
      BY <1>0, <3>1, <3>2
  <2> QED
    BY <2>3 DEF Once
<1> QED
  BY <1>4, <1>6, <1>7, <1>8 DEF r, m, n
=============================================================================

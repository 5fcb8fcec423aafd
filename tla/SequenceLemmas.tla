--------------------------- MODULE SequenceLemmas ---------------------------
(***************************************************************************)
(* What the operators of the community modules do that the specifications  *)
(* of the server and of the child device are built from.                   *)
(***************************************************************************)
EXTENDS Integers, SequencesExt, SequenceTheorems, WellFoundedInduction, TLAPS

(* A non-empty set of naturals has the least element Min chooses.            *)
LEMMA MinIsLeast ==
  ASSUME NEW S, S \subseteq Nat, S # {}
  PROVE  Min(S) \in S /\ \A y \in S : Min(S) <= y
<1>1. \E x \in S : \A y \in S : <<y, x>> \notin OpToRel(<, Nat)
  BY NatLessThanWellFounded, WFMin, Zenon
<1>2. \E x \in S : \A y \in S : ~ (y < x)
  BY <1>1, Zenon DEF OpToRel
<1>3. \E x \in S : \A y \in S : x <= y
  BY ONLY <1>2, S \subseteq Nat
<1>. QED
  BY <1>3, Zenon DEF Min

(* RemoveAt closes the gap and keeps the rest in order.                      *)
LEMMA RemoveAtElements ==
  ASSUME NEW T, NEW q \in Seq(T), NEW i \in 1 .. Len(q)
  PROVE  /\ RemoveAt(q, i) \in Seq(T)
         /\ Len(RemoveAt(q, i)) = Len(q) - 1
         /\ \A j \in 1 .. Len(q) - 1 :
              RemoveAt(q, i)[j] = IF j < i THEN q[j] ELSE q[j + 1]
<1>. DEFINE a == SubSeq(q, 1, i - 1)
            b == SubSeq(q, i + 1, Len(q))
<1>1. /\ a \in Seq(T)
      /\ Len(a) = i - 1
      /\ \A j \in 1 .. i - 1 : a[j] = q[j]
  OBVIOUS
<1>2. /\ b \in Seq(T)
      /\ Len(b) = Len(q) - i
      /\ \A j \in 1 .. Len(q) - i : b[j] = q[i + j]
  OBVIOUS
<1>3. RemoveAt(q, i) = a \o b
  BY DEF RemoveAt
<1>. HIDE DEF a, b
<1>4. /\ a \o b \in Seq(T)
      /\ Len(a \o b) = Len(a) + Len(b)
      /\ \A j \in 1 .. Len(a) + Len(b) :
           (a \o b)[j] = IF j <= Len(a) THEN a[j] ELSE b[j - Len(a)]
  BY <1>1, <1>2, ConcatProperties
<1>5. ASSUME NEW j \in 1 .. Len(q) - 1
      PROVE  (a \o b)[j] = IF j < i THEN q[j] ELSE q[j + 1]
  <2>1. CASE j < i
    BY <1>1, <1>2, <1>4, <2>1
  <2>2. CASE ~ (j < i)
    <3>1. (a \o b)[j] = b[j - (i - 1)]
      BY <1>1, <1>2, <1>4, <2>2
    <3>2. j - (i - 1) \in 1 .. Len(q) - i /\ i + (j - (i - 1)) = j + 1
      BY <2>2
    <3>. QED
      BY <1>2, <2>2, <3>1, <3>2
  <2>. QED
    BY <2>1, <2>2
<1>. QED
  BY <1>1, <1>2, <1>3, <1>4, <1>5

NoRepeats(q) == \A i, j \in DOMAIN q : q[i] = q[j] => i = j

(* RemoveFirst takes an element out of a sequence without repetitions.       *)
LEMMA RemoveFirstElements ==
  ASSUME NEW T, NEW q \in Seq(T), NEW e
  PROVE  /\ RemoveFirst(q, e) \in Seq(T)
         /\ NoRepeats(q) => /\ NoRepeats(RemoveFirst(q, e))
                            /\ ToSet(RemoveFirst(q, e)) = ToSet(q) \ {e}
<1>1. CASE ~ \E i \in 1 .. Len(q) : q[i] = e
  <2>1. RemoveFirst(q, e) = q
    BY <1>1 DEF RemoveFirst
  <2>. QED
    BY <1>1, <2>1 DEF ToSet
<1>2. CASE \E i \in 1 .. Len(q) : q[i] = e
  <2>. DEFINE I == {i \in 1 .. Len(q) : q[i] = e}
              m == Min(I)
              r == RemoveAt(q, m)
  <2>1. m \in I
    <3>1. I # {} /\ I \subseteq Nat
      BY <1>2
    <3>. QED
      BY <3>1, MinIsLeast
  <2>2. RemoveFirst(q, e) = r
    BY <1>2 DEF RemoveFirst, SelectInSeq
  <2>. HIDE DEF m
  <2>3. /\ r \in Seq(T)
        /\ Len(r) = Len(q) - 1
        /\ \A j \in 1 .. Len(q) - 1 : r[j] = IF j < m THEN q[j] ELSE q[j + 1]
    BY <2>1, RemoveAtElements
  <2>. HIDE DEF r
  <2>4. ASSUME NoRepeats(q) PROVE NoRepeats(r)
    <3>. DEFINE from(j) == IF j < m THEN j ELSE j + 1
    <3>1. Len(q) \in Nat /\ DOMAIN q = 1 .. Len(q) /\ DOMAIN r = 1 .. Len(q) - 1
      BY <2>3
    <3>2. \A j \in 1 .. Len(q) - 1 : from(j) \in 1 .. Len(q) /\ r[j] = q[from(j)]
      BY <2>1, <2>3, <3>1
    <3>3. \A i, j \in 1 .. Len(q) - 1 : from(i) = from(j) => i = j
      BY <2>1, <3>1
    <3>. HIDE DEF from
    <3>. QED
      BY <2>4, <3>1, <3>2, <3>3 DEF NoRepeats
  <2>5. ASSUME NoRepeats(q) PROVE ToSet(r) = ToSet(q) \ {e}
    <3>1. ToSet(r) \subseteq ToSet(q) \ {e}
      BY <2>1, <2>3, <2>5 DEF NoRepeats, ToSet
    <3>2. ASSUME NEW j \in 1 .. Len(q), q[j] # e PROVE q[j] \in ToSet(r)
      <4>1. j # m
        BY <2>1, <3>2
      <4>2. CASE j < m
        <5>1. j \in DOMAIN r /\ r[j] = q[j]
          BY <2>1, <2>3, <4>2
        <5>. QED
          BY <5>1 DEF ToSet
      <4>3. CASE j > m
        <5>1. j - 1 \in DOMAIN r /\ r[j - 1] = q[j]
          BY <2>1, <2>3, <4>3
        <5>. QED
          BY <5>1 DEF ToSet
      <4>. QED
        BY <2>1, <4>1, <4>2, <4>3
    <3>. QED
      BY <3>1, <3>2 DEF ToSet
  <2>. QED
    BY <2>2, <2>3, <2>4, <2>5
<1>. QED
  BY <1>1, <1>2

(* The place RemoveFirst takes an element from.                              *)
LEMMA RemoveFirstPlace ==
  ASSUME NEW T, NEW q \in Seq(T), NEW i \in 1 .. Len(q), NoRepeats(q)
  PROVE  RemoveFirst(q, q[i]) = RemoveAt(q, i)
<1>. DEFINE I == {j \in 1 .. Len(q) : q[j] = q[i]}
<1>1. I = {i} /\ I \subseteq Nat
  BY DEF NoRepeats
<1>2. Min(I) = i
  BY <1>1, MinIsLeast
<1>3. RemoveFirst(q, q[i]) = RemoveAt(q, Min(I))
  BY <1>1 DEF RemoveFirst, SelectInSeq
<1>. HIDE DEF I
<1>. QED
  BY <1>2, <1>3

(* Append and a new head add an element to such a sequence.                  *)
LEMMA AppendElements ==
  ASSUME NEW T, NEW q \in Seq(T), NEW e \in T
  PROVE  /\ ToSet(Append(q, e)) = ToSet(q) \union {e}
         /\ NoRepeats(q) /\ e \notin ToSet(q) => NoRepeats(Append(q, e))
<1>. DEFINE r == Append(q, e)
            n == Len(q)
<1>1. /\ DOMAIN q = 1 .. n
      /\ DOMAIN r = 1 .. n + 1
      /\ n \in Nat
      /\ r[n + 1] = e
      /\ \A j \in 1 .. n : r[j] = q[j]
  BY AppendProperties
<1>. HIDE DEF r, n
<1>2. ToSet(r) \subseteq ToSet(q) \union {e}
  BY <1>1 DEF ToSet
<1>3. ToSet(q) \subseteq ToSet(r) /\ e \in ToSet(r)
  BY <1>1 DEF ToSet
<1>4. ASSUME NoRepeats(q), e \notin ToSet(q) PROVE NoRepeats(r)
  BY <1>1, <1>4 DEF NoRepeats, ToSet
<1>. QED
  BY <1>2, <1>3, <1>4 DEF r

LEMMA PrependElements ==
  ASSUME NEW T, NEW q \in Seq(T), NEW e \in T
  PROVE  /\ ToSet(<<e>> \o q) = ToSet(q) \union {e}
         /\ NoRepeats(q) /\ e \notin ToSet(q) => NoRepeats(<<e>> \o q)
<1>. DEFINE r == <<e>> \o q
            n == Len(q)
<1>1. /\ DOMAIN q = 1 .. n
      /\ DOMAIN r = 1 .. n + 1
      /\ n \in Nat
      /\ r[1] = e
      /\ \A j \in 2 .. n + 1 : r[j] = q[j - 1]
  BY ConcatProperties, <<e>> \in Seq(T)
<1>. HIDE DEF r, n
<1>2. ToSet(r) \subseteq ToSet(q) \union {e}
  <2>1. ASSUME NEW j \in 1 .. n + 1 PROVE r[j] \in ToSet(q) \union {e}
    <3>1. CASE j = 1
      BY <1>1, <3>1
    <3>2. CASE j # 1
      <4>1. j - 1 \in DOMAIN q /\ r[j] = q[j - 1]
        BY <1>1, <3>2
      <4>. QED
        BY <4>1 DEF ToSet
    <3>. QED
      BY <3>1, <3>2
  <2>. QED
    BY <1>1, <2>1 DEF ToSet
<1>3. ASSUME NEW j \in 1 .. n PROVE q[j] \in ToSet(r)
  <2>1. j + 1 \in DOMAIN r /\ r[j + 1] = q[j]
    BY <1>1
  <2>. QED
    BY <2>1 DEF ToSet
<1>4. e \in ToSet(r)
  BY <1>1 DEF ToSet
<1>5. ASSUME NoRepeats(q), e \notin ToSet(q) PROVE NoRepeats(r)
  <2>1. ASSUME NEW i \in 1 .. n + 1, NEW j \in 1 .. n + 1, r[i] = r[j], i # j
        PROVE  FALSE
    <3>1. CASE i = 1
      BY <1>1, <1>5, <2>1, <3>1 DEF ToSet
    <3>2. CASE j = 1
      BY <1>1, <1>5, <2>1, <3>2 DEF ToSet
    <3>3. CASE i # 1 /\ j # 1
      <4>1. i - 1 \in DOMAIN q /\ j - 1 \in DOMAIN q /\ q[i - 1] = q[j - 1]
        BY <1>1, <2>1, <3>3
      <4>2. i - 1 = j - 1
        BY <1>5, <4>1 DEF NoRepeats
      <4>. QED
        BY <2>1, <4>2
    <3>. QED
      BY <3>1, <3>2, <3>3
  <2>. QED
    BY <1>1, <2>1 DEF NoRepeats
<1>6. ToSet(q) \subseteq ToSet(r)
  BY <1>1, <1>3 DEF ToSet
<1>. QED
  BY <1>2, <1>4, <1>5, <1>6 DEF r

(* The rest of such a sequence after its head.                               *)
LEMMA TailElements ==
  ASSUME NEW T, NEW q \in Seq(T), q # <<>>
  PROVE  /\ Head(q) \in ToSet(q)
         /\ NoRepeats(q) => /\ NoRepeats(Tail(q))
                            /\ ToSet(Tail(q)) = ToSet(q) \ {Head(q)}
<1>. DEFINE r == Tail(q)
            n == Len(q)
<1>1. /\ n \in Nat \ {0}
      /\ DOMAIN q = 1 .. n
      /\ DOMAIN r = 1 .. n - 1
      /\ Head(q) = q[1]
      /\ \A j \in 1 .. n - 1 : r[j] = q[j + 1]
  BY HeadTailProperties, EmptySeq
<1>. HIDE DEF r, n
<1>2. Head(q) \in ToSet(q)
  BY <1>1 DEF ToSet
<1>3. ASSUME NoRepeats(q) PROVE NoRepeats(r)
  <2>1. ASSUME NEW i \in 1 .. n - 1, NEW j \in 1 .. n - 1, r[i] = r[j]
        PROVE  i = j
    <3>1. i + 1 \in DOMAIN q /\ j + 1 \in DOMAIN q /\ q[i + 1] = q[j + 1]
      BY <1>1, <2>1
    <3>2. i + 1 = j + 1
      BY <1>3, <3>1 DEF NoRepeats
    <3>. QED
      BY <3>2
  <2>. QED
    BY <1>1, <2>1 DEF NoRepeats
<1>4. ASSUME NoRepeats(q) PROVE ToSet(r) \subseteq ToSet(q) \ {Head(q)}
  BY <1>1, <1>4 DEF NoRepeats, ToSet
<1>5. ASSUME NEW j \in 1 .. n, q[j] # Head(q) PROVE q[j] \in ToSet(r)
  <2>1. j - 1 \in DOMAIN r /\ r[j - 1] = q[j]
    BY <1>1, <1>5
  <2>. QED
    BY <2>1 DEF ToSet
<1>6. ASSUME NoRepeats(q) PROVE ToSet(q) \ {Head(q)} \subseteq ToSet(r)
  BY <1>1, <1>5 DEF ToSet
<1>. QED
  <2>1. NoRepeats(q) => NoRepeats(r) /\ ToSet(r) = ToSet(q) \ {Head(q)}
    BY <1>3, <1>4, <1>6
  <2>. QED
    BY <1>2, <2>1 DEF r

LEMMA HeadThenTail ==
  ASSUME NEW T, NEW q \in Seq(T), q # <<>>
  PROVE  <<Head(q)>> \o Tail(q) = q
<1>. DEFINE h == <<Head(q)>>
            r == Tail(q)
<1>1. /\ h \in Seq(T) /\ Len(h) = 1 /\ h[1] = q[1]
      /\ r \in Seq(T) /\ Len(r) = Len(q) - 1
      /\ Len(q) \in Nat \ {0}
      /\ \A j \in 1 .. Len(q) - 1 : r[j] = q[j + 1]
  BY HeadTailProperties, EmptySeq
<1>. HIDE DEF h, r
<1>a. /\ h \o r \in Seq(T) /\ Len(h \o r) = Len(h) + Len(r)
      /\ \A j \in 1 .. Len(h) + Len(r) :
           (h \o r)[j] = IF j <= Len(h) THEN h[j] ELSE r[j - Len(h)]
  <2>1. h \in Seq(T) /\ r \in Seq(T)
    BY <1>1
  <2>. QED
    BY <2>1, ConcatProperties
<1>2. /\ h \o r \in Seq(T) /\ Len(h \o r) = Len(q)
      /\ \A j \in 1 .. Len(q) : (h \o r)[j] = IF j <= 1 THEN h[j] ELSE r[j - 1]
  <2>1. Len(h) + Len(r) = Len(q) /\ Len(h) = 1
    BY <1>1
  <2>. QED
    BY <1>a, <2>1
<1>3. ASSUME NEW j \in 1 .. Len(q) PROVE (h \o r)[j] = q[j]
  <2>1. CASE j = 1
    BY <1>1, <1>2, <2>1
  <2>2. CASE j # 1
    <3>1. j - 1 \in 1 .. Len(q) - 1 /\ (j - 1) + 1 = j /\ ~ (j <= 1)
      BY <1>1, <2>2
    <3>2. r[j - 1] = q[j]
      BY <1>1, <3>1
    <3>. QED
      BY <1>2, <3>1, <3>2
  <2>. QED
    BY <2>1, <2>2
<1>. QED
  BY <1>2, <1>3, SeqEqual DEF h, r

(* Two sequences that share no element, one after the other.                 *)
LEMMA ConcatElements ==
  ASSUME NEW T, NEW q \in Seq(T), NEW r \in Seq(T)
  PROVE  /\ ToSet(q \o r) = ToSet(q) \union ToSet(r)
         /\ /\ NoRepeats(q) /\ NoRepeats(r)
            /\ ToSet(q) \intersect ToSet(r) = {}
            => NoRepeats(q \o r)
<1>. DEFINE c == q \o r
            m == Len(q)
            n == Len(r)
<1>1. /\ m \in Nat /\ n \in Nat
      /\ DOMAIN q = 1 .. m /\ DOMAIN r = 1 .. n /\ DOMAIN c = 1 .. m + n
      /\ \A j \in 1 .. m + n : c[j] = IF j <= m THEN q[j] ELSE r[j - m]
  BY ConcatProperties
<1>. HIDE DEF c, m, n
<1>2. ToSet(c) \subseteq ToSet(q) \union ToSet(r)
  <2>1. ASSUME NEW j \in 1 .. m + n PROVE c[j] \in ToSet(q) \union ToSet(r)
    <3>1. CASE j <= m
      BY <1>1, <3>1 DEF ToSet
    <3>2. CASE j > m
      <4>1. j - m \in DOMAIN r /\ c[j] = r[j - m]
        BY <1>1, <3>2
      <4>. QED
        BY <4>1 DEF ToSet
    <3>. QED
      BY <1>1, <3>1, <3>2
  <2>. QED
    BY <1>1, <2>1 DEF ToSet
<1>3. ToSet(q) \subseteq ToSet(c)
  BY <1>1 DEF ToSet
<1>4. ASSUME NEW j \in 1 .. n PROVE r[j] \in ToSet(c)
  <2>1. m + j \in DOMAIN c /\ c[m + j] = r[j]
    BY <1>1
  <2>. QED
    BY <2>1 DEF ToSet
<1>5. ASSUME NoRepeats(q), NoRepeats(r), ToSet(q) \intersect ToSet(r) = {}
      PROVE  NoRepeats(c)
  <2>1. ASSUME NEW i \in 1 .. m + n, NEW j \in 1 .. m + n, c[i] = c[j]
        PROVE  i = j
    <3>1. CASE i <= m /\ j <= m
      BY <1>1, <1>5, <2>1, <3>1 DEF NoRepeats
    <3>2. CASE i > m /\ j > m
      <4>1. i - m \in DOMAIN r /\ j - m \in DOMAIN r /\ r[i - m] = r[j - m]
        BY <1>1, <2>1, <3>2
      <4>2. i - m = j - m
        BY <1>5, <4>1 DEF NoRepeats
      <4>. QED
        BY <1>1, <4>2
    <3>3. ASSUME NEW a \in 1 .. m, NEW b \in 1 .. m + n, b > m PROVE c[a] # c[b]
      <4>1. c[a] \in ToSet(q)
        <5>1. a \in DOMAIN q /\ c[a] = q[a]
          BY <1>1
        <5>. QED
          BY <5>1 DEF ToSet
      <4>2. b - m \in DOMAIN r /\ c[b] = r[b - m]
        BY <1>1, <3>3
      <4>3. c[b] \in ToSet(r)
        BY <4>2 DEF ToSet
      <4>. QED
        BY <1>5, <4>1, <4>3
    <3>4. CASE i <= m /\ j > m
      BY <1>1, <2>1, <3>3, <3>4
    <3>5. CASE i > m /\ j <= m
      BY <1>1, <2>1, <3>3, <3>5
    <3>. QED
      BY <1>1, <3>1, <3>2, <3>4, <3>5
  <2>. QED
    BY <1>1, <2>1 DEF NoRepeats
<1>6. ToSet(r) \subseteq ToSet(c)
  BY <1>1, <1>4 DEF ToSet
<1>. QED
  BY <1>2, <1>3, <1>5, <1>6 DEF c

(* What is not in a sequence cannot be removed from it.                      *)
LEMMA RemoveFirstAbsent ==
  ASSUME NEW T, NEW q \in Seq(T), NEW e, e \notin ToSet(q)
  PROVE  RemoveFirst(q, e) = q
BY DEF RemoveFirst, ToSet

LEMMA EmptyElements == ToSet(<<>>) = {} /\ NoRepeats(<<>>)
BY DEF ToSet, NoRepeats

(* What r keeps of q is in q's order; and r is what is left of q.            *)
Ordered(q, r) ==
  \A i, j \in DOMAIN q : \A k, l \in DOMAIN r :
    q[i] = r[k] /\ q[j] = r[l] /\ i < j => k < l

LeftOf(r, q) == NoRepeats(r) /\ ToSet(r) \subseteq ToSet(q) /\ Ordered(q, r)

LEMMA SameIsLeft ==
  ASSUME NEW T, NEW q \in Seq(T), NoRepeats(q)
  PROVE  LeftOf(q, q) /\ LeftOf(<<>>, q)
<1>1. LeftOf(q, q)
  <2>1. ASSUME NEW i \in DOMAIN q, NEW j \in DOMAIN q, NEW k \in DOMAIN q,
               NEW l \in DOMAIN q, q[i] = q[k], q[j] = q[l], i < j
        PROVE  k < l
    <3>1. i = k /\ j = l
      BY <2>1 DEF NoRepeats
    <3>. QED
      BY <2>1, <3>1
  <2>. QED
    BY <2>1 DEF LeftOf, Ordered
<1>2. LeftOf(<<>>, q)
  BY EmptyElements DEF LeftOf, Ordered
<1>. QED
  BY <1>1, <1>2

LEMMA RemovedIsLeft ==
  ASSUME NEW T, NEW q \in Seq(T), NoRepeats(q), NEW e
  PROVE  LeftOf(RemoveFirst(q, e), q)
<1>1. CASE e \notin ToSet(q)
  BY <1>1, RemoveFirstAbsent, SameIsLeft
<1>2. CASE e \in ToSet(q)
  <2>1. PICK n \in 1 .. Len(q) : q[n] = e
    BY <1>2 DEF ToSet
  <2>. DEFINE r == RemoveAt(q, n)
              from(k) == IF k < n THEN k ELSE k + 1
  <2>2. RemoveFirst(q, e) = r
    BY <2>1, RemoveFirstPlace
  <2>3. /\ DOMAIN q = 1 .. Len(q) /\ Len(q) \in Nat
        /\ DOMAIN r = 1 .. Len(q) - 1
        /\ \A k \in 1 .. Len(q) - 1 : r[k] = IF k < n THEN q[k] ELSE q[k + 1]
    BY RemoveAtElements
  <2>. HIDE DEF r
  <2>4. \A k \in 1 .. Len(q) - 1 : from(k) \in 1 .. Len(q) /\ r[k] = q[from(k)]
    BY <2>3
  <2>5. \A k, l \in 1 .. Len(q) - 1 : from(k) < from(l) => k < l
    BY <2>3
  <2>. HIDE DEF from
  <2>6. Ordered(q, r)
    <3>1. ASSUME NEW i \in DOMAIN q, NEW j \in DOMAIN q, NEW k \in DOMAIN r,
                 NEW l \in DOMAIN r, q[i] = r[k], q[j] = r[l], i < j
          PROVE  k < l
      <4>1. i = from(k) /\ j = from(l)
        BY <2>3, <2>4, <3>1 DEF NoRepeats
      <4>. QED
        BY <2>3, <2>5, <3>1, <4>1
    <3>. QED
      BY <3>1 DEF Ordered
  <2>. QED
    BY <2>2, <2>6, RemoveFirstElements DEF LeftOf
<1>. QED
  BY <1>1, <1>2

LEMMA TailIsLeft ==
  ASSUME NEW T, NEW q \in Seq(T), NoRepeats(q), q # <<>>
  PROVE  LeftOf(Tail(q), q)
<1>. DEFINE r == Tail(q)
<1>1. /\ DOMAIN q = 1 .. Len(q) /\ Len(q) \in Nat
      /\ DOMAIN r = 1 .. Len(q) - 1
      /\ \A k \in 1 .. Len(q) - 1 : r[k] = q[k + 1]
  BY HeadTailProperties, EmptySeq
<1>. HIDE DEF r
<1>2. Ordered(q, r)
  <2>1. ASSUME NEW i \in DOMAIN q, NEW j \in DOMAIN q, NEW k \in DOMAIN r,
               NEW l \in DOMAIN r, q[i] = r[k], q[j] = r[l], i < j
        PROVE  k < l
    <3>1. /\ k + 1 \in DOMAIN q /\ q[i] = q[k + 1]
          /\ l + 1 \in DOMAIN q /\ q[j] = q[l + 1]
      BY <1>1, <2>1
    <3>2. i = k + 1 /\ j = l + 1
      BY <3>1 DEF NoRepeats
    <3>. QED
      BY <1>1, <2>1, <3>2
  <2>. QED
    BY <2>1 DEF Ordered
<1>. QED
  BY <1>2, TailElements DEF LeftOf, r

LEMMA AppendedIsOrdered ==
  ASSUME NEW T, NEW q \in Seq(T), NoRepeats(q), NEW e \in T, e \notin ToSet(q)
  PROVE  Ordered(q, Append(q, e))
<1>. DEFINE r == Append(q, e)
            n == Len(q)
<1>1. /\ n \in Nat /\ DOMAIN q = 1 .. n /\ DOMAIN r = 1 .. n + 1
      /\ r[n + 1] = e /\ \A j \in 1 .. n : r[j] = q[j]
  BY AppendProperties
<1>. HIDE DEF r, n
<1>2. ASSUME NEW i \in DOMAIN q, NEW k \in DOMAIN r, q[i] = r[k] PROVE k = i
  <2>1. k # n + 1
    BY <1>1, <1>2 DEF ToSet
  <2>2. k \in DOMAIN q /\ q[i] = q[k]
    BY <1>1, <1>2, <2>1
  <2>. QED
    BY <2>2 DEF NoRepeats
<1>. QED
  BY <1>2 DEF Ordered, r

LEMMA PrependedIsLeft ==
  ASSUME NEW T, NEW q \in Seq(T), NEW r \in Seq(T), NEW h \in T,
         NoRepeats(<<h>> \o q), LeftOf(r, q)
  PROVE  LeftOf(<<h>> \o r, <<h>> \o q)
<1>. DEFINE Q == <<h>> \o q
            R == <<h>> \o r
<1>1. /\ Len(q) \in Nat /\ DOMAIN q = 1 .. Len(q)
      /\ DOMAIN Q = 1 .. Len(q) + 1
      /\ Q[1] = h /\ \A j \in 2 .. Len(q) + 1 : Q[j] = q[j - 1]
  BY ConcatProperties, <<h>> \in Seq(T)
<1>2. /\ Len(r) \in Nat /\ DOMAIN r = 1 .. Len(r)
      /\ DOMAIN R = 1 .. Len(r) + 1
      /\ R[1] = h /\ \A j \in 2 .. Len(r) + 1 : R[j] = r[j - 1]
  BY ConcatProperties, <<h>> \in Seq(T)
<1>3. NoRepeats(Q)
  OBVIOUS
<1>. HIDE DEF Q, R
<1>4. h \notin ToSet(q)
  <2>1. ASSUME NEW j \in DOMAIN q PROVE q[j] # h
    <3>1. j + 1 \in DOMAIN Q /\ Q[j + 1] = q[j] /\ 1 \in DOMAIN Q /\ j + 1 # 1
      BY <1>1
    <3>. QED
      BY <1>1, <1>3, <3>1 DEF NoRepeats
  <2>. QED
    BY <2>1 DEF ToSet
<1>5. h \notin ToSet(r)
  BY <1>4 DEF LeftOf
<1>6. Ordered(Q, R)
  <2>1. ASSUME NEW i \in DOMAIN Q, NEW j \in DOMAIN Q, NEW k \in DOMAIN R,
               NEW l \in DOMAIN R, Q[i] = R[k], Q[j] = R[l], i < j
        PROVE  k < l
    <3>1. j - 1 \in DOMAIN q /\ Q[j] = q[j - 1]
      BY <1>1, <2>1
    <3>2. l # 1
      BY <1>2, <1>4, <2>1, <3>1 DEF ToSet
    <3>3. l - 1 \in DOMAIN r /\ R[l] = r[l - 1] /\ l > 1
      BY <1>2, <2>1, <3>2
    <3>4. CASE k = 1
      BY <3>3, <3>4
    <3>5. CASE k # 1
      <4>1. k - 1 \in DOMAIN r /\ R[k] = r[k - 1]
        BY <1>2, <2>1, <3>5
      <4>2. i # 1
        BY <1>1, <1>5, <2>1, <4>1 DEF ToSet
      <4>3. i - 1 \in DOMAIN q /\ Q[i] = q[i - 1]
        BY <1>1, <2>1, <4>2
      <4>4. i - 1 < j - 1
        BY <1>1, <2>1
      <4>5. k - 1 < l - 1
        BY <2>1, <3>1, <3>3, <4>1, <4>3, <4>4 DEF LeftOf, Ordered
      <4>. QED
        BY <1>2, <2>1, <4>5
    <3>. QED
      BY <3>4, <3>5
  <2>. QED
    BY <2>1 DEF Ordered
<1>. QED
  BY <1>5, <1>6, PrependElements DEF LeftOf, Q, R

(* What is left of a sequence after RemoveFirst was there, no nearer to the  *)
(* front.                                                                    *)
LEMMA RemoveFirstMovesUp ==
  ASSUME NEW T, NEW q \in Seq(T), NEW e, NEW i \in 1 .. Len(RemoveFirst(q, e))
  PROVE  \E j \in 1 .. Len(q) : i <= j /\ RemoveFirst(q, e)[i] = q[j]
<1>1. CASE ~ \E j \in 1 .. Len(q) : q[j] = e
  BY <1>1 DEF RemoveFirst
<1>2. CASE \E j \in 1 .. Len(q) : q[j] = e
  <2>. DEFINE I == {j \in 1 .. Len(q) : q[j] = e}
              m == Min(I)
  <2>1. m \in I
    <3>1. I # {} /\ I \subseteq Nat
      BY <1>2
    <3>. QED
      BY <3>1, MinIsLeast
  <2>2. RemoveFirst(q, e) = RemoveAt(q, m)
    BY <1>2 DEF RemoveFirst, SelectInSeq
  <2>. HIDE DEF m
  <2>3. /\ Len(RemoveFirst(q, e)) = Len(q) - 1
        /\ \A j \in 1 .. Len(q) - 1 :
             RemoveFirst(q, e)[j] = IF j < m THEN q[j] ELSE q[j + 1]
    BY <2>1, <2>2, RemoveAtElements
  <2>4. i \in 1 .. Len(q) /\ i + 1 \in 1 .. Len(q) /\ i <= i /\ i <= i + 1
    BY <2>3
  <2>. QED
    BY <2>3, <2>4
<1>. QED
  BY <1>1, <1>2

=============================================================================

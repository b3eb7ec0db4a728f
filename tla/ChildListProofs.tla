---------------------------- MODULE ChildListProofs -----------------------------
(***************************************************************************)
(* Lemmas about sequences of children, cited by the proofs of every kind   *)
(* of supervisor.                                                          *)
(***************************************************************************)
EXTENDS ChildLists, SequenceTheorems, TLAPS

\* Removing an element leaves a sequence of the same kind.
LEMMA RemoveAtType ==
  ASSUME NEW S, NEW s \in Seq(S), NEW i \in DOMAIN s
  PROVE  /\ RemoveAt(s, i) \in Seq(S)
         /\ Len(RemoveAt(s, i)) = Len(s) - 1
         /\ \A j \in 1..(Len(s) - 1) :
              RemoveAt(s, i)[j] = IF j < i THEN s[j] ELSE s[j + 1]
<1> DEFINE l == SubSeq(s, 1, i - 1)
           r == SubSeq(s, i + 1, Len(s))
<1>1. Len(s) \in Nat /\ DOMAIN s = 1..Len(s) /\ \A j \in 1..Len(s) : s[j] \in S
  BY LenProperties, ElementOfSeq
<1>2. l \in Seq(S) /\ Len(l) = i - 1 /\ \A j \in 1..(i - 1) : l[j] = s[j]
  BY <1>1, SubSeqProperties
<1>3. r \in Seq(S) /\ Len(r) = Len(s) - i /\ \A j \in 1..(Len(s) - i) : r[j] = s[i + j]
  BY <1>1, SubSeqProperties
<1>4. /\ l \o r \in Seq(S)
      /\ Len(l \o r) = Len(l) + Len(r)
      /\ \A j \in 1..(Len(l) + Len(r)) :
           (l \o r)[j] = IF j <= Len(l) THEN l[j] ELSE r[j - Len(l)]
  BY <1>2, <1>3, ConcatProperties
<1> HIDE DEF l, r
<1>5. RemoveAt(s, i) = l \o r
  BY DEF RemoveAt, l, r
<1>6. Len(l \o r) = Len(s) - 1
  BY <1>1, <1>2, <1>3, <1>4
<1>7. \A j \in 1..(Len(s) - 1) : (l \o r)[j] = IF j < i THEN s[j] ELSE s[j + 1]
  <2> TAKE j \in 1..(Len(s) - 1)
  <2>1. (l \o r)[j] = IF j <= i - 1 THEN l[j] ELSE r[j - (i - 1)]
    BY <1>1, <1>2, <1>4, <1>6
  <2>2. CASE j < i
    BY <1>1, <1>2, <2>1, <2>2
  <2>3. CASE j >= i
    <3>1. j - (i - 1) \in 1..(Len(s) - i) /\ i + (j - (i - 1)) = j + 1
      BY <1>1, <2>3
    <3>2. r[j - (i - 1)] = s[j + 1]
      BY <1>3, <3>1
    <3>3. ~(j <= i - 1) /\ ~(j < i)
      BY <1>1, <2>3
    <3> QED BY <2>1, <3>2, <3>3
  <2>4. j < i \/ j >= i
    BY <1>1
  <2> QED BY <2>2, <2>3, <2>4
<1> QED BY <1>4, <1>5, <1>6, <1>7

(***************************************************************************)
(* The elements of a sequence.                                             *)
(***************************************************************************)

\* Its elements are what its positions hold.
LEMMA SetOfIn ==
  ASSUME NEW S, NEW s \in Seq(S)
  PROVE  /\ SetOf(s) \subseteq S
         /\ \A i \in DOMAIN s : s[i] \in SetOf(s)
         /\ \A e \in SetOf(s) : \E i \in DOMAIN s : e = s[i]
BY ElementOfSeq, LenProperties DEF SetOf

\* The empty sequence and the sequence of one.
LEMMA SetOfSmall ==
  ASSUME NEW e
  PROVE  SetOf(<<>>) = {} /\ SetOf(<<e>>) = {e}
<1>1. DOMAIN <<e>> = {1} /\ <<e>>[1] = e
  OBVIOUS
<1> QED BY <1>1 DEF SetOf

\* Concatenation unites the elements.
LEMMA SetOfConcat ==
  ASSUME NEW S, NEW s \in Seq(S), NEW t \in Seq(S)
  PROVE  SetOf(s \o t) = SetOf(s) \cup SetOf(t)
<1>1. /\ DOMAIN s = 1..Len(s) /\ Len(s) \in Nat
      /\ DOMAIN t = 1..Len(t) /\ Len(t) \in Nat
      /\ DOMAIN (s \o t) = 1..(Len(s) + Len(t))
  BY LenProperties, ConcatProperties
<1>2. \A i \in 1..(Len(s) + Len(t)) :
        (s \o t)[i] = IF i <= Len(s) THEN s[i] ELSE t[i - Len(s)]
  BY ConcatProperties
<1>3. ASSUME NEW e \in SetOf(s \o t) PROVE e \in SetOf(s) \cup SetOf(t)
  <2> PICK i \in 1..(Len(s) + Len(t)) : e = (s \o t)[i]
    BY <1>1, <1>3 DEF SetOf
  <2>1. CASE i <= Len(s)
    BY <1>1, <1>2, <2>1 DEF SetOf
  <2>2. CASE ~(i <= Len(s))
    <3>1. i - Len(s) \in DOMAIN t /\ e = t[i - Len(s)]
      BY <1>1, <1>2, <2>2
    <3> QED BY <3>1 DEF SetOf
  <2> QED BY <2>1, <2>2
<1>4. ASSUME NEW i \in DOMAIN s PROVE s[i] \in SetOf(s \o t)
  <2>1. i \in DOMAIN (s \o t) /\ s[i] = (s \o t)[i]
    BY <1>1, <1>2
  <2> QED BY <2>1 DEF SetOf
<1>5. ASSUME NEW i \in DOMAIN t PROVE t[i] \in SetOf(s \o t)
  <2>1. i + Len(s) \in DOMAIN (s \o t) /\ t[i] = (s \o t)[i + Len(s)]
    BY <1>1, <1>2
  <2> QED BY <2>1 DEF SetOf
<1>6. SetOf(s) \cup SetOf(t) \subseteq SetOf(s \o t)
  BY <1>4, <1>5 DEF SetOf
<1> QED BY <1>3, <1>6

\* A sequence around one of its elements.
LEMMA SplitAt ==
  ASSUME NEW S, NEW s \in Seq(S), NEW i \in DOMAIN s
  PROVE  LET l == SubSeq(s, 1, i - 1)
             r == SubSeq(s, i + 1, Len(s))
         IN  /\ l \in Seq(S) /\ r \in Seq(S) /\ s[i] \in S
             /\ s = l \o (<<s[i]>> \o r)
             /\ SubSeq(s, i, Len(s)) = <<s[i]>> \o r
             /\ RemoveAt(s, i) = l \o r
<1> DEFINE l == SubSeq(s, 1, i - 1)
           r == SubSeq(s, i + 1, Len(s))
           f == SubSeq(s, i, Len(s))
<1>1. Len(s) \in Nat /\ i \in 1..Len(s) /\ \A j \in 1..Len(s) : s[j] \in S
  BY LenProperties, ElementOfSeq
<1>2. l \in Seq(S) /\ Len(l) = i - 1 /\ \A j \in 1..(i - 1) : l[j] = s[j]
  BY <1>1, SubSeqProperties
<1>3. r \in Seq(S) /\ Len(r) = Len(s) - i /\ \A j \in 1..(Len(s) - i) : r[j] = s[i + j]
  BY <1>1, SubSeqProperties
<1>4. /\ f \in Seq(S) /\ Len(f) = Len(s) - i + 1
      /\ \A j \in 1..(Len(s) - i + 1) : f[j] = s[i + j - 1]
  BY <1>1, SubSeqProperties
<1>5. <<s[i]>> \in Seq(S) /\ Len(<<s[i]>>) = 1 /\ <<s[i]>>[1] = s[i]
  BY <1>1
<1> DEFINE g == <<s[i]>> \o r
<1> HIDE DEF l, r, f
<1>6. /\ g \in Seq(S) /\ Len(g) = Len(s) - i + 1
      /\ \A j \in 1..(Len(s) - i + 1) :
           g[j] = IF j <= 1 THEN <<s[i]>>[j] ELSE r[j - 1]
  BY <1>1, <1>3, <1>5, ConcatProperties
<1> HIDE DEF g
<1>7. \A j \in 1..(Len(s) - i + 1) : g[j] = s[i + j - 1]
  <2> TAKE j \in 1..(Len(s) - i + 1)
  <2>1. CASE j = 1
    BY <1>1, <1>5, <1>6, <2>1
  <2>2. CASE j # 1
    <3>1. ~(j <= 1) /\ j - 1 \in 1..(Len(s) - i) /\ i + (j - 1) = i + j - 1
      BY <1>1, <2>2
    <3> QED BY <1>3, <1>6, <3>1
  <2> QED BY <2>1, <2>2
<1>8. f = g
  BY <1>4, <1>6, <1>7, SeqEqual
<1> DEFINE h == l \o g
<1>9. /\ h \in Seq(S) /\ Len(h) = Len(s)
      /\ \A j \in 1..Len(s) : h[j] = IF j <= i - 1 THEN l[j] ELSE g[j - (i - 1)]
  BY <1>1, <1>2, <1>6, ConcatProperties
<1> HIDE DEF h
<1>10. \A j \in 1..Len(s) : h[j] = s[j]
  <2> TAKE j \in 1..Len(s)
  <2>1. CASE j <= i - 1
    BY <1>1, <1>2, <1>9, <2>1
  <2>2. CASE ~(j <= i - 1)
    <3>1. j - (i - 1) \in 1..(Len(s) - i + 1) /\ i + (j - (i - 1)) - 1 = j
      BY <1>1, <2>2
    <3> QED BY <1>7, <1>9, <2>2, <3>1
  <2> QED BY <2>1, <2>2
<1>11. s = h
  BY <1>9, <1>10, SeqEqual
<1>12. RemoveAt(s, i) = l \o r
  BY DEF RemoveAt, l, r
<1> QED BY <1>1, <1>2, <1>3, <1>8, <1>11, <1>12 DEF l, r, f, g, h

\* The elements around one of them.
LEMMA SetOfSplit ==
  ASSUME NEW S, NEW s \in Seq(S), NEW i \in DOMAIN s
  PROVE  /\ SetOf(s) = SetOf(SubSeq(s, 1, i - 1)) \cup SetOf(SubSeq(s, i, Len(s)))
         /\ SetOf(s) = {s[i]} \cup SetOf(RemoveAt(s, i))
<1> DEFINE l == SubSeq(s, 1, i - 1)
           r == SubSeq(s, i + 1, Len(s))
           m == <<s[i]>>
<1>1. /\ l \in Seq(S) /\ r \in Seq(S) /\ m \in Seq(S)
      /\ s = l \o (m \o r)
      /\ SubSeq(s, i, Len(s)) = m \o r
      /\ RemoveAt(s, i) = l \o r
  <2>1. s[i] \in S
    BY SplitAt
  <2>2. m \in Seq(S)
    BY <2>1
  <2> QED BY <2>2, SplitAt
<1>2. SetOf(m) = {s[i]}
  BY SetOfSmall
<1> HIDE DEF l, r, m
<1>3. m \o r \in Seq(S)
  BY <1>1, ConcatProperties
<1>4. SetOf(m \o r) = SetOf(m) \cup SetOf(r)
  BY <1>1, SetOfConcat
<1>5. \A t \in Seq(S) : SetOf(l \o t) = SetOf(l) \cup SetOf(t)
  BY <1>1, SetOfConcat
<1>6. SetOf(l \o (m \o r)) = SetOf(l) \cup SetOf(m \o r)
  BY <1>3, <1>5
<1>7. SetOf(s) = SetOf(l) \cup SetOf(SubSeq(s, i, Len(s)))
  BY <1>1, <1>6
<1>8. SetOf(s) = {s[i]} \cup SetOf(RemoveAt(s, i))
  BY <1>1, <1>2, <1>4, <1>5, <1>6
<1> QED BY <1>7, <1>8 DEF l

\* A sequence that is not empty is its head and its tail.
LEMMA HeadThenTail ==
  ASSUME NEW S, NEW s \in Seq(S), s # <<>>
  PROVE  s = <<Head(s)>> \o Tail(s) /\ Head(s) \in S /\ Tail(s) \in Seq(S)
<1>1. Head(s) \in S /\ Tail(s) \in Seq(S) /\ Tail(s) = SubSeq(s, 2, Len(s))
  BY HeadTailProperties, TailIsSubSeq
<1>2. 1 \in DOMAIN s /\ Head(s) = s[1]
  BY LenProperties, EmptySeq
<1>3. SubSeq(s, 1, Len(s)) = <<s[1]>> \o SubSeq(s, 1 + 1, Len(s))
  BY <1>2, SplitAt
<1> QED BY <1>1, <1>2, <1>3, SubSeqFull

\* Its elements are those of the head and of the tail.
LEMMA SetOfHead ==
  ASSUME NEW S, NEW s \in Seq(S), s # <<>>
  PROVE  /\ Head(s) \in S /\ Tail(s) \in Seq(S)
         /\ SetOf(s) = {Head(s)} \cup SetOf(Tail(s))
<1> DEFINE m == <<Head(s)>>
           t == Tail(s)
<1>1. Head(s) \in S /\ t \in Seq(S) /\ s = m \o t
  BY HeadThenTail
<1>2. m \in Seq(S) /\ SetOf(m) = {Head(s)}
  BY <1>1, SetOfSmall
<1> HIDE DEF m, t
<1>3. SetOf(m \o t) = SetOf(m) \cup SetOf(t)
  BY <1>1, <1>2, SetOfConcat
<1> QED BY <1>1, <1>2, <1>3 DEF t

\* Appending adds one element.
LEMMA SetOfAppend ==
  ASSUME NEW S, NEW s \in Seq(S), NEW e \in S
  PROVE  SetOf(Append(s, e)) = SetOf(s) \cup {e}
<1> DEFINE m == <<e>>
<1>1. Append(s, e) = s \o m /\ m \in Seq(S) /\ SetOf(m) = {e}
  BY AppendIsConcat, SetOfSmall
<1> HIDE DEF m
<1>2. SetOf(s \o m) = SetOf(s) \cup SetOf(m)
  BY <1>1, SetOfConcat
<1> QED BY <1>1, <1>2 DEF m

(***************************************************************************)
(* Distinct ids.                                                           *)
(***************************************************************************)

\* No id occurs both in s and in t.
Apart(s, t) == \A c \in SetOf(s), d \in SetOf(t) : c.id # d.id

\* Ids are distinct in a concatenation when they are in each part and no id is in both.
LEMMA DistinctConcat ==
  ASSUME NEW S, NEW s \in Seq(S), NEW t \in Seq(S)
  PROVE  DistinctIds(s \o t) <=> DistinctIds(s) /\ DistinctIds(t) /\ Apart(s, t)
<1> DEFINE n == Len(s)
           m == Len(t)
           u == s \o t
<1>1. n \in Nat /\ m \in Nat /\ DOMAIN s = 1..n /\ DOMAIN t = 1..m /\ DOMAIN u = 1..(n + m)
  BY LenProperties, ConcatProperties
<1>2. /\ \A i \in 1..n : u[i] = s[i]
      /\ \A i \in 1..m : u[n + i] = t[i]
  <2>1. \A i \in 1..(n + m) : u[i] = IF i <= n THEN s[i] ELSE t[i - n]
    BY ConcatProperties
  <2> HIDE DEF n, m, u
  <2>2. ASSUME NEW i \in 1..n PROVE u[i] = s[i]
    BY <1>1, <2>1
  <2>3. ASSUME NEW i \in 1..m PROVE u[n + i] = t[i]
    <3>1. n + i \in 1..(n + m) /\ ~(n + i <= n) /\ (n + i) - n = i
      BY <1>1
    <3> QED BY <2>1, <3>1
  <2> QED BY <2>2, <2>3
<1>3. Apart(s, t) <=> \A i \in 1..n, j \in 1..m : s[i].id # t[j].id
  BY <1>1 DEF Apart, SetOf
<1> HIDE DEF n, m, u
<1>4. ASSUME DistinctIds(u)
      PROVE  DistinctIds(s) /\ DistinctIds(t) /\ Apart(s, t)
  <2>1. DistinctIds(s)
    BY <1>1, <1>2, <1>4 DEF DistinctIds
  <2>2. DistinctIds(t)
    <3> SUFFICES ASSUME NEW i \in 1..m, NEW j \in 1..m, t[i].id = t[j].id
                 PROVE  i = j
      BY <1>1 DEF DistinctIds
    <3>1. n + i \in 1..(n + m) /\ n + j \in 1..(n + m)
      BY <1>1
    <3>2. n + i = n + j
      BY <1>1, <1>2, <1>4, <3>1 DEF DistinctIds
    <3> QED BY <1>1, <3>2
  <2>3. ASSUME NEW i \in 1..n, NEW j \in 1..m PROVE s[i].id # t[j].id
    <3>1. n + j \in 1..(n + m) /\ i \in 1..(n + m) /\ n + j # i
      BY <1>1
    <3> QED BY <1>1, <1>2, <1>4, <3>1 DEF DistinctIds
  <2> QED BY <1>3, <2>1, <2>2, <2>3
<1>5. ASSUME DistinctIds(s), DistinctIds(t), Apart(s, t)
      PROVE  DistinctIds(u)
  <2> SUFFICES ASSUME NEW i \in 1..(n + m), NEW j \in 1..(n + m), u[i].id = u[j].id
               PROVE  i = j
    BY <1>1 DEF DistinctIds
  <2>1. ASSUME NEW k \in 1..(n + m), k > n
        PROVE  k - n \in 1..m /\ u[k] = t[k - n]
    <3>1. k - n \in 1..m /\ n + (k - n) = k
      BY <1>1, <2>1
    <3> QED BY <1>2, <3>1
  <2>2. CASE i <= n /\ j <= n
    BY <1>1, <1>2, <1>5, <2>2 DEF DistinctIds
  <2>3. CASE i > n /\ j > n
    <3>1. /\ i - n \in DOMAIN t /\ j - n \in DOMAIN t
          /\ t[i - n].id = t[j - n].id
      BY <1>1, <2>1, <2>3
    <3>2. i - n = j - n
      BY <1>5, <3>1 DEF DistinctIds
    <3> QED BY <1>1, <3>2
  <2>4. CASE i <= n /\ j > n
    <3>1. u[i] = s[i] /\ u[j] = t[j - n] /\ i \in 1..n /\ j - n \in 1..m
      BY <1>1, <1>2, <2>1, <2>4
    <3> QED BY <1>3, <1>5, <3>1
  <2>5. CASE i > n /\ j <= n
    <3>1. u[i] = t[i - n] /\ u[j] = s[j] /\ j \in 1..n /\ i - n \in 1..m
      BY <1>1, <1>2, <2>1, <2>5
    <3> QED BY <1>3, <1>5, <3>1
  <2>6. (i <= n \/ i > n) /\ (j <= n \/ j > n)
    BY <1>1
  <2> QED BY <2>2, <2>3, <2>4, <2>5, <2>6
<1> QED BY <1>4, <1>5 DEF u

\* The empty sequence and the sequence of one have distinct ids.
LEMMA DistinctSmall ==
  ASSUME NEW e
  PROVE  DistinctIds(<<>>) /\ DistinctIds(<<e>>)
BY DEF DistinctIds

\* Distinct ids around one element: no other element has its id.
LEMMA DistinctSplit ==
  ASSUME NEW S, NEW s \in Seq(S), NEW i \in DOMAIN s, DistinctIds(s)
  PROVE  /\ DistinctIds(RemoveAt(s, i))
         /\ \A c \in SetOf(RemoveAt(s, i)) : c.id # s[i].id
         /\ DistinctIds(SubSeq(s, 1, i - 1))
         /\ DistinctIds(SubSeq(s, i, Len(s)))
         /\ Apart(SubSeq(s, 1, i - 1), SubSeq(s, i, Len(s)))
<1> DEFINE l == SubSeq(s, 1, i - 1)
           r == SubSeq(s, i + 1, Len(s))
           m == <<s[i]>>
           f == SubSeq(s, i, Len(s))
<1>1. s[i] \in S
  BY SplitAt
<1>2. m \in Seq(S) /\ SetOf(m) = {s[i]}
  BY <1>1, SetOfSmall
<1>3. /\ l \in Seq(S) /\ r \in Seq(S)
      /\ s = l \o (m \o r)
      /\ f = m \o r
      /\ RemoveAt(s, i) = l \o r
  BY SplitAt
<1> HIDE DEF l, r, m, f
<1>4. f \in Seq(S)
  BY <1>2, <1>3, ConcatProperties
<1>5. s = l \o f
  BY <1>3
<1>6. DistinctIds(l) /\ DistinctIds(f) /\ Apart(l, f)
  BY <1>3, <1>4, <1>5, DistinctConcat
<1>7. DistinctIds(r) /\ Apart(m, r)
  BY <1>2, <1>3, <1>6, DistinctConcat
<1>8. SetOf(f) = SetOf(m) \cup SetOf(r)
  BY <1>2, <1>3, SetOfConcat
<1>9. Apart(l, r)
  BY <1>6, <1>8 DEF Apart
<1>10. DistinctIds(l \o r)
  BY <1>3, <1>6, <1>7, <1>9, DistinctConcat
<1>11. SetOf(l \o r) = SetOf(l) \cup SetOf(r)
  BY <1>3, SetOfConcat
<1>12. \A c \in SetOf(l \o r) : c.id # s[i].id
  BY <1>2, <1>6, <1>7, <1>8, <1>11 DEF Apart
<1> QED BY <1>3, <1>6, <1>10, <1>12 DEF l, f

\* The same, around the head.
LEMMA DistinctHead ==
  ASSUME NEW S, NEW s \in Seq(S), s # <<>>, DistinctIds(s)
  PROVE  DistinctIds(Tail(s)) /\ \A c \in SetOf(Tail(s)) : c.id # Head(s).id
<1> DEFINE m == <<Head(s)>>
           t == Tail(s)
<1>1. Head(s) \in S /\ t \in Seq(S) /\ s = m \o t
  BY HeadThenTail
<1>2. m \in Seq(S) /\ SetOf(m) = {Head(s)}
  BY <1>1, SetOfSmall
<1> HIDE DEF m, t
<1>3. DistinctIds(t) /\ Apart(m, t)
  BY <1>1, <1>2, DistinctConcat
<1> QED BY <1>2, <1>3 DEF Apart, t

\* Appending an id that is new keeps ids distinct.
LEMMA DistinctAppend ==
  ASSUME NEW S, NEW s \in Seq(S), NEW e \in S, DistinctIds(s),
         \A c \in SetOf(s) : c.id # e.id
  PROVE  DistinctIds(Append(s, e))
<1> DEFINE m == <<e>>
<1>1. m \in Seq(S) /\ SetOf(m) = {e} /\ DistinctIds(m) /\ Append(s, e) = s \o m
  BY SetOfSmall, DistinctSmall, AppendIsConcat
<1> HIDE DEF m
<1>2. Apart(s, m)
  BY <1>1 DEF Apart
<1> QED BY <1>1, <1>2, DistinctConcat

\* Replacing an element by one of the same id.
ReplacedAt(s, i, e) == [s EXCEPT ![i] = e]

\* So does replacing an element by one with its id.
LEMMA DistinctReplaced ==
  ASSUME NEW S, NEW s \in Seq(S), NEW i \in DOMAIN s, NEW e \in S, e.id = s[i].id,
         DistinctIds(s)
  PROVE  /\ DistinctIds(ReplacedAt(s, i, e))
         /\ SetOf(ReplacedAt(s, i, e)) \subseteq SetOf(s) \cup {e}
         /\ SetOf(s) \subseteq SetOf(ReplacedAt(s, i, e)) \cup {s[i]}
         /\ e \in SetOf(ReplacedAt(s, i, e))
         /\ \A c \in SetOf(ReplacedAt(s, i, e)) : c # e => c.id # e.id
<1> DEFINE r == ReplacedAt(s, i, e)
<1>1. DOMAIN r = DOMAIN s /\ r[i] = e /\ \A j \in DOMAIN s : j # i => r[j] = s[j]
  BY LenProperties DEF ReplacedAt
<1>2. \A j \in DOMAIN s : r[j].id = s[j].id
  BY <1>1
<1> HIDE DEF r
<1>3. DistinctIds(r)
  BY <1>1, <1>2 DEF DistinctIds
<1>4. /\ SetOf(r) \subseteq SetOf(s) \cup {e}
      /\ SetOf(s) \subseteq SetOf(r) \cup {s[i]}
      /\ e \in SetOf(r)
  BY <1>1 DEF SetOf
<1>5. \A c \in SetOf(r) : c # e => c.id # e.id
  BY <1>1, <1>3 DEF SetOf, DistinctIds
<1> QED BY <1>3, <1>4, <1>5 DEF r

================================================================================

--------------------------- MODULE SequenceLemmas ---------------------------
(***************************************************************************)
(* What the operations the kernel performs on its lists (insert at either  *)
(* end or in the middle, detach from the front or the middle) do to the    *)
(* set of elements of a list, and that they never duplicate an element.    *)
(***************************************************************************)
EXTENDS Integers, Sequences, FiniteSets, SequencesExt, SequenceTheorems,
        FiniteSetTheorems, WellFoundedInduction, TLAPS

\* The elements of a list by their positions.
LEMMA Elements ==
  ASSUME NEW S, NEW s \in Seq(S)
  PROVE  /\ Len(s) \in Nat
         /\ DOMAIN s = 1..Len(s)
         /\ ToSet(s) = {s[i] : i \in 1..Len(s)}
         /\ \A e : e \in ToSet(s) <=> \E i \in 1..Len(s) : e = s[i]
         /\ \A i \in 1..Len(s) : s[i] \in ToSet(s)
         /\ ToSet(s) \subseteq S
         /\ IsInjective(s) <=> \A i, j \in 1..Len(s) : s[i] = s[j] => i = j
         /\ s # <<>> => Len(s) > 0
  BY LenProperties, EmptySeq, ElementOfSeq DEF ToSet, IsInjective

\* A list without repetitions is as long as the set of its elements is large.
LEMMA DistinctElements ==
  ASSUME NEW S, NEW s \in Seq(S), IsInjective(s)
  PROVE  IsFiniteSet(ToSet(s)) /\ Cardinality(ToSet(s)) = Len(s)
<1>1. Len(s) \in Nat
  BY Elements
<1>2. s \in Bijection(1..Len(s), ToSet(s))
  <2>1. s \in [1..Len(s) -> ToSet(s)]
    BY Elements
  <2>2. \A a, b \in 1..Len(s) : s[a] = s[b] => a = b
    BY Elements
  <2>3. \A e \in ToSet(s) : \E a \in 1..Len(s) : s[a] = e
    BY Elements
  <2> QED
    BY <2>1, <2>2, <2>3 DEF Bijection, Injection, Surjection
<1>3. ExistsBijection(1..Len(s), ToSet(s))
  BY <1>2 DEF ExistsBijection
<1>4. IsFiniteSet(ToSet(s))
  BY <1>1, <1>3, FS_NatBijection
<1> QED
  BY <1>1, <1>3, <1>4, FS_CountingElements

\* List_detach of the first item of a list.
LEMMA DetachFirst ==
  ASSUME NEW S, NEW s \in Seq(S), s # <<>>
  PROVE  /\ Head(s) \in S
         /\ Tail(s) \in Seq(S)
         /\ ToSet(s) = {Head(s)} \cup ToSet(Tail(s))
         /\ IsInjective(s) => IsInjective(Tail(s)) /\ Head(s) \notin ToSet(Tail(s))
<1>1. /\ Head(s) \in S
      /\ Tail(s) \in Seq(S)
      /\ Len(Tail(s)) = Len(s) - 1
      /\ \A i \in 1..Len(Tail(s)) : Tail(s)[i] = s[i + 1]
  BY HeadTailProperties
<1>2. Head(s) = s[1]
  OBVIOUS
<1>3. Len(s) \in Nat /\ Len(s) > 0
  BY Elements
<1>4. \A i \in 2..Len(s) : i - 1 \in 1..Len(Tail(s)) /\ s[i] = Tail(s)[i - 1]
  BY <1>1, <1>3
<1>5. ToSet(s) \subseteq {Head(s)} \cup ToSet(Tail(s))
  <2>1. ASSUME NEW i \in 1..Len(s)
        PROVE  s[i] \in {Head(s)} \cup ToSet(Tail(s))
    <3>1. CASE i = 1
      BY <3>1, <1>2
    <3>2. CASE i # 1
      <4>1. i - 1 \in 1..Len(Tail(s)) /\ s[i] = Tail(s)[i - 1]
        BY <3>2, <1>3, <1>4
      <4> QED
        BY <4>1, <1>1, Elements
    <3> QED
      BY <3>1, <3>2
  <2> QED
    BY <2>1, Elements
<1>6. {Head(s)} \cup ToSet(Tail(s)) \subseteq ToSet(s)
  <2>1. s[1] \in ToSet(s)
    BY <1>3, Elements
  <2>2. \A i \in 1..Len(Tail(s)) : Tail(s)[i] \in ToSet(s)
    BY <1>1, <1>3, Elements
  <2>3. \A e : e \in ToSet(Tail(s)) <=> \E i \in 1..Len(Tail(s)) : e = Tail(s)[i]
    BY <1>1, Elements
  <2> QED
    BY <2>1, <2>2, <2>3, <1>2
<1>7. ASSUME IsInjective(s)
      PROVE  IsInjective(Tail(s)) /\ Head(s) \notin ToSet(Tail(s))
  <2>1. \A i, j \in 1..Len(s) : s[i] = s[j] => i = j
    BY <1>7, Elements
  <2>2. \A i, j \in 1..Len(Tail(s)) : Tail(s)[i] = Tail(s)[j] => i = j
    BY <2>1, <1>1, <1>3
  <2>3. \A i \in 1..Len(Tail(s)) : Tail(s)[i] # Head(s)
    BY <2>1, <1>1, <1>2, <1>3
  <2>4. IsInjective(Tail(s))
    BY <2>2, <1>1, Elements
  <2>5. Head(s) \notin ToSet(Tail(s))
    <3>1. \A e : e \in ToSet(Tail(s)) <=> \E i \in 1..Len(Tail(s)) : e = Tail(s)[i]
      BY <1>1, Elements
    <3> QED
      BY <2>3, <3>1
  <2> QED
    BY <2>4, <2>5
<1> QED
  BY <1>1, <1>5, <1>6, <1>7

\* List_insert at the end of a list.
LEMMA InsertLast ==
  ASSUME NEW S, NEW s \in Seq(S), NEW e \in S
  PROVE  /\ Append(s, e) \in Seq(S)
         /\ Append(s, e) # <<>>
         /\ ToSet(Append(s, e)) = ToSet(s) \cup {e}
         /\ IsInjective(s) /\ e \notin ToSet(s) => IsInjective(Append(s, e))
<1> DEFINE a == Append(s, e)
<1>1. /\ a \in Seq(S)
      /\ Len(a) = Len(s) + 1
      /\ \A i \in 1..Len(s) : a[i] = s[i]
      /\ a[Len(s) + 1] = e
      /\ Len(s) \in Nat
  BY Elements
<1>2. a # <<>>
  BY <1>1, EmptySeq
<1>3. ToSet(a) = {a[i] : i \in 1..(Len(s) + 1)}
  BY <1>1, Elements
<1>4. ToSet(a) = ToSet(s) \cup {e}
  <2>1. 1..(Len(s) + 1) = 1..Len(s) \cup {Len(s) + 1}
    BY <1>1
  <2>2. ToSet(s) = {s[i] : i \in 1..Len(s)}
    BY Elements
  <2> HIDE DEF a
  <2>3. ToSet(a) = {a[i] : i \in 1..Len(s)} \cup {a[Len(s) + 1]}
    BY <2>1, <1>3
  <2> QED
    BY <2>2, <2>3, <1>1
<1>5. ASSUME IsInjective(s), e \notin ToSet(s)
      PROVE  IsInjective(a)
  <2>1. \A i, j \in 1..Len(s) : s[i] = s[j] => i = j
    BY <1>5, Elements
  <2>2. \A i \in 1..Len(s) : s[i] # e
    BY <1>5, Elements
  <2>3. \A i, j \in 1..Len(a) : a[i] = a[j] => i = j
    BY <2>1, <2>2, <1>1
  <2> QED
    BY <2>3, <1>1, Elements
<1> QED
  BY <1>1, <1>2, <1>4, <1>5

\* One list put in front of another (woken sleepers, adopted children).
LEMMA Concatenate ==
  ASSUME NEW S, NEW s \in Seq(S), NEW t \in Seq(S)
  PROVE  /\ s \o t \in Seq(S)
         /\ s \o t = <<>> <=> s = <<>> /\ t = <<>>
         /\ ToSet(s \o t) = ToSet(s) \cup ToSet(t)
         /\ IsInjective(s) /\ IsInjective(t) /\ ToSet(s) \cap ToSet(t) = {}
            => IsInjective(s \o t)
<1> DEFINE c == s \o t
<1>1. /\ c \in Seq(S)
      /\ Len(c) = Len(s) + Len(t)
      /\ \A i \in 1..(Len(s) + Len(t)) :
           c[i] = IF i <= Len(s) THEN s[i] ELSE t[i - Len(s)]
  BY ConcatProperties
<1>2. Len(s) \in Nat /\ Len(t) \in Nat
  BY Elements
<1>3. c = <<>> <=> s = <<>> /\ t = <<>>
  BY ConcatEqualIffEmpty
<1> HIDE DEF c
<1>4. \A i \in 1..Len(s) : i \in 1..Len(c) /\ c[i] = s[i]
  BY <1>1, <1>2
<1>5. ASSUME NEW i \in 1..Len(t)
      PROVE  Len(s) + i \in 1..Len(c) /\ c[Len(s) + i] = t[i]
  <2>1. /\ Len(s) + i \in 1..(Len(s) + Len(t))
        /\ ~(Len(s) + i <= Len(s))
        /\ (Len(s) + i) - Len(s) = i
    BY <1>2
  <2>2. c[Len(s) + i] = t[(Len(s) + i) - Len(s)]
    BY <2>1, <1>1
  <2> QED
    BY <2>1, <2>2, <1>1
<1>6. \A i \in 1..Len(c) : \/ i \in 1..Len(s)
                           \/ i - Len(s) \in 1..Len(t) /\ c[i] = t[i - Len(s)]
  BY <1>1, <1>2
<1>7. ToSet(c) \subseteq ToSet(s) \cup ToSet(t)
  BY <1>1, <1>4, <1>6, Elements
<1>8. ToSet(s) \subseteq ToSet(c) /\ ToSet(t) \subseteq ToSet(c)
  <2>1. \A i \in 1..Len(s) : s[i] \in ToSet(c)
    BY <1>1, <1>4, Elements
  <2>2. \A i \in 1..Len(t) : t[i] \in ToSet(c)
    BY <1>1, <1>5, Elements
  <2> QED
    BY <2>1, <2>2, Elements
<1>9. ASSUME IsInjective(s), IsInjective(t), ToSet(s) \cap ToSet(t) = {}
      PROVE  IsInjective(c)
  <2>1. \A i, j \in 1..Len(s) : s[i] = s[j] => i = j
    BY <1>9, Elements
  <2>2. \A i, j \in 1..Len(t) : t[i] = t[j] => i = j
    BY <1>9, Elements
  <2>3. \A i \in 1..Len(s), j \in 1..Len(t) : s[i] # t[j]
    <3>1. \A i \in 1..Len(s) : s[i] \in ToSet(s)
      BY Elements
    <3>2. \A j \in 1..Len(t) : t[j] \in ToSet(t)
      BY Elements
    <3> QED
      BY <3>1, <3>2, <1>9
  <2>4. ASSUME NEW i \in 1..Len(c), NEW j \in 1..Len(c), c[i] = c[j]
        PROVE  i = j
    <3>1. CASE i \in 1..Len(s) /\ j \in 1..Len(s)
      BY <3>1, <2>1, <2>4, <1>4
    <3>2. CASE i \in 1..Len(s) /\ j \notin 1..Len(s)
      BY <3>2, <2>3, <2>4, <1>4, <1>6
    <3>3. CASE i \notin 1..Len(s) /\ j \in 1..Len(s)
      BY <3>3, <2>3, <2>4, <1>4, <1>6
    <3>4. CASE i \notin 1..Len(s) /\ j \notin 1..Len(s)
      <4>1. i - Len(s) = j - Len(s)
        BY <3>4, <2>2, <2>4, <1>6
      <4> QED
        BY <4>1, <1>1, <1>2
    <3> QED
      BY <3>1, <3>2, <3>3, <3>4
  <2> QED
    BY <2>4, <1>1, Elements
<1> QED
  BY <1>1, <1>3, <1>7, <1>8, <1>9 DEF c

\* List_detach of the item at position i.
LEMMA DetachAt ==
  ASSUME NEW S, NEW s \in Seq(S), NEW i \in 1..Len(s)
  PROVE  /\ RemoveAt(s, i) \in Seq(S)
         /\ ToSet(RemoveAt(s, i)) \subseteq ToSet(s)
         /\ IsInjective(s) => /\ IsInjective(RemoveAt(s, i))
                              /\ ToSet(RemoveAt(s, i)) = ToSet(s) \ {s[i]}
<1> DEFINE u == SubSeq(s, 1, i - 1)
           v == SubSeq(s, i + 1, Len(s))
           r == u \o v
<1>1. Len(s) \in Nat /\ i \in Nat /\ i >= 1 /\ i <= Len(s)
  BY Elements
<1>2. \A j \in 1..Len(s) : s[j] \in S
  BY ElementOfSeq
<1>3. /\ u \in Seq(S)
      /\ Len(u) = i - 1
      /\ \A j \in 1..(i - 1) : u[j] = s[j]
  <2>1. \A j \in 1..(i - 1) : s[j] \in S
    BY <1>1, <1>2
  <2>2. 1 \in Int /\ i - 1 \in Int
    BY <1>1
  <2>3. /\ u \in Seq(S)
        /\ Len(u) = IF 1 <= i - 1 THEN i - 1 - 1 + 1 ELSE 0
        /\ \A j \in 1..(i - 1 - 1 + 1) : u[j] = s[1 + j - 1]
    BY <2>1, <2>2, SubSeqProperties
  <2> HIDE DEF u
  <2> QED
    BY <2>3, <1>1
<1>4. /\ v \in Seq(S)
      /\ Len(v) = Len(s) - i
      /\ \A j \in 1..(Len(s) - i) : v[j] = s[i + j]
  <2>1. \A j \in (i + 1)..Len(s) : s[j] \in S
    BY <1>1, <1>2
  <2>2. i + 1 \in Int /\ Len(s) \in Int
    BY <1>1
  <2>3. /\ v \in Seq(S)
        /\ Len(v) = IF i + 1 <= Len(s) THEN Len(s) - (i + 1) + 1 ELSE 0
        /\ \A j \in 1..(Len(s) - (i + 1) + 1) : v[j] = s[i + 1 + j - 1]
    BY <2>1, <2>2, SubSeqProperties
  <2> HIDE DEF v
  <2> QED
    BY <2>3, <1>1
<1>5. RemoveAt(s, i) = r
  BY DEF RemoveAt
<1> HIDE DEF u, v
<1>6. r \in Seq(S) /\ ToSet(r) = ToSet(u) \cup ToSet(v)
  BY <1>3, <1>4, Concatenate
<1>7. ToSet(u) = {s[j] : j \in 1..(i - 1)}
  <2>1. ToSet(u) = {u[j] : j \in 1..(i - 1)}
    BY <1>1, <1>3, Elements
  <2> QED
    BY <2>1, <1>3
<1>8. ToSet(v) = {s[j] : j \in (i + 1)..Len(s)}
  <2>1. ToSet(v) = {s[i + j] : j \in 1..(Len(s) - i)}
    <3>1. ToSet(v) = {v[j] : j \in 1..(Len(s) - i)}
      BY <1>1, <1>4, Elements
    <3> QED
      BY <3>1, <1>4
  <2>2. \A j \in 1..(Len(s) - i) : i + j \in (i + 1)..Len(s)
    BY <1>1
  <2>3. \A j \in (i + 1)..Len(s) : j - i \in 1..(Len(s) - i) /\ i + (j - i) = j
    BY <1>1
  <2>4. {s[i + j] : j \in 1..(Len(s) - i)} \subseteq {s[j] : j \in (i + 1)..Len(s)}
    BY <2>2
  <2>5. ASSUME NEW j \in (i + 1)..Len(s)
        PROVE  s[j] \in {s[i + k] : k \in 1..(Len(s) - i)}
    <3>1. j - i \in 1..(Len(s) - i) /\ s[i + (j - i)] = s[j]
      BY <2>3
    <3> QED
      BY <3>1
  <2> QED
    BY <2>1, <2>4, <2>5
<1>9. ToSet(r) \subseteq ToSet(s)
  BY <1>1, <1>6, <1>7, <1>8, Elements
<1>10. ASSUME IsInjective(s)
       PROVE  IsInjective(r) /\ ToSet(r) = ToSet(s) \ {s[i]}
  <2>1. \A j, k \in 1..Len(s) : s[j] = s[k] => j = k
    BY <1>10, Elements
  <2>2. IsInjective(u)
    BY <2>1, <1>1, <1>3, Elements
  <2>3. \A j, k \in 1..Len(v) : v[j] = v[k] => j = k
    BY <2>1, <1>1, <1>4
  <2>4. IsInjective(v)
    BY <2>3, <1>4, Elements
  <2>5. ToSet(u) \cap ToSet(v) = {}
    BY <2>1, <1>1, <1>7, <1>8
  <2>6. IsInjective(r)
    BY <2>2, <2>4, <2>5, <1>3, <1>4, Concatenate
  <2>7. ToSet(s) = ToSet(u) \cup {s[i]} \cup ToSet(v)
    <3>1. 1..Len(s) = 1..(i - 1) \cup {i} \cup (i + 1)..Len(s)
      BY <1>1
    <3> QED
      BY <3>1, <1>7, <1>8, Elements
  <2>8. s[i] \notin ToSet(u) /\ s[i] \notin ToSet(v)
    BY <2>1, <1>1, <1>7, <1>8
  <2> QED
    BY <2>6, <2>7, <2>8, <1>6
<1> QED
  BY <1>5, <1>6, <1>9, <1>10

\* The rest of a list after its first n items were detached.
LEMMA DetachPrefix ==
  ASSUME NEW S, NEW s \in Seq(S), NEW n \in 0..Len(s)
  PROVE  LET r == SubSeq(s, n + 1, Len(s))
         IN  /\ r \in Seq(S)
             /\ Len(r) = Len(s) - n
             /\ \A j \in 1..(Len(s) - n) : r[j] = s[n + j]
<1> DEFINE r == SubSeq(s, n + 1, Len(s))
<1>1. Len(s) \in Nat /\ n \in Nat /\ n <= Len(s)
  BY Elements
<1>2. \A j \in (n + 1)..Len(s) : s[j] \in S
  BY <1>1, ElementOfSeq
<1>3. n + 1 \in Int /\ Len(s) \in Int
  BY <1>1
<1>4. /\ r \in Seq(S)
      /\ Len(r) = IF n + 1 <= Len(s) THEN Len(s) - (n + 1) + 1 ELSE 0
      /\ \A j \in 1..(Len(s) - (n + 1) + 1) : r[j] = s[n + 1 + j - 1]
  BY <1>2, <1>3, SubSeqProperties
<1> HIDE DEF r
<1>5. Len(r) = Len(s) - n
  BY <1>1, <1>4
<1>6. \A j \in 1..(Len(s) - n) : r[j] = s[n + j]
  BY <1>1, <1>4
<1> QED
  BY <1>4, <1>5, <1>6 DEF r

\* List_insert behind the k-th item of a list.
LEMMA InsertBehind ==
  ASSUME NEW S, NEW s \in Seq(S), NEW k \in 0..Len(s), NEW e \in S,
         NEW m, m = k + 1
  PROVE  /\ InsertAt(s, m, e) \in Seq(S)
         /\ Len(InsertAt(s, m, e)) = Len(s) + 1
         /\ \A j \in 1..k : InsertAt(s, m, e)[j] = s[j]
         /\ InsertAt(s, m, e)[k + 1] = e
         /\ \A j \in (k + 2)..(Len(s) + 1) : InsertAt(s, m, e)[j] = s[j - 1]
<1> DEFINE u == SubSeq(s, 1, k)
           v == SubSeq(s, k + 1, Len(s))
           w == u \o <<e>>
           r == w \o v
<1>1. Len(s) \in Nat /\ k \in Nat /\ k <= Len(s)
  BY Elements
<1>2. /\ u \in Seq(S)
      /\ Len(u) = k
      /\ \A j \in 1..k : u[j] = s[j]
  <2>1. \A j \in 1..k : s[j] \in S
    BY <1>1, ElementOfSeq
  <2>2. 1 \in Int /\ k \in Int
    BY <1>1
  <2>3. /\ u \in Seq(S)
        /\ Len(u) = IF 1 <= k THEN k - 1 + 1 ELSE 0
        /\ \A j \in 1..(k - 1 + 1) : u[j] = s[1 + j - 1]
    BY <2>1, <2>2, SubSeqProperties
  <2> HIDE DEF u
  <2> QED
    BY <2>3, <1>1
<1>3. /\ v \in Seq(S)
      /\ Len(v) = Len(s) - k
      /\ \A j \in 1..(Len(s) - k) : v[j] = s[k + j]
  BY DetachPrefix
<1> HIDE DEF u, v
<1>4. /\ <<e>> \in Seq(S)
      /\ Len(<<e>>) = 1
      /\ <<e>>[1] = e
  OBVIOUS
<1>5. /\ w \in Seq(S)
      /\ Len(w) = k + 1
      /\ \A j \in 1..k : w[j] = s[j]
      /\ w[k + 1] = e
  <2>1. /\ w \in Seq(S)
        /\ Len(w) = Len(u) + Len(<<e>>)
        /\ \A j \in 1..(Len(u) + Len(<<e>>)) :
             w[j] = IF j <= Len(u) THEN u[j] ELSE <<e>>[j - Len(u)]
    BY <1>2, <1>4, ConcatProperties
  <2> HIDE DEF w
  <2>2. \A j \in 1..k : w[j] = s[j]
    BY <2>1, <1>1, <1>2, <1>4
  <2>3. w[k + 1] = <<e>>[k + 1 - k]
    BY <2>1, <1>1, <1>2, <1>4
  <2>4. k + 1 - k = 1
    BY <1>1
  <2> QED
    BY <2>1, <2>2, <2>3, <2>4, <1>2, <1>4
<1> HIDE DEF w
<1>6. /\ r \in Seq(S)
      /\ Len(r) = Len(w) + Len(v)
      /\ \A j \in 1..(Len(w) + Len(v)) :
           r[j] = IF j <= Len(w) THEN w[j] ELSE v[j - Len(w)]
  BY <1>3, <1>5, ConcatProperties
<1> HIDE DEF r
<1>7. Len(r) = Len(s) + 1
  BY <1>1, <1>3, <1>5, <1>6
<1>8. \A j \in 1..k : r[j] = s[j]
  BY <1>1, <1>3, <1>5, <1>6
<1>9. r[k + 1] = e
  BY <1>1, <1>3, <1>5, <1>6
<1>10. ASSUME NEW j \in (k + 2)..(Len(s) + 1)
       PROVE  r[j] = s[j - 1]
  <2>1. j - (k + 1) \in 1..(Len(s) - k) /\ k + (j - (k + 1)) = j - 1
    BY <1>1
  <2>2. r[j] = v[j - (k + 1)]
    BY <2>1, <1>1, <1>3, <1>5, <1>6
  <2> QED
    BY <2>1, <2>2, <1>3
<1>11. InsertAt(s, m, e) = r
  <2>1. InsertAt(s, m, e) = SubSeq(s, 1, m - 1) \o <<e>> \o SubSeq(s, m, Len(s))
    BY DEF InsertAt
  <2>2. m - 1 = k
    BY <1>1
  <2>3. r = SubSeq(s, 1, k) \o <<e>> \o SubSeq(s, k + 1, Len(s))
    BY DEF r, u, v, w
  <2> QED
    BY <2>1, <2>2, <2>3
<1> QED
  BY <1>6, <1>7, <1>8, <1>9, <1>10, <1>11

-----------------------------------------------------------------------------
(* Searches                                                                *)

\* A set of positions has a first one.
LEMMA LeastPosition ==
  ASSUME NEW T \in SUBSET Nat, T # {}
  PROVE  Min(T) \in T /\ \A y \in T : Min(T) <= y
<1> DEFINE Less == {xy \in Nat \X Nat : xy[1] < xy[2]}
<1>1. IsWellFoundedOn(Less, Nat)
  BY NatLessThanWellFounded DEF OpToRel
<1> HIDE DEF Less
<1>2. \E x \in T : \A y \in T : <<y, x>> \notin Less
  BY <1>1, WFMin
<1>3. \E x \in T : \A y \in T : x <= y
  <2>1. PICK x \in T : \A y \in T : <<y, x>> \notin Less
    BY <1>2
  <2>2. ASSUME NEW y \in T PROVE x <= y
    <3>1. x \in Nat /\ y \in Nat
      OBVIOUS
    <3>2. ~(y < x)
      <4>1. y < x => <<y, x>> \in Less
        BY <3>1 DEF Less
      <4> QED
        BY <2>1, <4>1
    <3> QED
      BY <3>1, <3>2
  <2> QED
    BY <2>2
<1> QED
  BY <1>3 DEF Min

\* The position that a search for the first item with a property finds, the
\* items with the property being those at the positions in I.
LEMMA FirstFound ==
  ASSUME NEW S, NEW s \in Seq(S), NEW I \in SUBSET (1..Len(s)),
         NEW k, k = IF I # {} THEN Min(I) ELSE 0
  PROVE  /\ k \in 0..Len(s)
         /\ k = 0 <=> I = {}
         /\ k # 0 => /\ k \in I /\ s[k] \in S /\ s[k] \in ToSet(s)
                     /\ \A i \in I : k <= i
<1>1. Len(s) \in Nat /\ I \in SUBSET Nat
  BY Elements
<1>2. I # {} => k \in I /\ \A i \in I : k <= i
  BY <1>1, LeastPosition
<1>3. CASE I = {}
  BY <1>1, <1>3
<1>4. CASE I # {}
  <2>1. k \in I /\ k \in 1..Len(s)
    BY <1>2, <1>4
  <2>2. s[k] \in S /\ s[k] \in ToSet(s)
    BY <2>1, Elements
  <2> QED
    BY <1>1, <1>2, <1>4, <2>1, <2>2
<1> QED
  BY <1>3, <1>4

\* List_detach of an item of a list in which it is once at the most.
LEMMA DetachElement ==
  ASSUME NEW S, NEW s \in Seq(S), NEW e, IsInjective(s)
  PROVE  /\ RemoveFirst(s, e) \in Seq(S)
         /\ IsInjective(RemoveFirst(s, e))
         /\ ToSet(RemoveFirst(s, e)) = ToSet(s) \ {e}
<1> DEFINE I == {i \in 1..Len(s) : s[i] = e}
           k == IF I # {} THEN Min(I) ELSE 0
<1>1. RemoveFirst(s, e) = IF \E i \in 1..Len(s) : s[i] = e THEN RemoveAt(s, k) ELSE s
  BY DEF RemoveFirst, SelectInSeq
<1>2. /\ k \in 0..Len(s)
      /\ k = 0 <=> I = {}
      /\ k # 0 => k \in I
  <2>1. I \in SUBSET (1..Len(s))
    OBVIOUS
  <2> HIDE DEF I
  <2> QED
    BY <2>1, FirstFound
<1> HIDE DEF k
<1>3. CASE I = {}
  <2>1. RemoveFirst(s, e) = s
    BY <1>1, <1>3
  <2>2. e \notin ToSet(s)
    BY <1>3, Elements
  <2> QED
    BY <2>1, <2>2
<1>4. CASE I # {}
  <2>1. k \in 1..Len(s) /\ s[k] = e
    BY <1>2, <1>4, Elements
  <2>2. RemoveFirst(s, e) = RemoveAt(s, k)
    BY <1>1, <2>1
  <2> QED
    BY <2>1, <2>2, DetachAt
<1> QED
  BY <1>3, <1>4

\* Behind the position of an item that is detached the others move up.
LEMMA DetachPositions ==
  ASSUME NEW S, NEW s \in Seq(S), NEW k \in 1..Len(s)
  PROVE  /\ Len(RemoveAt(s, k)) = Len(s) - 1
         /\ \A i \in 1..(Len(s) - 1) :
              RemoveAt(s, k)[i] = IF i < k THEN s[i] ELSE s[i + 1]
<1> DEFINE u == SubSeq(s, 1, k - 1)
           v == SubSeq(s, k + 1, Len(s))
<1>1. RemoveAt(s, k) = u \o v
  BY DEF RemoveAt
<1>2. Len(s) \in Nat /\ k \in Nat /\ \A j \in 1..Len(s) : s[j] \in S
  BY Elements, ElementOfSeq
<1>3. /\ u \in Seq(S)
      /\ Len(u) = k - 1
      /\ \A j \in 1..(k - 1) : u[j] = s[j]
  <2>1. \A j \in 1..(k - 1) : s[j] \in S
    BY <1>2
  <2>2. 1 \in Int /\ k - 1 \in Int
    BY <1>2
  <2>3. /\ u \in Seq(S)
        /\ Len(u) = IF 1 <= k - 1 THEN k - 1 - 1 + 1 ELSE 0
        /\ \A j \in 1..(k - 1 - 1 + 1) : u[j] = s[1 + j - 1]
    BY <2>1, <2>2, SubSeqProperties
  <2> HIDE DEF u
  <2> QED
    BY <1>2, <2>3
<1>4. /\ v \in Seq(S)
      /\ Len(v) = Len(s) - k
      /\ \A j \in 1..(Len(s) - k) : v[j] = s[k + j]
  BY <1>2, DetachPrefix
<1> HIDE DEF u, v
<1>5. /\ Len(u \o v) = Len(s) - 1
      /\ \A i \in 1..(Len(s) - 1) :
           (u \o v)[i] = IF i <= k - 1 THEN u[i] ELSE v[i - (k - 1)]
  <2>1. /\ Len(u \o v) = Len(u) + Len(v)
        /\ \A i \in 1..(Len(u) + Len(v)) :
             (u \o v)[i] = IF i <= Len(u) THEN u[i] ELSE v[i - Len(u)]
    BY <1>3, <1>4, ConcatProperties
  <2>2. Len(u) + Len(v) = Len(s) - 1
    BY <1>2, <1>3, <1>4
  <2> QED
    BY <1>3, <2>1, <2>2
<1>6. ASSUME NEW i \in 1..(Len(s) - 1)
      PROVE  (u \o v)[i] = IF i < k THEN s[i] ELSE s[i + 1]
  <2>1. CASE i < k
    BY <1>2, <1>3, <1>5, <2>1
  <2>2. CASE ~(i < k)
    <3>1. i - (k - 1) \in 1..(Len(s) - k) /\ k + (i - (k - 1)) = i + 1
      BY <1>2, <2>2
    <3>2. (u \o v)[i] = v[i - (k - 1)]
      BY <1>2, <1>5, <2>2
    <3> QED
      BY <1>4, <2>2, <3>1, <3>2
  <2> QED
    BY <2>1, <2>2
<1> QED
  BY <1>1, <1>5, <1>6

\* What is left after an item is detached is in the order it was in: there is a
\* position in front of which the items are where they were, and from which they
\* were one further behind.
LEMMA DetachKeepsOrder ==
  ASSUME NEW S, NEW s \in Seq(S), NEW e
  PROVE  \E k \in Nat : \A i \in 1..Len(RemoveFirst(s, e)) :
           LET j == IF i < k THEN i ELSE i + 1
           IN  j \in 1..Len(s) /\ RemoveFirst(s, e)[i] = s[j]
<1> DEFINE I == {i \in 1..Len(s) : s[i] = e}
           k == IF I # {} THEN Min(I) ELSE 0
<1>1. RemoveFirst(s, e) = IF \E i \in 1..Len(s) : s[i] = e THEN RemoveAt(s, k) ELSE s
  BY DEF RemoveFirst, SelectInSeq
<1>2. /\ k \in 0..Len(s)
      /\ k = 0 <=> I = {}
  <2>1. I \in SUBSET (1..Len(s))
    OBVIOUS
  <2> HIDE DEF I
  <2> QED
    BY <2>1, FirstFound
<1>3. Len(s) \in Nat
  BY Elements
<1> HIDE DEF k
<1>4. CASE I = {}
  <2>1. RemoveFirst(s, e) = s
    BY <1>1, <1>4
  <2>2. \A i \in 1..Len(s) : (IF i < Len(s) + 1 THEN i ELSE i + 1) = i
    BY <1>3
  <2>3. Len(s) + 1 \in Nat
    BY <1>3
  <2> DEFINE m == Len(s) + 1
  <2> HIDE DEF m
  <2>4. \A i \in 1..Len(s) : (IF i < m THEN i ELSE i + 1) = i
    BY <2>2 DEF m
  <2>5. m \in Nat
    BY <2>3 DEF m
  <2> QED
    BY <2>1, <2>4, <2>5
<1>5. CASE I # {}
  <2>1. k \in 1..Len(s) /\ k \in Nat
    BY <1>2, <1>3, <1>5
  <2>2. RemoveFirst(s, e) = RemoveAt(s, k)
    BY <1>1, <1>5
  <2>3. /\ Len(RemoveAt(s, k)) = Len(s) - 1
        /\ \A i \in 1..(Len(s) - 1) :
             RemoveAt(s, k)[i] = IF i < k THEN s[i] ELSE s[i + 1]
    BY <2>1, DetachPositions
  <2>4. \A i \in 1..(Len(s) - 1) : i \in 1..Len(s) /\ i + 1 \in 1..Len(s)
    BY <1>3
  <2> QED
    BY <2>1, <2>2, <2>3, <2>4
<1> QED
  BY <1>4, <1>5

-----------------------------------------------------------------------------
(* Linked lists                                                            *)

\* The pointers next and prev link the items of s in both directions.
Linked(next, prev, null, s) ==
  \A i \in 1..Len(s) :
    /\ next[s[i]] = IF i = Len(s) THEN null ELSE s[i + 1]
    /\ prev[s[i]] = IF i = 1 THEN null ELSE s[i - 1]

\* List_insert behind the k-th item, on the items of the list ...
LEMMA InsertKeepsApart ==
  ASSUME NEW S, NEW s \in Seq(S), IsInjective(s), NEW k \in 0..Len(s),
         NEW m, m = k + 1, NEW x \in S, x \notin ToSet(s)
  PROVE  /\ IsInjective(InsertAt(s, m, x))
         /\ ToSet(InsertAt(s, m, x)) = ToSet(s) \cup {x}
<1> DEFINE t == InsertAt(s, m, x)
<1>1. /\ t \in Seq(S) /\ Len(t) = Len(s) + 1
      /\ \A j \in 1..k : t[j] = s[j]
      /\ t[k + 1] = x
      /\ \A j \in (k + 2)..(Len(s) + 1) : t[j] = s[j - 1]
  <2>1. t \in Seq(S)
    BY InsertBehind
  <2>2. Len(t) = Len(s) + 1
    BY InsertBehind
  <2>3. \A j \in 1..k : t[j] = s[j]
    BY InsertBehind
  <2>4. t[k + 1] = x
    BY InsertBehind
  <2>5. \A j \in (k + 2)..(Len(s) + 1) : t[j] = s[j - 1]
    BY InsertBehind
  <2> QED
    BY <2>1, <2>2, <2>3, <2>4, <2>5
<1>2. /\ Len(s) \in Nat /\ k \in Nat /\ k <= Len(s)
      /\ ToSet(s) = {s[j] : j \in 1..Len(s)}
      /\ \A i, j \in 1..Len(s) : s[i] = s[j] => i = j
      /\ \A j \in 1..Len(s) : s[j] # x
  BY Elements
<1> HIDE DEF t
<1>3. \A j \in 1..Len(t) :
        j # k + 1 => \E u \in 1..Len(s) : /\ u = IF j <= k THEN j ELSE j - 1
                                          /\ t[j] = s[u]
  <2> SUFFICES ASSUME NEW j \in 1..Len(t), j # k + 1
               PROVE  \E u \in 1..Len(s) : /\ u = IF j <= k THEN j ELSE j - 1
                                           /\ t[j] = s[u]
    OBVIOUS
  <2>1. CASE j <= k
    <3>1. j \in 1..k /\ j \in 1..Len(s)
      BY <1>1, <1>2, <2>1
    <3> QED
      BY <1>1, <2>1, <3>1
  <2>2. CASE ~(j <= k)
    <3>1. j \in (k + 2)..(Len(s) + 1) /\ j - 1 \in 1..Len(s)
      BY <1>1, <1>2, <2>2
    <3> QED
      BY <1>1, <2>2, <3>1
  <2> QED
    BY <2>1, <2>2
<1>4. ASSUME NEW i \in 1..Len(t), NEW j \in 1..Len(t), t[i] = t[j]
      PROVE  i = j
  <2>1. CASE i = k + 1 \/ j = k + 1
    BY <1>1, <1>2, <1>3, <1>4, <2>1
  <2>2. CASE i # k + 1 /\ j # k + 1
    <3>1. PICK u \in 1..Len(s) : u = (IF i <= k THEN i ELSE i - 1) /\ t[i] = s[u]
      BY <1>3, <2>2
    <3>2. PICK v \in 1..Len(s) : v = (IF j <= k THEN j ELSE j - 1) /\ t[j] = s[v]
      BY <1>3, <2>2
    <3>3. u = v
      BY <1>2, <1>4, <3>1, <3>2
    <3> QED
      BY <1>1, <1>2, <2>2, <3>1, <3>2, <3>3
  <2> QED
    BY <2>1, <2>2
<1>5. ToSet(t) \subseteq ToSet(s) \cup {x}
  BY <1>1, <1>2, <1>3, Elements
<1>6. ASSUME NEW j \in 1..Len(s) PROVE s[j] \in ToSet(t)
  <2>1. CASE j <= k
    <3>1. j \in 1..Len(t) /\ t[j] = s[j]
      BY <1>1, <1>2, <2>1
    <3> QED
      BY <1>1, <3>1, Elements
  <2>2. CASE ~(j <= k)
    <3>1. j + 1 \in 1..Len(t) /\ j + 1 \in (k + 2)..(Len(s) + 1) /\ (j + 1) - 1 = j
      BY <1>1, <1>2, <2>2
    <3>2. t[j + 1] = s[j]
      BY <1>1, <3>1
    <3> QED
      BY <1>1, <3>1, <3>2, Elements
  <2> QED
    BY <2>1, <2>2
<1>7. x \in ToSet(t)
  <2>1. k + 1 \in 1..Len(t)
    BY <1>1, <1>2
  <2> QED
    BY <1>1, <2>1, Elements
<1>8. IsInjective(t)
  BY <1>1, <1>4, Elements
<1>9. ToSet(t) = ToSet(s) \cup {x}
  BY <1>2, <1>5, <1>6, <1>7
<1> QED
  BY <1>8, <1>9 DEF t

\* ... and on the pointers: x between its neighbours p and n, which are null at
\* the ends of the list.
LEMMA InsertKeepsLinked ==
  ASSUME NEW S, NEW null, null \notin S,
         NEW s \in Seq(S), IsInjective(s), NEW k \in 0..Len(s),
         NEW m, m = k + 1, NEW x \in S, x \notin ToSet(s),
         NEW p, p = IF k = 0 THEN null ELSE s[k],
         NEW n, n = IF k = Len(s) THEN null ELSE s[k + 1],
         NEW next, NEW prev, Linked(next, prev, null, s),
         NEW next2, NEW prev2,
         \A y \in S : /\ next2[y] = IF y = p THEN x ELSE IF y = x THEN n ELSE next[y]
                      /\ prev2[y] = IF y = n THEN x ELSE IF y = x THEN p ELSE prev[y]
  PROVE  Linked(next2, prev2, null, InsertAt(s, m, x))
<1> DEFINE t == InsertAt(s, m, x)
<1>1. /\ t \in Seq(S) /\ Len(t) = Len(s) + 1
      /\ \A j \in 1..k : t[j] = s[j]
      /\ t[k + 1] = x
      /\ \A j \in (k + 2)..(Len(s) + 1) : t[j] = s[j - 1]
  <2>1. t \in Seq(S)
    BY InsertBehind
  <2>2. Len(t) = Len(s) + 1
    BY InsertBehind
  <2>3. \A j \in 1..k : t[j] = s[j]
    BY InsertBehind
  <2>4. t[k + 1] = x
    BY InsertBehind
  <2>5. \A j \in (k + 2)..(Len(s) + 1) : t[j] = s[j - 1]
    BY InsertBehind
  <2> QED
    BY <2>1, <2>2, <2>3, <2>4, <2>5
<1>2. /\ Len(s) \in Nat /\ k \in Nat /\ k <= Len(s)
      /\ \A i, j \in 1..Len(s) : s[i] = s[j] => i = j
      /\ \A j \in 1..Len(s) : s[j] # x /\ s[j] \in S /\ s[j] # null
  BY Elements, ElementOfSeq
<1> HIDE DEF t
<1>3. ASSUME NEW i \in 1..k
      PROVE  /\ next2[t[i]] = IF i = Len(t) THEN null ELSE t[i + 1]
             /\ prev2[t[i]] = IF i = 1 THEN null ELSE t[i - 1]
  <2>1. /\ i \in Nat /\ i \in 1..Len(s) /\ i # Len(t) /\ t[i] = s[i]
        /\ s[i] # x /\ s[i] \in S /\ s[i] # null
    BY <1>1, <1>2
  <2>2. next2[s[i]] = t[i + 1]
    <3>1. CASE i = k
      BY <1>1, <1>2, <2>1, <3>1
    <3>2. CASE i # k
      <4>1. s[i] # p /\ i + 1 \in 1..k /\ i # Len(s)
        BY <1>2, <2>1, <3>2
      <4> QED
        BY <1>1, <2>1, <4>1 DEF Linked
    <3> QED
      BY <3>1, <3>2
  <2>3. s[i] # n
    <3>1. CASE k = Len(s)
      BY <2>1, <3>1
    <3>2. CASE k # Len(s)
      <4>1. k + 1 \in 1..Len(s) /\ i # k + 1
        BY <1>2, <2>1, <3>2
      <4> QED
        BY <1>2, <2>1, <3>2, <4>1
    <3> QED
      BY <3>1, <3>2
  <2>4. prev2[s[i]] = IF i = 1 THEN null ELSE s[i - 1]
    BY <2>1, <2>3 DEF Linked
  <2>5. i # 1 => i - 1 \in 1..k
    BY <1>2, <2>1
  <2> QED
    BY <1>1, <2>1, <2>2, <2>4, <2>5
<1>4. /\ next2[x] = IF k + 1 = Len(t) THEN null ELSE t[k + 2]
      /\ prev2[x] = IF k + 1 = 1 THEN null ELSE t[k]
  <2>1. x # p /\ x # n /\ x # null
    BY <1>2
  <2>2. next2[x] = n /\ prev2[x] = p
    BY <2>1
  <2>3. n = IF k + 1 = Len(t) THEN null ELSE t[k + 2]
    <3>1. k # Len(s) => k + 2 \in (k + 2)..(Len(s) + 1) /\ (k + 2) - 1 = k + 1
      BY <1>2
    <3>2. k = Len(s) <=> k + 1 = Len(t)
      BY <1>1, <1>2
    <3> QED
      BY <1>1, <3>1, <3>2
  <2>4. p = IF k + 1 = 1 THEN null ELSE t[k]
    BY <1>1, <1>2
  <2> QED
    BY <2>2, <2>3, <2>4
<1>5. ASSUME NEW i \in (k + 2)..(Len(s) + 1)
      PROVE  /\ next2[t[i]] = IF i = Len(t) THEN null ELSE t[i + 1]
             /\ prev2[t[i]] = IF i = 1 THEN null ELSE t[i - 1]
  <2>1. /\ i \in Nat /\ i - 1 \in 1..Len(s) /\ t[i] = s[i - 1]
        /\ s[i - 1] # x /\ s[i - 1] \in S /\ s[i - 1] # null
    BY <1>1, <1>2
  <2>2. s[i - 1] # p
    <3>1. CASE k = 0
      BY <2>1, <3>1
    <3>2. CASE k # 0
      <4>1. k \in 1..Len(s) /\ k # i - 1
        BY <1>2, <2>1, <3>2
      <4> QED
        BY <1>2, <2>1, <3>2, <4>1
    <3> QED
      BY <3>1, <3>2
  <2>3. next2[s[i - 1]] = IF i - 1 = Len(s) THEN null ELSE s[(i - 1) + 1]
    BY <2>1, <2>2 DEF Linked
  <2>4. i - 1 # Len(s) => i + 1 \in (k + 2)..(Len(s) + 1) /\ (i + 1) - 1 = (i - 1) + 1
    BY <1>2, <2>1
  <2>5. i = Len(t) <=> i - 1 = Len(s)
    BY <1>1, <1>2, <2>1
  <2>6. next2[t[i]] = IF i = Len(t) THEN null ELSE t[i + 1]
    <3>1. CASE i - 1 = Len(s)
      BY <2>1, <2>3, <2>5, <3>1
    <3>2. CASE i - 1 # Len(s)
      <4>1. t[i + 1] = s[(i + 1) - 1]
        BY <1>1, <2>4, <3>2
      <4>2. t[i + 1] = s[(i - 1) + 1]
        BY <2>4, <3>2, <4>1
      <4> QED
        BY <2>1, <2>3, <2>5, <3>2, <4>2
    <3> QED
      BY <3>1, <3>2
  <2>7. prev2[s[i - 1]] = t[i - 1]
    <3>1. CASE i = k + 2
      <4>1. i - 1 = k + 1 /\ k # Len(s)
        BY <1>2, <2>1, <3>1
      <4> QED
        BY <1>1, <2>1, <4>1
    <3>2. CASE i # k + 2
      <4>1. i - 1 \in (k + 2)..(Len(s) + 1) /\ i - 1 # 1 /\ k + 1 \in 1..Len(s)
            /\ k # Len(s) /\ i - 1 # k + 1
        BY <1>2, <2>1, <3>2
      <4>2. s[i - 1] # n
        BY <1>2, <2>1, <4>1
      <4>3. prev2[s[i - 1]] = s[(i - 1) - 1]
        BY <2>1, <4>1, <4>2 DEF Linked
      <4> QED
        BY <1>1, <4>1, <4>3
    <3> QED
      BY <3>1, <3>2
  <2>8. i # 1
    BY <1>2, <2>1
  <2> QED
    BY <2>1, <2>6, <2>7, <2>8
<1>6. \A i \in 1..Len(t) : i \in 1..k \/ i = k + 1 \/ i \in (k + 2)..(Len(s) + 1)
  BY <1>1, <1>2
<1>7. (k + 1) + 1 = k + 2 /\ (k + 1) - 1 = k
  BY <1>2
<1>8. ASSUME NEW i \in 1..Len(t)
      PROVE  /\ next2[t[i]] = IF i = Len(t) THEN null ELSE t[i + 1]
             /\ prev2[t[i]] = IF i = 1 THEN null ELSE t[i - 1]
  <2>1. CASE i = k + 1
    BY <1>1, <1>4, <1>7, <2>1
  <2> QED
    BY <1>3, <1>5, <1>6, <2>1
<1>9. Linked(next2, prev2, null, t)
  BY <1>8 DEF Linked
<1> QED
  BY <1>9 DEF t

\* List_detach of the i-th item, which joins its neighbours p and n.
LEMMA DetachKeepsLinked ==
  ASSUME NEW S, NEW null, null \notin S,
         NEW s \in Seq(S), IsInjective(s), NEW i \in 1..Len(s),
         NEW x, x = s[i],
         NEW p, p = IF i = 1 THEN null ELSE s[i - 1],
         NEW n, n = IF i = Len(s) THEN null ELSE s[i + 1],
         NEW next, NEW prev, Linked(next, prev, null, s),
         NEW next2, NEW prev2,
         \A y \in S :
           /\ next2[y] = IF y = x THEN null ELSE IF y = p THEN n ELSE next[y]
           /\ prev2[y] = IF y = x THEN null ELSE IF y = n THEN p ELSE prev[y]
  PROVE  Linked(next2, prev2, null, RemoveAt(s, i))
<1> DEFINE t == RemoveAt(s, i)
           At(j) == IF j < i THEN j ELSE j + 1
<1>1. /\ Len(t) = Len(s) - 1
      /\ \A j \in 1..(Len(s) - 1) : t[j] = s[At(j)]
  <2>1. /\ Len(t) = Len(s) - 1
        /\ \A j \in 1..(Len(s) - 1) : t[j] = IF j < i THEN s[j] ELSE s[j + 1]
    BY DetachPositions
  <2> HIDE DEF t
  <2> QED
    BY <2>1
<1>2. /\ Len(s) \in Nat /\ i \in Nat /\ 1 <= i /\ i <= Len(s)
      /\ \A j, k \in 1..Len(s) : s[j] = s[k] => j = k
      /\ \A j \in 1..Len(s) : s[j] \in S /\ s[j] # null
  BY Elements, ElementOfSeq
<1> HIDE DEF t
<1>3. ASSUME NEW j \in 1..(Len(s) - 1)
      PROVE  /\ next2[s[At(j)]] = IF j = Len(s) - 1 THEN null ELSE s[At(j + 1)]
             /\ prev2[s[At(j)]] = IF j = 1 THEN null ELSE s[At(j - 1)]
  <2>1. CASE j < i
    <3>1. /\ At(j) = j /\ j \in Nat /\ j \in 1..Len(s) /\ s[j] # x /\ s[j] \in S
          /\ j # Len(s) /\ (i # 1 \/ j # i - 1)
      BY <1>2, <2>1
    <3>2. next2[s[j]] = IF j = Len(s) - 1 THEN null ELSE s[At(j + 1)]
      <4>1. CASE j = i - 1
        <5>1. /\ i # 1 /\ p = s[j] /\ At(j + 1) = i + 1
              /\ i = Len(s) <=> j = Len(s) - 1
          BY <1>2, <2>1, <4>1
        <5> QED
          BY <3>1, <5>1
      <4>2. CASE j # i - 1
        <5>1. /\ i # 1 => i - 1 \in 1..Len(s)
              /\ At(j + 1) = j + 1 /\ j # Len(s) - 1 /\ j # Len(s)
          BY <1>2, <2>1, <4>2
        <5>2. s[j] # p
          BY <1>2, <3>1, <4>2, <5>1
        <5> QED
          BY <3>1, <5>1, <5>2 DEF Linked
      <4> QED
        BY <4>1, <4>2
    <3>3. s[j] # n
      <4>1. i # Len(s) => i + 1 \in 1..Len(s) /\ i + 1 # j
        BY <1>2, <2>1
      <4> QED
        BY <1>2, <3>1, <4>1
    <3>4. prev2[s[j]] = IF j = 1 THEN null ELSE s[j - 1]
      BY <3>1, <3>3 DEF Linked
    <3>5. At(j - 1) = j - 1
      BY <1>2, <2>1
    <3> QED
      BY <3>1, <3>2, <3>4, <3>5
  <2>2. CASE ~(j < i)
    <3>1. /\ At(j) = j + 1 /\ j \in Nat /\ j + 1 \in 1..Len(s)
          /\ s[j + 1] # x /\ s[j + 1] \in S
      <4>1. /\ At(j) = j + 1 /\ j \in Nat /\ j + 1 \in 1..Len(s) /\ j + 1 # i
        BY <1>2, <2>2
      <4> QED
        BY <1>2, <4>1
    <3>2. s[j + 1] # p
      <4>1. i # 1 => i - 1 \in 1..Len(s) /\ i - 1 # j + 1
        BY <1>2, <2>2, <3>1
      <4> QED
        BY <1>2, <3>1, <4>1
    <3>3. /\ j + 1 = Len(s) <=> j = Len(s) - 1
          /\ At(j + 1) = (j + 1) + 1 /\ j + 1 # 1
      BY <1>2, <2>2, <3>1
    <3>4. next2[s[j + 1]] = IF j = Len(s) - 1 THEN null ELSE s[At(j + 1)]
      BY <3>1, <3>2, <3>3 DEF Linked
    <3>5. prev2[s[j + 1]] = IF j = 1 THEN null ELSE s[At(j - 1)]
      <4>1. CASE j = i
        <5>1. i # Len(s) /\ n = s[j + 1] /\ At(j - 1) = i - 1
          BY <1>2, <3>1, <4>1
        <5> QED
          BY <3>1, <4>1, <5>1
      <4>2. CASE j # i
        <5>1. /\ i # Len(s) => i + 1 \in 1..Len(s) /\ i + 1 # j + 1
              /\ At(j - 1) = (j + 1) - 1 /\ j # 1
          BY <1>2, <2>2, <4>2
        <5>2. s[j + 1] # n
          BY <1>2, <3>1, <5>1
        <5> QED
          BY <3>1, <3>3, <5>1, <5>2 DEF Linked
      <4> QED
        BY <4>1, <4>2
    <3> QED
      BY <3>1, <3>4, <3>5
  <2> QED
    BY <2>1, <2>2
<1>4. ASSUME NEW j \in 1..Len(t)
      PROVE  /\ next2[t[j]] = IF j = Len(t) THEN null ELSE t[j + 1]
             /\ prev2[t[j]] = IF j = 1 THEN null ELSE t[j - 1]
  <2>1. /\ j \in 1..(Len(s) - 1)
        /\ j # Len(t) => j + 1 \in 1..(Len(s) - 1)
        /\ j # 1 => j - 1 \in 1..(Len(s) - 1)
    BY <1>1, <1>2
  <2> HIDE DEF At
  <2> QED
    BY <1>1, <1>3, <2>1
<1>5. Linked(next2, prev2, null, t)
  BY <1>4 DEF Linked
<1> QED
  BY <1>5 DEF t

\* Pointers are those of one sequence at most.
LEMMA OneOrder ==
  ASSUME NEW S, NEW null, NEW s \in Seq(S), NEW t \in Seq(S),
         NEW next, NEW prev,
         Linked(next, prev, null, s), Linked(next, prev, null, t),
         Len(s) = Len(t), s # <<>> => s[1] = t[1]
  PROVE  s = t
<1>1. Len(s) \in Nat /\ (s # <<>> <=> Len(s) > 0)
  BY Elements, EmptySeq
<1> DEFINE D == {i \in 1..Len(s) : s[i] # t[i]}
<1>2. ASSUME D # {} PROVE FALSE
  <2>1. D \in SUBSET Nat
    BY <1>1
  <2> DEFINE k == Min(D)
  <2>2. k \in D /\ \A i \in D : k <= i
    <3> HIDE DEF D
    <3> QED
      BY <1>2, <2>1, LeastPosition
  <2> HIDE DEF k
  <2>3. k \in 1..Len(s) /\ s[k] # t[k] /\ k \in Nat
    BY <1>1, <2>2
  <2>4. k # 1
    BY <1>1, <2>3
  <2>5. k - 1 \in 1..Len(s) /\ ~(k <= k - 1) /\ k - 1 # Len(s) /\ (k - 1) + 1 = k
    BY <1>1, <2>3, <2>4
  <2>6. s[k - 1] = t[k - 1]
    BY <2>2, <2>5
  <2>7. next[s[k - 1]] = s[k] /\ next[t[k - 1]] = t[k]
    BY <2>5 DEF Linked
  <2> QED
    BY <2>3, <2>6, <2>7
<1>3. \A i \in 1..Len(s) : s[i] = t[i]
  BY <1>2
<1> QED
  BY <1>3, SeqEqual

\* The items that a walk along next from the first item has passed after k steps.
Passed(s, k) == {s[i] : i \in {j \in 1..Len(s) : j <= k + 1}}

LEMMA WalkPassesNext ==
  ASSUME NEW S, IsFiniteSet(S), NEW null, null \notin S,
         NEW s \in Seq(S), IsInjective(s),
         NEW next, NEW prev, Linked(next, prev, null, s)
  PROVE  /\ Passed(s, 0) = {IF s = <<>> THEN null ELSE s[1]} \ {null}
         /\ \A k \in Nat \ {0} : \A y :
              y \in Passed(s, k) <=>
                \/ y \in Passed(s, k - 1)
                \/ y # null /\ \E x \in Passed(s, k - 1) : y = next[x]
         /\ Passed(s, Cardinality(S)) = ToSet(s)
<1>1. /\ Len(s) \in Nat
      /\ ToSet(s) = {s[i] : i \in 1..Len(s)}
      /\ \A i \in 1..Len(s) : s[i] \in S /\ s[i] # null
      /\ s # <<>> <=> Len(s) > 0
  BY Elements, ElementOfSeq, EmptySeq
<1>2. Passed(s, 0) = {IF s = <<>> THEN null ELSE s[1]} \ {null}
  <2>1. CASE s = <<>>
    BY <1>1, <2>1 DEF Passed
  <2>2. CASE s # <<>>
    <3>1. {j \in 1..Len(s) : j <= 0 + 1} = {1} /\ 1 \in 1..Len(s)
      BY <1>1, <2>2
    <3>2. Passed(s, 0) = {s[1]}
      BY <3>1 DEF Passed
    <3> QED
      BY <1>1, <2>2, <3>1, <3>2
  <2> QED
    BY <2>1, <2>2
<1>3. ASSUME NEW k \in Nat \ {0}, NEW y
      PROVE  y \in Passed(s, k) <=>
               \/ y \in Passed(s, k - 1)
               \/ y # null /\ \E x \in Passed(s, k - 1) : y = next[x]
  <2>1. /\ y \in Passed(s, k) <=> \E i \in 1..Len(s) : i <= k + 1 /\ y = s[i]
        /\ \A x : x \in Passed(s, k - 1) <=> \E i \in 1..Len(s) : i <= k /\ x = s[i]
    BY DEF Passed
  <2>2. ASSUME NEW i \in 1..Len(s), i <= k + 1, y = s[i]
        PROVE  \/ y \in Passed(s, k - 1)
               \/ y # null /\ \E x \in Passed(s, k - 1) : y = next[x]
    <3>1. CASE i <= k
      BY <2>1, <2>2, <3>1
    <3>2. CASE ~(i <= k)
      <4>1. i - 1 \in 1..Len(s) /\ i - 1 <= k /\ (i - 1) + 1 = i /\ i - 1 # Len(s)
        BY <1>1, <2>2, <3>2
      <4>2. next[s[i - 1]] = s[i]
        BY <4>1 DEF Linked
      <4>3. s[i - 1] \in Passed(s, k - 1)
        BY <2>1, <4>1
      <4> QED
        BY <1>1, <2>2, <4>2, <4>3
    <3> QED
      BY <3>1, <3>2
  <2>3. ASSUME NEW i \in 1..Len(s), i <= k, y # null, y = next[s[i]]
        PROVE  y \in Passed(s, k)
    <3>1. i # Len(s) /\ y = s[i + 1]
      BY <2>3 DEF Linked
    <3>2. i + 1 \in 1..Len(s) /\ i + 1 <= k + 1
      BY <1>1, <2>3, <3>1
    <3> QED
      BY <2>1, <3>1, <3>2
  <2>4. \A i \in 1..Len(s) : i <= k => i <= k + 1
    BY <1>1
  <2> QED
    BY <2>1, <2>2, <2>3, <2>4
<1>4. Passed(s, Cardinality(S)) = ToSet(s)
  <2>1. Len(s) <= Cardinality(S) /\ Cardinality(S) \in Nat
    <3>1. ToSet(s) \in SUBSET S
      BY <1>1
    <3> QED
      BY <3>1, FS_CardinalityType, FS_Subset, DistinctElements
  <2>2. \A j \in 1..Len(s) : j <= Cardinality(S) + 1
    BY <1>1, <2>1
  <2> QED
    BY <1>1, <2>2 DEF Passed
<1> QED
  BY <1>2, <1>3, <1>4

\* A walk of N steps, as a recursion.
WalkFrom(first, next, null, N) ==
  LET walk[k \in 0..N] ==
        IF k = 0 THEN {first} \ {null}
        ELSE walk[k - 1] \cup ({next[x] : x \in walk[k - 1]} \ {null})
  IN  walk[N]

\* It has passed all items of the list, and nothing else, after as many steps as
\* there are items in all: the recursion has a solution, and every solution ends
\* with these items.
LEMMA WalkPassesAll ==
  ASSUME NEW S, IsFiniteSet(S), NEW null, null \notin S,
         NEW s \in Seq(S), IsInjective(s),
         NEW next, NEW prev, Linked(next, prev, null, s),
         NEW first, first = IF s = <<>> THEN null ELSE s[1],
         NEW N, N = Cardinality(S)
  PROVE  WalkFrom(first, next, null, N) = ToSet(s)
<1> DEFINE From(f, k) == f[k - 1] \cup ({next[x] : x \in f[k - 1]} \ {null})
           Walk(w) == w = [k \in 0..N |-> IF k = 0 THEN {first} \ {null} ELSE From(w, k)]
           g == [k \in 0..N |-> Passed(s, k)]
<1>1. N \in Nat
  BY FS_CardinalityType
<1>2. \A k \in 1..N : k \in Nat \ {0} /\ k \in 0..N /\ k - 1 \in 0..N
  BY <1>1
<1>3. Walk(g)
  <2>1. ASSUME NEW k \in 0..N
        PROVE  g[k] = IF k = 0 THEN {first} \ {null} ELSE From(g, k)
    <3>1. CASE k = 0
      BY <3>1, WalkPassesNext
    <3>2. CASE k # 0
      <4>1. k \in 1..N
        BY <1>1, <3>2
      <4>2. g[k] = Passed(s, k) /\ g[k - 1] = Passed(s, k - 1)
        BY <1>2, <4>1
      <4>3. \A y : y \in Passed(s, k) <=>
                     \/ y \in Passed(s, k - 1)
                     \/ y # null /\ \E x \in Passed(s, k - 1) : y = next[x]
        BY <1>2, <4>1, WalkPassesNext
      <4> HIDE DEF g
      <4> QED
        BY <3>2, <4>2, <4>3
    <3> QED
      BY <3>1, <3>2
  <2> HIDE DEF From
  <2> QED
    BY <2>1
<1>4. ASSUME NEW w, Walk(w)
      PROVE  w[N] = ToSet(s)
  <2>1. w[0] = Passed(s, 0)
    <3>1. 0 \in 0..N
      BY <1>1
    <3>2. w[0] = {first} \ {null}
      <4> HIDE DEF From
      <4> QED
        BY <1>4, <3>1
    <3> QED
      BY <3>2, WalkPassesNext
  <2>2. ASSUME NEW k \in 1..N, w[k - 1] = Passed(s, k - 1)
        PROVE  w[k] = Passed(s, k)
    <3>1. w[k] = From(w, k)
      <4>1. k \in 0..N /\ k # 0
        BY <1>1
      <4> HIDE DEF From
      <4> QED
        BY <1>4, <4>1
    <3>2. \A y : y \in Passed(s, k) <=>
                   \/ y \in Passed(s, k - 1)
                   \/ y # null /\ \E x \in Passed(s, k - 1) : y = next[x]
      BY <1>2, WalkPassesNext
    <3> HIDE DEF Walk
    <3> QED
      BY <2>2, <3>1, <3>2
  <2> DEFINE D == {k \in 0..N : w[k] # Passed(s, k)}
  <2>3. ASSUME D # {} PROVE FALSE
    <3>1. D \in SUBSET Nat
      BY <1>1
    <3> DEFINE k == Min(D)
    <3>2. k \in D /\ \A i \in D : k <= i
      <4> HIDE DEF D
      <4> QED
        BY <2>3, <3>1, LeastPosition
    <3> HIDE DEF k, Walk
    <3>3. k \in 0..N /\ w[k] # Passed(s, k)
      BY <3>2
    <3>4. k \in 1..N /\ k - 1 \in 0..N /\ ~(k <= k - 1)
      BY <1>1, <2>1, <3>3
    <3>5. w[k - 1] = Passed(s, k - 1)
      BY <3>2, <3>4
    <3> QED
      BY <2>2, <3>3, <3>4, <3>5
  <2>4. N \in 0..N
    BY <1>1
  <2>5. w[N] = Passed(s, N)
    <3> HIDE DEF Walk
    <3> QED
      BY <2>3, <2>4
  <2> QED
    BY <2>5, WalkPassesNext
<1>5. (CHOOSE w : Walk(w))[N] = ToSet(s)
  <2>1. Walk(CHOOSE w : Walk(w))
    <3> HIDE DEF Walk, g
    <3> QED
      BY <1>3
  <2> HIDE DEF Walk
  <2> QED
    BY <1>4, <2>1
<1>6. WalkFrom(first, next, null, N) = (CHOOSE w : Walk(w))[N]
  BY DEF WalkFrom
<1> QED
  BY <1>5, <1>6

-----------------------------------------------------------------------------
(* Heaps of linked lists: next and prev of the items S, and for each list of L   *)
(* a head with first, last and size.  Here a heap and the sequences that it holds *)
(* are related without the module that defines the operations on it.             *)

EndsOf(s, null) ==
  [first |-> IF s = <<>> THEN null ELSE s[1],
   last  |-> IF s = <<>> THEN null ELSE s[Len(s)],
   size  |-> Len(s)]

\* The items of each list are linked in their order, no item is in two lists, and
\* the pointers of items that are in no list are null.
Holds(h, S, L, null, o) ==
  /\ h = [next |-> h.next, prev |-> h.prev, head |-> h.head]
  /\ h.next \in [S -> S \cup {null}] /\ h.prev \in [S -> S \cup {null}]
  /\ h.head = [l \in L |-> EndsOf(o[l], null)]
  /\ o \in [L -> Seq(S)]
  /\ \A l \in L : IsInjective(o[l]) /\ Linked(h.next, h.prev, null, o[l])
  /\ \A l, m \in L : l # m => ToSet(o[l]) \cap ToSet(o[m]) = {}
  /\ \A x \in S : (\A l \in L : x \notin ToSet(o[l]))
                  => h.next[x] = null /\ h.prev[x] = null

\* x put between p and n, and x taken out.
LinkBetween(h, S, null, l, p, x, n) ==
  [next |-> [y \in S |-> IF y = p THEN x ELSE IF y = x THEN n ELSE h.next[y]],
   prev |-> [y \in S |-> IF y = n THEN x ELSE IF y = x THEN p ELSE h.prev[y]],
   head |-> [h.head EXCEPT ![l] =
               [first |-> IF p = null THEN x ELSE h.head[l].first,
                last  |-> IF n = null THEN x ELSE h.head[l].last,
                size  |-> h.head[l].size + 1]]]
Unlink(h, S, null, l, x) ==
  [next |-> [y \in S |-> IF y = x THEN null
                         ELSE IF y = h.prev[x] THEN h.next[x] ELSE h.next[y]],
   prev |-> [y \in S |-> IF y = x THEN null
                         ELSE IF y = h.next[x] THEN h.prev[x] ELSE h.prev[y]],
   head |-> [h.head EXCEPT ![l] =
               [first |-> IF x = h.head[l].first THEN h.next[x] ELSE h.head[l].first,
                last  |-> IF x = h.head[l].last THEN h.prev[x] ELSE h.head[l].last,
                size  |-> h.head[l].size - 1]]]

LEMMA HeapOfNone ==
  ASSUME NEW S, NEW L, NEW null
  PROVE  Holds([next |-> [x \in S |-> null], prev |-> [x \in S |-> null],
                head |-> [l \in L |-> [first |-> null, last |-> null, size |-> 0]]],
               S, L, null, [l \in L |-> <<>>])
<1>1. <<>> \in Seq(S) /\ Len(<<>>) = 0 /\ IsInjective(<<>>) /\ ToSet(<<>>) = {}
  BY DEF IsInjective, ToSet
<1> QED
  BY <1>1 DEF Holds, EndsOf, Linked

\* What is known of list l, which holds s.
Sound(h, S, null, l, s) ==
  /\ s \in Seq(S) /\ IsInjective(s) /\ Linked(h.next, h.prev, null, s)
  /\ h.head[l].first = IF s = <<>> THEN null ELSE s[1]
  /\ h.head[l].last = IF s = <<>> THEN null ELSE s[Len(s)]
  /\ h.head[l].size = Len(s)
  /\ Len(s) \in Nat /\ (s = <<>> <=> Len(s) = 0)
  /\ \A i \in 1..Len(s) : s[i] \in ToSet(s) /\ s[i] \in S /\ s[i] # null
  /\ \A y : y \in ToSet(s) <=> \E i \in 1..Len(s) : y = s[i]
  /\ \A i, j \in 1..Len(s) : s[i] = s[j] => i = j
  /\ ToSet(s) \subseteq S

LEMMA HeapLists ==
  ASSUME NEW S, NEW L, NEW null, null \notin S, NEW h, NEW o, Holds(h, S, L, null, o)
  PROVE  \A l \in L : Sound(h, S, null, l, o[l])
<1> SUFFICES ASSUME NEW l \in L, NEW s, s = o[l]
             PROVE  Sound(h, S, null, l, s)
  OBVIOUS
<1>1. s \in Seq(S) /\ IsInjective(s) /\ Linked(h.next, h.prev, null, s)
  BY DEF Holds
<1>2. h.head[l] = EndsOf(s, null)
  BY DEF Holds
<1> QED
  BY <1>1, <1>2, Elements, ElementOfSeq DEF EndsOf, Sound

\* What is known of the items around the place where x is put, and around x.
GoesIn(h, S, L, null, o, l, x, m, p, n) ==
  /\ Holds(LinkBetween(h, S, null, l, p, x, n), S, L, null,
           [o EXCEPT ![l] = InsertAt(o[l], m, x)])
  /\ h.next[x] = null /\ h.prev[x] = null
  /\ p \in S \cup {null} /\ n \in S \cup {null} /\ x # p /\ x # n /\ x # null
GoesOut(h, S, L, null, o, l, x, i) ==
  /\ Holds(Unlink(h, S, null, l, x), S, L, null, [o EXCEPT ![l] = RemoveAt(o[l], i)])
  /\ h.prev[x] \in S \cup {null} /\ h.next[x] \in S \cup {null}
  /\ h.prev[x] # x /\ h.next[x] # x /\ x \in S
  /\ h.prev[x] = h.next[x] => h.prev[x] = null

LEMMA HeapInsert ==
  ASSUME NEW S, NEW L, NEW null, null \notin S, NEW h, NEW o, Holds(h, S, L, null, o),
         NEW l \in L, NEW x \in S, \A m \in L : x \notin ToSet(o[m]),
         NEW k \in 0..Len(o[l]), NEW m, m = k + 1,
         NEW p, p = IF k = 0 THEN null ELSE o[l][k],
         NEW n, n = IF p # null THEN h.next[p] ELSE h.head[l].first
  PROVE  GoesIn(h, S, L, null, o, l, x, m, p, n)
<1> DEFINE s == o[l]
           g == LinkBetween(h, S, null, l, p, x, n)
           t == InsertAt(s, m, x)
           o2 == [o EXCEPT ![l] = t]
<1>1. /\ s \in Seq(S) /\ IsInjective(s) /\ Linked(h.next, h.prev, null, s)
      /\ h.head[l].first = IF s = <<>> THEN null ELSE s[1]
      /\ h.head[l].last = IF s = <<>> THEN null ELSE s[Len(s)]
      /\ h.head[l].size = Len(s)
      /\ Len(s) \in Nat /\ (s = <<>> <=> Len(s) = 0)
      /\ \A i \in 1..Len(s) : s[i] \in ToSet(s) /\ s[i] \in S /\ s[i] # null
      /\ ToSet(s) \subseteq S
  <2>1. Sound(h, S, null, l, s)
    BY HeapLists
  <2> HIDE DEF s
  <2> QED
    BY <2>1 DEF Sound
<1> HIDE DEF s
<1>2. /\ k \in 0..Len(s) /\ x \notin ToSet(s) /\ p = IF k = 0 THEN null ELSE s[k]
      /\ k # 0 => k \in 1..Len(s)
      /\ k # Len(s) => k + 1 \in 1..Len(s)
  BY <1>1 DEF s
<1>3. n = IF k = Len(s) THEN null ELSE s[k + 1]
  <2>1. CASE k = 0
    <3>1. 0 + 1 = 1
      OBVIOUS
    <3> QED
      BY <1>1, <1>2, <2>1, <3>1
  <2>2. CASE k # 0
    <3>1. h.next[s[k]] = IF k = Len(s) THEN null ELSE s[k + 1]
      BY <1>1, <1>2, <2>2 DEF Linked
    <3> QED
      BY <1>1, <1>2, <2>2, <3>1
  <2> QED
    BY <2>1, <2>2
<1>4. /\ p = null <=> k = 0
      /\ n = null <=> k = Len(s)
      /\ n # null => n \in ToSet(s)
      /\ p # null => p \in ToSet(s)
  BY <1>1, <1>2, <1>3
<1>5. /\ p \in S \cup {null} /\ n \in S \cup {null} /\ x # p /\ x # n /\ x # null
  BY <1>1, <1>2, <1>4
<1>6. h.next[x] = null /\ h.prev[x] = null
  BY DEF Holds
<1>7. /\ g = [next |-> g.next, prev |-> g.prev, head |-> g.head]
      /\ \A y \in S :
           /\ g.next[y] = IF y = p THEN x ELSE IF y = x THEN n ELSE h.next[y]
           /\ g.prev[y] = IF y = n THEN x ELSE IF y = x THEN p ELSE h.prev[y]
      /\ g.next \in [S -> S \cup {null}] /\ g.prev \in [S -> S \cup {null}]
  <2>1. h.next \in [S -> S \cup {null}] /\ h.prev \in [S -> S \cup {null}]
    BY DEF Holds
  <2> QED
    BY <1>5, <2>1 DEF LinkBetween
<1>8. g.head = [h.head EXCEPT ![l] =
                  [first |-> IF p = null THEN x ELSE h.head[l].first,
                   last  |-> IF n = null THEN x ELSE h.head[l].last,
                   size  |-> h.head[l].size + 1]]
  BY DEF LinkBetween
<1> HIDE DEF g
<1>9. t \in Seq(S) /\ Len(t) = Len(s) + 1
  <2>1. t \in Seq(S)
    BY <1>1, <1>2, InsertBehind
  <2>2. Len(t) = Len(s) + 1
    BY <1>1, <1>2, InsertBehind
  <2> QED
    BY <2>1, <2>2
<1>10. IsInjective(t) /\ ToSet(t) = ToSet(s) \cup {x}
  BY <1>1, <1>2, InsertKeepsApart
<1>11. Linked(g.next, g.prev, null, t)
  <2>1. PICK n1, p1, n2, p2 : /\ n1 = h.next /\ p1 = h.prev
                              /\ n2 = g.next /\ p2 = g.prev
    OBVIOUS
  <2>2. \A y \in S : /\ n2[y] = IF y = p THEN x ELSE IF y = x THEN n ELSE n1[y]
                     /\ p2[y] = IF y = n THEN x ELSE IF y = x THEN p ELSE p1[y]
    BY <1>7, <2>1
  <2>3. /\ Linked(n1, p1, null, s)
        /\ null \notin S /\ s \in Seq(S) /\ IsInjective(s) /\ x \notin ToSet(s)
        /\ k \in 0..Len(s) /\ m = k + 1
        /\ p = IF k = 0 THEN null ELSE s[k]
    BY <1>1, <1>2, <2>1
  <2>4. Linked(n2, p2, null, t)
    BY <1>3, <2>2, <2>3, InsertKeepsLinked, SMTT(60)
  <2> QED
    BY <2>1, <2>4
<1>12. g.head[l] = EndsOf(t, null)
  <2>1. /\ k # 0 => t[1] = s[1]
        /\ k = 0 => t[1] = x
        /\ k = Len(s) => t[Len(t)] = x
        /\ k # Len(s) => t[Len(t)] = s[Len(s)]
    <3>1. \A j \in 1..k : t[j] = s[j]
      BY <1>1, <1>2, InsertBehind
    <3>2. t[k + 1] = x
      BY <1>1, <1>2, InsertBehind
    <3>3. \A j \in (k + 2)..(Len(s) + 1) : t[j] = s[j - 1]
      BY <1>1, <1>2, InsertBehind
    <3> HIDE DEF t
    <3>4. k # 0 => 1 \in 1..k
      BY <1>1, <1>2
    <3>5. k # Len(s) => Len(s) + 1 \in (k + 2)..(Len(s) + 1) /\ (Len(s) + 1) - 1 = Len(s)
      BY <1>1, <1>2
    <3> QED
      BY <1>9, <3>1, <3>2, <3>3, <3>4, <3>5
  <2> HIDE DEF t
  <2>2. t # <<>>
    <3>1. Len(t) # 0
      BY <1>1, <1>9
    <3> QED
      BY <3>1
  <2>3. /\ k # 0 => h.head[l].first = s[1]
        /\ k # Len(s) => h.head[l].last = s[Len(s)]
    BY <1>1, <1>2
  <2>4. g.head[l] = [first |-> IF p = null THEN x ELSE h.head[l].first,
                     last  |-> IF n = null THEN x ELSE h.head[l].last,
                     size  |-> h.head[l].size + 1]
    BY <1>8 DEF Holds
  <2> QED
    BY <1>1, <1>4, <1>9, <2>1, <2>2, <2>3, <2>4 DEF EndsOf
<1> HIDE DEF t
<1>13. /\ o2 \in [L -> Seq(S)] /\ o2[l] = t
       /\ \A j \in L : j # l => o2[j] = o[j]
  BY <1>9 DEF Holds
<1> HIDE DEF o2
<1>14. g.head = [j \in L |-> EndsOf(o2[j], null)]
  <2>1. h.head = [j \in L |-> EndsOf(o[j], null)]
    BY DEF Holds
  <2>2. ASSUME NEW j \in L PROVE g.head[j] = EndsOf(o2[j], null)
    <3>1. j # l => g.head[j] = h.head[j] /\ h.head[j] = EndsOf(o[j], null)
      BY <1>8, <2>1
    <3> QED
      BY <1>12, <1>13, <3>1
  <2>3. g.head = [j \in L |-> g.head[j]]
    BY <1>8, <2>1
  <2> QED
    BY <2>2, <2>3
<1>15. ASSUME NEW j \in L, j # l
       PROVE  /\ Linked(g.next, g.prev, null, o[j]) /\ IsInjective(o[j])
              /\ ToSet(o[j]) \subseteq S
  <2>1. /\ Linked(h.next, h.prev, null, o[j]) /\ IsInjective(o[j])
        /\ ToSet(o[j]) \subseteq S
        /\ \A i \in 1..Len(o[j]) : o[j][i] \in ToSet(o[j])
    <3>1. Sound(h, S, null, j, o[j])
      BY HeapLists
    <3> QED
      BY <3>1 DEF Sound
  <2>2. \A y \in ToSet(o[j]) : y \in S /\ y # x /\ y # p /\ y # n
    <3>1. null \notin ToSet(o[j]) /\ ToSet(s) \cap ToSet(o[j]) = {}
      BY <1>15, <2>1 DEF Holds, s
    <3> QED
      BY <1>4, <2>1, <3>1
  <2>3. \A i \in 1..Len(o[j]) : /\ g.next[o[j][i]] = h.next[o[j][i]]
                                /\ g.prev[o[j][i]] = h.prev[o[j][i]]
    BY <1>7, <2>1, <2>2
  <2> QED
    BY <2>1, <2>3 DEF Linked
<1>16. \A j \in L : IsInjective(o2[j]) /\ Linked(g.next, g.prev, null, o2[j])
  BY <1>10, <1>11, <1>13, <1>15
<1>17. \A i, j \in L : i # j => ToSet(o2[i]) \cap ToSet(o2[j]) = {}
  <2>1. \A j \in L : j # l => ToSet(o2[l]) \cap ToSet(o2[j]) = {}
    <3>1. \A j \in L : j # l => ToSet(s) \cap ToSet(o[j]) = {}
      BY DEF Holds, s
    <3> QED
      BY <1>10, <1>13, <3>1
  <2> QED
    BY <1>13, <2>1 DEF Holds
<1>18. ASSUME NEW y \in S, \A j \in L : y \notin ToSet(o2[j])
       PROVE  g.next[y] = null /\ g.prev[y] = null
  <2>1. y # x /\ \A j \in L : y \notin ToSet(o[j])
    BY <1>10, <1>13, <1>18 DEF s
  <2>2. y # p /\ y # n
    BY <1>4, <2>1 DEF s
  <2> QED
    BY <1>7, <2>1, <2>2 DEF Holds
<1>19. Holds(g, S, L, null, o2)
  BY <1>7, <1>13, <1>14, <1>16, <1>17, <1>18 DEF Holds
<1> QED
  BY <1>5, <1>6, <1>19 DEF g, o2, t, s, GoesIn

LEMMA HeapDetach ==
  ASSUME NEW S, NEW L, NEW null, null \notin S, NEW h, NEW o, Holds(h, S, L, null, o),
         NEW l \in L, NEW i \in 1..Len(o[l]), NEW x, x = o[l][i]
  PROVE  GoesOut(h, S, L, null, o, l, x, i)
<1> DEFINE s == o[l]
           p == h.prev[x]
           n == h.next[x]
           g == Unlink(h, S, null, l, x)
           t == RemoveAt(s, i)
           o2 == [o EXCEPT ![l] = t]
<1>1. /\ s \in Seq(S) /\ IsInjective(s) /\ Linked(h.next, h.prev, null, s)
      /\ s # <<>> => h.head[l].first = s[1] /\ h.head[l].last = s[Len(s)]
      /\ h.head[l].size = Len(s)
      /\ Len(s) \in Nat /\ (s = <<>> <=> Len(s) = 0)
      /\ \A j \in 1..Len(s) : s[j] \in ToSet(s) /\ s[j] \in S /\ s[j] # null
      /\ \A j, k \in 1..Len(s) : s[j] = s[k] => j = k
      /\ ToSet(s) \subseteq S
  <2>1. Sound(h, S, null, l, s)
    BY HeapLists
  <2> HIDE DEF s
  <2> QED
    BY <2>1 DEF Sound
<1> HIDE DEF s
<1>2. /\ i \in 1..Len(s) /\ x = s[i]
      /\ i # 1 => i - 1 \in 1..Len(s) /\ i - 1 # i
      /\ i # Len(s) => i + 1 \in 1..Len(s) /\ i + 1 # i /\ i + 1 # i - 1
  BY <1>1 DEF s
<1>3. /\ p = IF i = 1 THEN null ELSE s[i - 1]
      /\ n = IF i = Len(s) THEN null ELSE s[i + 1]
  BY <1>1, <1>2 DEF Linked
<1>4. /\ p = null <=> i = 1
      /\ n = null <=> i = Len(s)
      /\ n # null => n \in ToSet(s)
      /\ p # null => p \in ToSet(s)
      /\ x \in ToSet(s) /\ x \in S
      /\ p # x /\ n # x /\ (p = n => p = null)
  <2> HIDE DEF p, n
  <2> QED
    BY <1>1, <1>2, <1>3
<1>5. p \in S \cup {null} /\ n \in S \cup {null}
  BY <1>1, <1>4
<1>6. /\ g = [next |-> g.next, prev |-> g.prev, head |-> g.head]
      /\ \A y \in S :
           /\ g.next[y] = IF y = x THEN null ELSE IF y = p THEN n ELSE h.next[y]
           /\ g.prev[y] = IF y = x THEN null ELSE IF y = n THEN p ELSE h.prev[y]
      /\ g.next \in [S -> S \cup {null}] /\ g.prev \in [S -> S \cup {null}]
  <2>1. h.next \in [S -> S \cup {null}] /\ h.prev \in [S -> S \cup {null}]
    BY DEF Holds
  <2> QED
    BY <1>5, <2>1 DEF Unlink
<1>7. g.head = [h.head EXCEPT ![l] =
                  [first |-> IF x = h.head[l].first THEN n ELSE h.head[l].first,
                   last  |-> IF x = h.head[l].last THEN p ELSE h.head[l].last,
                   size  |-> h.head[l].size - 1]]
  BY DEF Unlink
<1> HIDE DEF g
<1>8. /\ t \in Seq(S) /\ IsInjective(t)
      /\ ToSet(t) = ToSet(s) \ {x}
      /\ Len(t) = Len(s) - 1
      /\ \A j \in 1..(Len(s) - 1) : t[j] = IF j < i THEN s[j] ELSE s[j + 1]
  <2>1. t \in Seq(S) /\ IsInjective(t) /\ ToSet(t) = ToSet(s) \ {x}
    BY <1>1, <1>2, DetachAt
  <2>2. /\ Len(t) = Len(s) - 1
        /\ \A j \in 1..(Len(s) - 1) : t[j] = IF j < i THEN s[j] ELSE s[j + 1]
    BY <1>1, <1>2, DetachPositions
  <2> QED
    BY <2>1, <2>2
<1> HIDE DEF p, n
<1>9. Linked(g.next, g.prev, null, t)
  <2>1. PICK n1, p1, n2, p2 : /\ n1 = h.next /\ p1 = h.prev
                              /\ n2 = g.next /\ p2 = g.prev
    OBVIOUS
  <2>2. \A y \in S :
          /\ n2[y] = IF y = x THEN null ELSE IF y = p THEN n ELSE n1[y]
          /\ p2[y] = IF y = x THEN null ELSE IF y = n THEN p ELSE p1[y]
    BY <1>6, <2>1
  <2>3. /\ Linked(n1, p1, null, s)
        /\ null \notin S /\ s \in Seq(S) /\ IsInjective(s) /\ i \in 1..Len(s) /\ x = s[i]
    BY <1>1, <1>2, <2>1
  <2>4. Linked(n2, p2, null, t)
    BY <1>3, <2>2, <2>3, DetachKeepsLinked, SMTT(60)
  <2> QED
    BY <2>1, <2>4
<1> HIDE DEF t
<1>10. g.head[l] = EndsOf(t, null)
  <2>1. s # <<>> /\ 1 \in 1..Len(s) /\ Len(s) \in 1..Len(s)
    BY <1>1, <1>2
  <2>2. /\ x = s[1] <=> i = 1
        /\ x = s[Len(s)] <=> i = Len(s)
    BY <1>1, <1>2, <2>1
  <2>3. g.head[l] = [first |-> IF i = 1 THEN n ELSE s[1],
                     last  |-> IF i = Len(s) THEN p ELSE s[Len(s)],
                     size  |-> Len(s) - 1]
    <3>1. g.head[l] = [first |-> IF x = h.head[l].first THEN n ELSE h.head[l].first,
                       last  |-> IF x = h.head[l].last THEN p ELSE h.head[l].last,
                       size  |-> h.head[l].size - 1]
      BY <1>7 DEF Holds
    <3> QED
      BY <1>1, <2>1, <2>2, <3>1
  <2>4. t = <<>> <=> Len(t) = 0
    BY <1>8, Elements
  <2>5. Len(s) \in Nat /\ i \in Nat /\ 1 <= i /\ i <= Len(s)
    BY <1>1, <1>2
  <2>6. CASE Len(s) = 1
    <3>1. i = 1 /\ i = Len(s) /\ Len(t) = 0
      BY <1>8, <2>5, <2>6
    <3> QED
      BY <1>4, <1>8, <2>3, <2>4, <3>1 DEF EndsOf
  <2>7. CASE Len(s) # 1
    <3>1. /\ 1 \in 1..(Len(s) - 1) /\ Len(s) - 1 \in 1..(Len(s) - 1)
          /\ Len(t) # 0
      BY <1>8, <2>5, <2>7
    <3>2. t[1] = IF i = 1 THEN n ELSE s[1]
      <4>1. CASE i = 1
        <5>1. t[1] = s[i + 1]
          BY <1>8, <3>1, <4>1
        <5> QED
          BY <1>3, <2>7, <4>1, <5>1
      <4>2. CASE i # 1
        <5>1. 1 < i
          BY <2>5, <4>2
        <5> QED
          BY <1>8, <3>1, <4>2, <5>1
      <4> QED
        BY <4>1, <4>2
    <3>3. t[Len(t)] = IF i = Len(s) THEN p ELSE s[Len(s)]
      <4>1. CASE i = Len(s)
        <5>1. t[Len(s) - 1] = s[i - 1]
          BY <1>8, <2>5, <3>1, <4>1
        <5> QED
          BY <1>3, <1>8, <2>7, <4>1, <5>1
      <4>2. CASE i # Len(s)
        <5>1. ~(Len(s) - 1 < i) /\ (Len(s) - 1) + 1 = Len(s)
          BY <2>5, <4>2
        <5> QED
          BY <1>8, <3>1, <4>2, <5>1
      <4> QED
        BY <4>1, <4>2
    <3> QED
      BY <1>8, <2>3, <2>4, <3>1, <3>2, <3>3 DEF EndsOf
  <2> QED
    BY <2>6, <2>7
<1>11. /\ o2 \in [L -> Seq(S)] /\ o2[l] = t
       /\ \A j \in L : j # l => o2[j] = o[j]
  BY <1>8 DEF Holds
<1> HIDE DEF o2
<1>12. g.head = [j \in L |-> EndsOf(o2[j], null)]
  <2>1. h.head = [j \in L |-> EndsOf(o[j], null)]
    BY DEF Holds
  <2>2. ASSUME NEW j \in L PROVE g.head[j] = EndsOf(o2[j], null)
    <3>1. j # l => g.head[j] = h.head[j] /\ h.head[j] = EndsOf(o[j], null)
      BY <1>7, <2>1
    <3> QED
      BY <1>10, <1>11, <3>1
  <2>3. g.head = [j \in L |-> g.head[j]]
    BY <1>7, <2>1
  <2> QED
    BY <2>2, <2>3
<1>13. ASSUME NEW j \in L, j # l
       PROVE  Linked(g.next, g.prev, null, o[j]) /\ IsInjective(o[j])
  <2>1. /\ Linked(h.next, h.prev, null, o[j]) /\ IsInjective(o[j])
        /\ ToSet(o[j]) \subseteq S
        /\ \A k \in 1..Len(o[j]) : o[j][k] \in ToSet(o[j])
    <3>1. Sound(h, S, null, j, o[j])
      BY HeapLists
    <3> QED
      BY <3>1 DEF Sound
  <2>2. \A y \in ToSet(o[j]) : y \in S /\ y # x /\ y # p /\ y # n
    <3>1. null \notin ToSet(o[j]) /\ ToSet(s) \cap ToSet(o[j]) = {}
      BY <1>13, <2>1 DEF Holds, s
    <3> QED
      BY <1>4, <2>1, <3>1
  <2>3. \A k \in 1..Len(o[j]) : /\ g.next[o[j][k]] = h.next[o[j][k]]
                                /\ g.prev[o[j][k]] = h.prev[o[j][k]]
    BY <1>6, <2>1, <2>2
  <2> QED
    BY <2>1, <2>3 DEF Linked
<1>14. \A j \in L : IsInjective(o2[j]) /\ Linked(g.next, g.prev, null, o2[j])
  BY <1>8, <1>9, <1>11, <1>13
<1>15. \A j, k \in L : j # k => ToSet(o2[j]) \cap ToSet(o2[k]) = {}
  <2>1. \A j \in L : j # l => ToSet(o2[l]) \cap ToSet(o2[j]) = {}
    <3>1. \A j \in L : j # l => ToSet(s) \cap ToSet(o[j]) = {}
      BY DEF Holds, s
    <3> QED
      BY <1>8, <1>11, <3>1
  <2> QED
    BY <1>11, <2>1 DEF Holds
<1>16. ASSUME NEW y \in S, \A j \in L : y \notin ToSet(o2[j])
       PROVE  g.next[y] = null /\ g.prev[y] = null
  <2>1. CASE y = x
    BY <1>6, <2>1
  <2>2. CASE y # x
    <3>1. \A j \in L : y \notin ToSet(o[j])
      BY <1>8, <1>11, <1>16, <2>2 DEF s
    <3>2. y # p /\ y # n
      BY <1>4, <3>1 DEF s
    <3> QED
      BY <1>6, <2>2, <3>1, <3>2 DEF Holds
  <2> QED
    BY <2>1, <2>2
<1>17. Holds(g, S, L, null, o2)
  BY <1>6, <1>11, <1>12, <1>14, <1>15, <1>16 DEF Holds
<1> QED
  BY <1>3, <1>4, <1>5, <1>17 DEF g, o2, t, s, p, n, GoesOut

\* The size that a head counts is a number of items.
LEMMA HeapSizes ==
  ASSUME NEW S, IsFiniteSet(S), NEW L, NEW null, null \notin S,
         NEW h, NEW o, Holds(h, S, L, null, o)
  PROVE  h.head \in [L -> [first : S \cup {null}, last : S \cup {null},
                           size  : 0..Cardinality(S)]]
<1>1. ASSUME NEW l \in L
      PROVE  EndsOf(o[l], null) \in [first : S \cup {null}, last : S \cup {null},
                                   size  : 0..Cardinality(S)]
  <2> DEFINE s == o[l]
  <2>1. /\ s \in Seq(S) /\ IsInjective(s) /\ Len(s) \in Nat /\ (s = <<>> <=> Len(s) = 0)
        /\ \A i \in 1..Len(s) : s[i] \in S
        /\ ToSet(s) \subseteq S
    <3>1. Sound(h, S, null, l, s)
      BY HeapLists
    <3> HIDE DEF s
    <3> QED
      BY <3>1 DEF Sound
  <2> HIDE DEF s
  <2>2. Len(s) \in 0..Cardinality(S)
    BY <2>1, DistinctElements, FS_Subset, FS_CardinalityType
  <2>3. s # <<>> => 1 \in 1..Len(s) /\ Len(s) \in 1..Len(s)
    BY <2>1
  <2> QED
    BY <2>1, <2>2, <2>3 DEF EndsOf, s
<1> QED
  BY <1>1 DEF Holds

\* What the lists contain, without the order.
Contain(h, S, L, null, c) ==
  \E o : Holds(h, S, L, null, o) /\ c = [l \in L |-> ToSet(o[l])]

\* Lists have no item in common.
LEMMA ContentsAre ==
  ASSUME NEW S, NEW L, NEW null, null \notin S, NEW h, NEW c, Contain(h, S, L, null, c)
  PROVE  /\ c \in [L -> SUBSET S]
         /\ \A l, m \in L : l # m => c[l] \cap c[m] = {}
<1>1. PICK o : Holds(h, S, L, null, o) /\ c = [l \in L |-> ToSet(o[l])]
  BY DEF Contain
<1>2. \A l \in L : Sound(h, S, null, l, o[l])
  BY <1>1, HeapLists
<1>3. \A l \in L : ToSet(o[l]) \in SUBSET S
  BY <1>2 DEF Sound
<1> QED
  BY <1>1, <1>3 DEF Holds

LEMMA FirstIsContained ==
  ASSUME NEW S, NEW L, NEW null, null \notin S, NEW h, NEW c, Contain(h, S, L, null, c)
  PROVE  \A l \in L : h.head[l].first # null => h.head[l].first \in c[l]
<1>1. PICK o : Holds(h, S, L, null, o) /\ c = [l \in L |-> ToSet(o[l])]
  BY DEF Contain
<1> SUFFICES ASSUME NEW l \in L, h.head[l].first # null
             PROVE  h.head[l].first \in c[l]
  OBVIOUS
<1> DEFINE s == o[l]
<1>2. Sound(h, S, null, l, s)
  BY <1>1, HeapLists
<1>3. c[l] = ToSet(s)
  BY <1>1
<1> HIDE DEF s
<1>4. s # <<>> /\ h.head[l].first = s[1] /\ 1 \in 1..Len(s)
  BY <1>2 DEF Sound
<1> QED
  BY <1>2, <1>3, <1>4 DEF Sound

\* What is known when x is put at the end of list l, and taken out of it.
PutsIn(h, S, L, null, c, l, x, p, n) ==
  /\ Contain(LinkBetween(h, S, null, l, p, x, n), S, L, null,
             [c EXCEPT ![l] = c[l] \cup {x}])
  /\ h.next[x] = null /\ h.prev[x] = null
  /\ p \in S \cup {null} /\ n \in S \cup {null} /\ x # p /\ x # n
TakesOut(h, S, L, null, c, l, x) ==
  /\ Contain(Unlink(h, S, null, l, x), S, L, null, [c EXCEPT ![l] = c[l] \ {x}])
  /\ h.prev[x] \in S \cup {null} /\ h.next[x] \in S \cup {null}

LEMMA ContentsInsert ==
  ASSUME NEW S, NEW L, NEW null, null \notin S, NEW h, NEW c, Contain(h, S, L, null, c),
         NEW l \in L, NEW x \in S, \A m \in L : x \notin c[m],
         NEW p, p = h.head[l].last,
         NEW n, n = IF p # null THEN h.next[p] ELSE h.head[l].first
  PROVE  PutsIn(h, S, L, null, c, l, x, p, n)
<1>1. PICK o : Holds(h, S, L, null, o) /\ c = [m \in L |-> ToSet(o[m])]
  BY DEF Contain
<1> DEFINE s == o[l]
<1>2. Sound(h, S, null, l, s)
  BY <1>1, HeapLists
<1>3. \A m \in L : x \notin ToSet(o[m])
  BY <1>1
<1>4. PICK k : k = Len(s)
  OBVIOUS
<1>5. PICK m : m = k + 1
  OBVIOUS
<1>6. k \in 0..Len(s) /\ p = IF k = 0 THEN null ELSE s[k]
  <2> HIDE DEF s
  <2> QED
    BY <1>2, <1>4 DEF Sound
<1>7. GoesIn(h, S, L, null, o, l, x, m, p, n)
  BY <1>1, <1>3, <1>5, <1>6, HeapInsert
<1> DEFINE g == LinkBetween(h, S, null, l, p, x, n)
           o2 == [o EXCEPT ![l] = InsertAt(s, m, x)]
<1>8. Holds(g, S, L, null, o2)
  BY <1>7 DEF GoesIn
<1>9. ToSet(InsertAt(s, m, x)) = ToSet(s) \cup {x}
  <2>1. s \in Seq(S) /\ IsInjective(s) /\ x \notin ToSet(s)
    BY <1>2, <1>3 DEF Sound
  <2> HIDE DEF s
  <2> QED
    BY <1>5, <1>6, <2>1, InsertKeepsApart
<1>10. [c EXCEPT ![l] = c[l] \cup {x}] = [j \in L |-> ToSet(o2[j])]
  <2>1. DOMAIN o = L
    BY <1>1 DEF Holds
  <2>2. \A j \in L : o2[j] = IF j = l THEN InsertAt(s, m, x) ELSE o[j]
    BY <2>1
  <2> HIDE DEF o2
  <2> QED
    BY <1>1, <1>9, <2>2
<1>11. Contain(g, S, L, null, [c EXCEPT ![l] = c[l] \cup {x}])
  <2> HIDE DEF g, o2
  <2> QED
    BY <1>8, <1>10 DEF Contain
<1> QED
  BY <1>7, <1>11 DEF GoesIn, PutsIn

LEMMA ContentsDetach ==
  ASSUME NEW S, NEW L, NEW null, null \notin S, NEW h, NEW c, Contain(h, S, L, null, c),
         NEW l \in L, NEW x \in c[l]
  PROVE  TakesOut(h, S, L, null, c, l, x)
<1>1. PICK o : Holds(h, S, L, null, o) /\ c = [m \in L |-> ToSet(o[m])]
  BY DEF Contain
<1> DEFINE s == o[l]
<1>2. Sound(h, S, null, l, s)
  BY <1>1, HeapLists
<1>3. x \in ToSet(s)
  BY <1>1
<1>4. PICK i \in 1..Len(s) : x = s[i]
  <2> HIDE DEF s
  <2> QED
    BY <1>2, <1>3 DEF Sound
<1>5. GoesOut(h, S, L, null, o, l, x, i)
  BY <1>1, <1>4, HeapDetach
<1> DEFINE g == Unlink(h, S, null, l, x)
           o2 == [o EXCEPT ![l] = RemoveAt(s, i)]
<1>6. Holds(g, S, L, null, o2)
  BY <1>5 DEF GoesOut
<1>7. ToSet(RemoveAt(s, i)) = ToSet(s) \ {x}
  <2>1. s \in Seq(S) /\ IsInjective(s)
    BY <1>2 DEF Sound
  <2> HIDE DEF s
  <2> QED
    BY <1>4, <2>1, DetachAt
<1>8. [c EXCEPT ![l] = c[l] \ {x}] = [j \in L |-> ToSet(o2[j])]
  <2>1. DOMAIN o = L
    BY <1>1 DEF Holds
  <2>2. \A j \in L : o2[j] = IF j = l THEN RemoveAt(s, i) ELSE o[j]
    BY <2>1
  <2> HIDE DEF o2
  <2> QED
    BY <1>1, <1>7, <2>2
<1>9. Contain(g, S, L, null, [c EXCEPT ![l] = c[l] \ {x}])
  <2> HIDE DEF g, o2
  <2> QED
    BY <1>6, <1>8 DEF Contain
<1> QED
  BY <1>5, <1>9 DEF GoesOut, TakesOut

\* An item that shares its list with another one has a neighbour.
LEMMA ContentsNeighbour ==
  ASSUME NEW S, NEW L, NEW null, null \notin S, NEW h, NEW c, Contain(h, S, L, null, c),
         NEW l \in L, NEW x \in c[l], NEW y \in c[l], x # y
  PROVE  h.next[x] # null \/ h.prev[x] # null
<1>0. PICK o : Holds(h, S, L, null, o) /\ c = [m \in L |-> ToSet(o[m])]
  BY DEF Contain
<1> DEFINE s == o[l]
<1>7. x \in ToSet(s) /\ y \in ToSet(s)
  BY <1>0
<1>1. /\ Linked(h.next, h.prev, null, s) /\ Len(s) \in Nat
      /\ \A j \in 1..Len(s) : s[j] # null
      /\ \A z : z \in ToSet(s) <=> \E i \in 1..Len(s) : z = s[i]
  <2>1. Sound(h, S, null, l, s)
    BY <1>0, HeapLists
  <2> HIDE DEF s
  <2> QED
    BY <2>1 DEF Sound
<1> HIDE DEF s
<1>2. PICK i \in 1..Len(s) : x = s[i]
  BY <1>1, <1>7
<1>3. PICK j \in 1..Len(s) : y = s[j]
  BY <1>1, <1>7
<1>4. i - 1 \in 1..Len(s) \/ i + 1 \in 1..Len(s)
  BY <1>1, <1>2, <1>3
<1>5. CASE i # 1
  <2>1. i - 1 \in 1..Len(s)
    BY <1>1, <1>5
  <2> QED
    BY <1>1, <1>2, <1>5, <2>1 DEF Linked
<1>6. CASE i = 1
  <2>1. i # Len(s) /\ i + 1 \in 1..Len(s)
    BY <1>1, <1>2, <1>3, <1>6
  <2> QED
    BY <1>1, <1>2, <2>1 DEF Linked
<1> QED
  BY <1>5, <1>6
=============================================================================

---- MODULE DataLemmas ----
(***************************************************************************)
(* Facts about the operators the models are built from, for the proof      *)
(* modules to cite: queues (sequences without duplicates) to which an      *)
(* element is appended or from which one is removed, lists into which one  *)
(* is inserted, the least and greatest of a set of numbers, and the sum of *)
(* a function over a finite set.                                           *)
(***************************************************************************)
EXTENDS Integers, SequencesExt, SequenceTheorems, FiniteSetTheorems,
        WellFoundedInduction, TLAPS

-----------------------------------------------------------------------------
(* Tables with two indices. *)

\* Updating one entry.
LEMMA UpdateEntry ==
  ASSUME NEW A, NEW B, NEW C, NEW f \in [A -> [B -> C]],
         NEW a \in A, NEW b \in B, NEW c \in C
  PROVE  /\ [f EXCEPT ![a][b] = c] \in [A -> [B -> C]]
         /\ \A x \in A, y \in B :
              [f EXCEPT ![a][b] = c][x][y] = IF x = a /\ y = b THEN c ELSE f[x][y]
OBVIOUS

-----------------------------------------------------------------------------
(* Numbers. *)

\* A set of natural numbers that is not empty has a smallest member.
LEMMA SmallestMember ==
  ASSUME NEW S \in SUBSET Nat, S # {}
  PROVE  Min(S) \in S /\ \A y \in S : Min(S) <= y
<1>1. PICK x \in S : \A y \in S : ~(<<y, x>> \in OpToRel(<, Nat))
  BY NatLessThanWellFounded, WFMin
<1>2. ASSUME NEW y \in S PROVE x <= y
  <2>1. x \in Nat /\ y \in Nat
    OBVIOUS
  <2>2. ~(y < x)
    BY <1>1, <2>1 DEF OpToRel
  <2>. QED  BY <2>1, <2>2
<1>. QED  BY <1>2 DEF Min

-----------------------------------------------------------------------------
(* Queues. *)

\* The members of a sequence are finitely many.
LEMMA RangeIsFinite ==
  ASSUME NEW S, NEW s \in Seq(S)
  PROVE  IsFiniteSet(Range(s))
<1>1. IsFiniteSet(1..Len(s))
  BY LenProperties, FS_Interval
<1>2. s \in Surjection(1..Len(s), Range(s))
  BY LenProperties DEF Surjection, Range
<1>. QED  BY <1>1, <1>2, FS_Surjection

\* A member of a sequence is at one of its positions.
LEMMA MemberHasPosition ==
  ASSUME NEW S, NEW s \in Seq(S), NEW x
  PROVE  x \in Range(s) <=> \E i \in 1..Len(s) : s[i] = x
BY LenProperties DEF Range

\* Appending.
LEMMA AppendToQueue ==
  ASSUME NEW S, NEW s \in Seq(S), NEW x \in S
  PROVE  /\ Append(s, x) \in Seq(S)
         /\ Range(Append(s, x)) = Range(s) \cup {x}
         /\ IsInjective(s) /\ x \notin Range(s) => IsInjective(Append(s, x))
<1>1. /\ Append(s, x) \in Seq(S)
      /\ Len(Append(s, x)) = Len(s) + 1 /\ Len(s) \in Nat
      /\ \A i \in 1..Len(s) : Append(s, x)[i] = s[i]
      /\ Append(s, x)[Len(s) + 1] = x
      /\ DOMAIN Append(s, x) = 1..(Len(s) + 1) /\ DOMAIN s = 1..Len(s)
  BY AppendProperties, LenProperties
<1>. QED  BY <1>1 DEF Range, IsInjective

\* Serving the front.
LEMMA TailOfQueue ==
  ASSUME NEW S, NEW s \in Seq(S), s # <<>>
  PROVE  /\ Head(s) \in Range(s) /\ Tail(s) \in Seq(S)
         /\ Tail(s) = <<>> <=> Len(s) = 1
         /\ Range(s) = Range(Tail(s)) \cup {Head(s)}
         /\ IsInjective(s) => /\ IsInjective(Tail(s))
                              /\ Range(Tail(s)) = Range(s) \ {Head(s)}
<1>1. /\ Head(s) = s[1] /\ Tail(s) \in Seq(S)
      /\ Len(Tail(s)) = Len(s) - 1 /\ Len(s) \in Nat \ {0}
      /\ \A i \in 1..(Len(s) - 1) : Tail(s)[i] = s[i + 1]
      /\ DOMAIN Tail(s) = 1..(Len(s) - 1) /\ DOMAIN s = 1..Len(s)
  BY HeadTailProperties, LenProperties, EmptySeq
<1>2. \A i \in 2..Len(s) : i - 1 \in 1..(Len(s) - 1) /\ Tail(s)[i - 1] = s[i]
  BY <1>1
<1>3. Range(s) = Range(Tail(s)) \cup {Head(s)} /\ Head(s) \in Range(s)
  <2>1. ASSUME NEW i \in 1..Len(s) PROVE s[i] \in Range(Tail(s)) \cup {Head(s)}
    <3>1. CASE i = 1
      BY <1>1, <3>1
    <3>2. CASE i # 1
      <4>1. i \in 2..Len(s)
        BY <1>1, <3>2
      <4>. QED  BY <1>1, <1>2, <4>1 DEF Range
    <3>. QED  BY <3>1, <3>2
  <2>. QED  BY <1>1, <2>1 DEF Range
<1>4. ASSUME IsInjective(s) PROVE IsInjective(Tail(s)) /\ Head(s) \notin Range(Tail(s))
  BY <1>1, <1>4 DEF IsInjective, Range
<1>5. Tail(s) = <<>> <=> Len(s) = 1
  <2>1. \A t \in Seq(S) : t = <<>> <=> Len(t) = 0
    BY EmptySeq
  <2>. QED  BY <1>1, <2>1
<1>. QED  BY <1>1, <1>3, <1>4, <1>5

\* Inserting.
LEMMA InsertIntoQueue ==
  ASSUME NEW S, NEW s \in Seq(S), NEW i \in 1..Len(s), NEW x \in S
  PROVE  InsertAt(s, i, x) \in Seq(S)
<1>1. Len(s) \in Nat /\ \A j \in 1..Len(s) : s[j] \in S
  BY LenProperties, ElementOfSeq
<1>2. SubSeq(s, 1, i - 1) \in Seq(S)
  <2>1. 1 \in Int /\ i - 1 \in Int /\ \A j \in 1..(i - 1) : s[j] \in S
    BY <1>1
  <2>. QED  BY <2>1, SubSeqProperties
<1>3. SubSeq(s, i, Len(s)) \in Seq(S)
  <2>1. i \in Int /\ Len(s) \in Int /\ \A j \in i..Len(s) : s[j] \in S
    BY <1>1
  <2>. QED  BY <2>1, SubSeqProperties
<1>4. <<x>> \in Seq(S)
  OBVIOUS
<1>. DEFINE front == SubSeq(s, 1, i - 1)
            back == SubSeq(s, i, Len(s))
<1>. HIDE DEF front, back
<1>5. (front \o <<x>>) \o back \in Seq(S)
  BY <1>2, <1>3, <1>4, ConcatProperties DEF front, back
<1>. QED  BY <1>5 DEF InsertAt, front, back

\* Inserting: the positions of the new sequence.
LEMMA PositionsOfInsert ==
  ASSUME NEW S, NEW s \in Seq(S), NEW k \in 1..Len(s), NEW x \in S
  PROVE  /\ Len(InsertAt(s, k, x)) = Len(s) + 1
         /\ \A j \in 1..(Len(s) + 1) :
              InsertAt(s, k, x)[j] = IF j < k THEN s[j] ELSE IF j = k THEN x ELSE s[j - 1]
<1>1. Len(s) \in Nat /\ \A j \in 1..Len(s) : s[j] \in S
  BY LenProperties, ElementOfSeq
<1>. DEFINE front == SubSeq(s, 1, k - 1)
            back == SubSeq(s, k, Len(s))
<1>2. /\ front \in Seq(S) /\ Len(front) = k - 1
      /\ \A j \in 1..(k - 1) : front[j] = s[j]
  <2>1. 1 \in Int /\ k - 1 \in Int /\ \A j \in 1..(k - 1) : s[j] \in S
    BY <1>1
  <2>2. /\ front \in Seq(S) /\ Len(front) = IF 1 <= k - 1 THEN (k - 1) - 1 + 1 ELSE 0
        /\ \A j \in 1..((k - 1) - 1 + 1) : front[j] = s[1 + j - 1]
    BY <2>1, SubSeqProperties
  <2>. QED  BY <2>2
<1>3. /\ back \in Seq(S) /\ Len(back) = Len(s) - k + 1
      /\ \A j \in 1..(Len(s) - k + 1) : back[j] = s[k + j - 1]
  <2>1. k \in Int /\ Len(s) \in Int /\ \A j \in k..Len(s) : s[j] \in S
    BY <1>1
  <2>2. /\ back \in Seq(S) /\ Len(back) = IF k <= Len(s) THEN Len(s) - k + 1 ELSE 0
        /\ \A j \in 1..(Len(s) - k + 1) : back[j] = s[k + j - 1]
    BY <2>1, SubSeqProperties
  <2>. QED  BY <2>2
<1>4. /\ <<x>> \in Seq(S) /\ Len(<<x>>) = 1 /\ <<x>>[1] = x
  OBVIOUS
<1>. HIDE DEF front, back
<1>. PICK one : one = <<x>>
  OBVIOUS
<1>5. /\ front \o one \in Seq(S) /\ Len(front \o one) = k
      /\ \A j \in 1..k : (front \o one)[j] = IF j < k THEN s[j] ELSE x
  <2>1. /\ front \o one \in Seq(S) /\ Len(front \o one) = Len(front) + Len(one)
        /\ \A j \in 1..(Len(front) + Len(one)) : (front \o one)[j] =
             IF j <= Len(front) THEN front[j] ELSE one[j - Len(front)]
    BY <1>2, <1>4, ConcatProperties
  <2>2. one[1] = x /\ Len(one) = 1
    BY <1>4
  <2>3. ASSUME NEW j \in 1..k PROVE (front \o one)[j] = IF j < k THEN s[j] ELSE x
    <3>1. CASE j < k
      BY <1>2, <2>1, <2>2, <3>1
    <3>2. CASE ~(j < k)
      <4>1. j = k /\ j - (k - 1) = 1 /\ ~(j <= k - 1)
        BY <3>2
      <4>. QED  BY <1>2, <2>1, <2>2, <4>1
    <3>. QED  BY <3>1, <3>2
  <2>4. Len(front \o one) = k
    BY <1>2, <2>1, <2>2
  <2>. QED  BY <2>1, <2>3, <2>4
<1>. PICK u : u = front \o one
  OBVIOUS
<1>6. /\ u \in Seq(S) /\ Len(u) = k
      /\ \A j \in 1..k : u[j] = IF j < k THEN s[j] ELSE x
  BY <1>5
<1>7. /\ Len(u \o back) = Len(u) + Len(back)
      /\ \A j \in 1..(Len(u) + Len(back)) :
           (u \o back)[j] = IF j <= Len(u) THEN u[j] ELSE back[j - Len(u)]
  <2>1. u \in Seq(S) /\ back \in Seq(S)
    BY <1>3, <1>6
  <2>. QED  BY <2>1, ConcatProperties
<1>8. InsertAt(s, k, x) = u \o back
  BY DEF InsertAt, front, back
<1>9. Len(u) + Len(back) = Len(s) + 1
  <2>1. \A n \in Nat : \A i \in 1..n : i + (n - i + 1) = n + 1
    OBVIOUS
  <2>2. Len(u) = k /\ Len(back) = Len(s) - k + 1 /\ Len(s) \in Nat /\ k \in 1..Len(s)
    BY <1>1, <1>3, <1>6
  <2>. QED  BY <2>1, <2>2
<1>10. ASSUME NEW j \in 1..(Len(s) + 1)
       PROVE  (u \o back)[j] = IF j < k THEN s[j] ELSE IF j = k THEN x ELSE s[j - 1]
  <2>1. (u \o back)[j] = IF j <= k THEN u[j] ELSE back[j - k]
    BY <1>6, <1>7, <1>9
  <2>2. CASE j <= k
    <3>1. j \in 1..k
      BY <2>2
    <3>. QED  BY <1>6, <2>1, <2>2, <3>1
  <2>3. CASE ~(j <= k)
    <3>1. j - k \in 1..(Len(s) - k + 1) /\ k + (j - k) - 1 = j - 1 /\ ~(j < k) /\ j # k
      BY <1>1, <2>3
    <3>. QED  BY <1>3, <2>1, <2>3, <3>1
  <2>. QED  BY <2>2, <2>3
<1>. QED  BY <1>7, <1>8, <1>9, <1>10

\* Inserting as Python's list.insert does, also behind the last position.
Inserted(s, k, x) == IF k > Len(s) THEN Append(s, x) ELSE InsertAt(s, k, x)

LEMMA InsertedIntoList ==
  ASSUME NEW S, NEW s \in Seq(S), NEW k \in 1..Len(s) + 1, NEW x \in S,
         NEW t, t = Inserted(s, k, x)
  PROVE  /\ t \in Seq(S) /\ Len(t) = Len(s) + 1
         /\ \A j \in 1..(Len(s) + 1) :
              t[j] = IF j < k THEN s[j] ELSE IF j = k THEN x ELSE s[j - 1]
         /\ Range(t) = Range(s) \cup {x}
<1>1. Len(s) \in Nat /\ \A j \in 1..Len(s) : s[j] \in S
  BY LenProperties, ElementOfSeq
<1>2. /\ t \in Seq(S) /\ Len(t) = Len(s) + 1
      /\ \A j \in 1..(Len(s) + 1) :
           t[j] = IF j < k THEN s[j] ELSE IF j = k THEN x ELSE s[j - 1]
  <2>1. CASE k > Len(s)
    <3>1. t = Append(s, x) /\ k = Len(s) + 1
      BY <1>1, <2>1 DEF Inserted
    <3>2. /\ Append(s, x) \in Seq(S) /\ Len(Append(s, x)) = Len(s) + 1
          /\ \A i \in 1..Len(s) : Append(s, x)[i] = s[i]
          /\ Append(s, x)[Len(s) + 1] = x
      BY AppendProperties
    <3>. QED  BY <1>1, <3>1, <3>2
  <2>2. CASE ~(k > Len(s))
    <3>1. t = InsertAt(s, k, x) /\ k \in 1..Len(s)
      BY <1>1, <2>2 DEF Inserted
    <3>2. InsertAt(s, k, x) \in Seq(S)
      BY <3>1, InsertIntoQueue
    <3>3. /\ Len(InsertAt(s, k, x)) = Len(s) + 1
          /\ \A j \in 1..(Len(s) + 1) : InsertAt(s, k, x)[j] =
               IF j < k THEN s[j] ELSE IF j = k THEN x ELSE s[j - 1]
      BY <3>1, PositionsOfInsert
    <3>. QED  BY <3>1, <3>2, <3>3
  <2>. QED  BY <2>1, <2>2
<1>3. ASSUME NEW j \in 1..(Len(s) + 1) PROVE t[j] \in Range(s) \cup {x}
  <2>1. j # k => (IF j < k THEN j ELSE j - 1) \in 1..Len(s)
    BY <1>1
  <2>2. t[j] = IF j < k THEN s[j] ELSE IF j = k THEN x ELSE s[j - 1]
    BY <1>2
  <2>3. \A i \in 1..Len(s) : s[i] \in Range(s)
    BY MemberHasPosition
  <2>. QED  BY <1>1, <2>1, <2>2, <2>3
<1>4. x \in Range(t)
  <2>1. k \in 1..Len(t) /\ t[k] = x
    BY <1>1, <1>2
  <2>. QED  BY <1>2, <2>1, MemberHasPosition
<1>5. ASSUME NEW i \in 1..Len(s) PROVE s[i] \in Range(t)
  <2>. PICK j : j = IF i < k THEN i ELSE i + 1
    OBVIOUS
  <2>1. j \in 1..Len(t) /\ t[j] = s[i]
    <3>1. CASE i < k
      BY <1>1, <1>2, <3>1
    <3>2. CASE ~(i < k)
      <4>1. j = i + 1 /\ j \in 1..(Len(s) + 1) /\ ~(j < k) /\ j # k /\ j - 1 = i
        BY <1>1, <3>2
      <4>. QED  BY <1>2, <4>1
    <3>. QED  BY <3>1, <3>2
  <2>. QED  BY <1>2, <2>1, MemberHasPosition
<1>6. \A y \in Range(t) : y \in Range(s) \cup {x}
  <2>1. DOMAIN t = 1..(Len(s) + 1)
    BY <1>2, LenProperties
  <2>. QED  BY <1>3, <2>1 DEF Range
<1>7. \A y \in Range(s) : y \in Range(t)
  BY <1>5, MemberHasPosition
<1>. QED  BY <1>2, <1>4, <1>6, <1>7

\* Taking out the element at one position.
LEMMA RemoveFromQueue ==
  ASSUME NEW S, NEW s \in Seq(S), NEW i \in 1..Len(s)
  PROVE  /\ RemoveAt(s, i) \in Seq(S)
         /\ Len(RemoveAt(s, i)) = Len(s) - 1
         /\ \A j \in 1..(Len(s) - 1) :
              RemoveAt(s, i)[j] = IF j < i THEN s[j] ELSE s[j + 1]
         /\ IsInjective(s) => /\ IsInjective(RemoveAt(s, i))
                              /\ Range(RemoveAt(s, i)) = Range(s) \ {s[i]}
<1>1. Len(s) \in Nat /\ DOMAIN s = 1..Len(s) /\ \A j \in 1..Len(s) : s[j] \in S
  BY LenProperties, ElementOfSeq
<1> DEFINE front == SubSeq(s, 1, i - 1)
           back  == SubSeq(s, i + 1, Len(s))
<1>2. /\ front \in Seq(S) /\ Len(front) = i - 1
      /\ \A j \in 1..(i - 1) : front[j] = s[j]
  <2>1. /\ 1 \in Int /\ i - 1 \in Int /\ \A j \in 1..(i - 1) : s[j] \in S
    BY <1>1
  <2>2. /\ front \in Seq(S) /\ Len(front) = IF 1 <= i - 1 THEN (i - 1) - 1 + 1 ELSE 0
        /\ \A j \in 1..((i - 1) - 1 + 1) : front[j] = s[1 + j - 1]
    BY <2>1, SubSeqProperties
  <2>. QED  BY <2>2
<1>3. /\ back \in Seq(S) /\ Len(back) = Len(s) - i
      /\ \A j \in 1..(Len(s) - i) : back[j] = s[i + j]
  <2>1. /\ i + 1 \in Int /\ Len(s) \in Int /\ \A j \in (i + 1)..Len(s) : s[j] \in S
    BY <1>1
  <2>2. /\ back \in Seq(S)
        /\ Len(back) = IF i + 1 <= Len(s) THEN Len(s) - (i + 1) + 1 ELSE 0
        /\ \A j \in 1..(Len(s) - (i + 1) + 1) : back[j] = s[(i + 1) + j - 1]
    BY <2>1, SubSeqProperties
  <2>. HIDE DEF back
  <2>3. Len(s) - (i + 1) + 1 = Len(s) - i
    BY <1>1
  <2>4. Len(back) = Len(s) - i
    <3>1. Len(back) = IF i + 1 <= Len(s) THEN Len(s) - (i + 1) + 1 ELSE 0
      BY <2>2
    <3> DEFINE n == Len(s)
    <3>2. n \in Nat /\ i \in 1..n
      BY <1>1
    <3>. HIDE DEF n
    <3>3. (IF i + 1 <= n THEN n - (i + 1) + 1 ELSE 0) = n - i
      BY <3>2
    <3>. QED  BY <3>1, <3>3 DEF n
  <2>5. ASSUME NEW j \in 1..(Len(s) - i) PROVE back[j] = s[i + j]
    <3>1. (i + 1) + j - 1 = i + j
      BY <1>1
    <3>. QED  BY <2>2, <2>3, <3>1
  <2>. QED  BY <2>2, <2>4, <2>5
<1> DEFINE r == RemoveAt(s, i)
<1>4. /\ r \in Seq(S) /\ Len(r) = Len(s) - 1
      /\ \A j \in 1..(Len(s) - 1) : r[j] = IF j < i THEN s[j] ELSE s[j + 1]
  <2>1. /\ front \o back \in Seq(S) /\ Len(front \o back) = Len(front) + Len(back)
        /\ \A j \in 1..(Len(front) + Len(back)) :
             (front \o back)[j] = IF j <= Len(front) THEN front[j] ELSE back[j - Len(front)]
    BY <1>2, <1>3, ConcatProperties
  <2>2. r = front \o back
    BY DEF RemoveAt
  <2>. HIDE DEF front, back, r
  <2>3. r \in Seq(S) /\ Len(r) = Len(s) - 1
    <3>1. r \in Seq(S) /\ Len(r) = Len(front) + Len(back)
      BY <2>1, <2>2, Zenon
    <3>. QED  BY <1>1, <1>2, <1>3, <3>1
  <2>4. ASSUME NEW j \in 1..(Len(s) - 1)
        PROVE  r[j] = IF j < i THEN s[j] ELSE s[j + 1]
    <3>1. r[j] = IF j <= i - 1 THEN front[j] ELSE back[j - (i - 1)]
      BY <1>1, <1>2, <1>3, <2>1, <2>2
    <3>2. CASE j < i
      BY <1>1, <1>2, <3>1, <3>2
    <3>3. CASE ~(j < i)
      <4>1. j - (i - 1) \in 1..(Len(s) - i) /\ i + (j - (i - 1)) = j + 1 /\ ~(j <= i - 1)
        BY <1>1, <3>3
      <4>. QED  BY <1>3, <3>1, <3>3, <4>1
    <3>. QED  BY <3>2, <3>3
  <2>. QED  BY <2>3, <2>4
<1>5. ASSUME IsInjective(s)
      PROVE  IsInjective(r) /\ Range(r) = Range(s) \ {s[i]}
  <2>. HIDE DEF r
  <2>1. DOMAIN r = 1..(Len(s) - 1)
    BY <1>4, LenProperties
  <2>2. \A j, k \in 1..Len(s) : s[j] = s[k] => j = k
    BY <1>1, <1>5 DEF IsInjective
  <2>3. IsInjective(r)
    BY <1>1, <1>4, <2>1, <2>2 DEF IsInjective
  <2>4. ASSUME NEW j \in 1..(Len(s) - 1) PROVE r[j] \in Range(s) \ {s[i]}
    <3>1. PICK k \in 1..Len(s) : r[j] = s[k] /\ k # i
      <4>1. CASE j < i
        BY <1>1, <1>4, <4>1
      <4>2. CASE ~(j < i)
        <5>1. j + 1 \in 1..Len(s) /\ j + 1 # i
          BY <1>1, <4>2
        <5>. QED  BY <1>4, <4>2, <5>1
      <4>. QED  BY <4>1, <4>2
    <3>. QED  BY <1>1, <2>2, <3>1 DEF Range
  <2>5. ASSUME NEW j \in 1..Len(s), j # i PROVE s[j] \in Range(r)
    <3>1. CASE j < i
      BY <1>1, <1>4, <2>1, <3>1 DEF Range
    <3>2. CASE j > i
      <4>1. j - 1 \in 1..(Len(s) - 1) /\ ~(j - 1 < i) /\ (j - 1) + 1 = j
        BY <1>1, <3>2
      <4>2. r[j - 1] = s[j]
        BY <1>4, <4>1
      <4>. QED  BY <2>1, <4>1, <4>2 DEF Range
    <3>. QED  BY <2>5, <3>1, <3>2
  <2>. QED  BY <1>1, <2>1, <2>3, <2>4, <2>5 DEF Range
<1>. QED  BY <1>4, <1>5

\* A sequence without repetitions loses just that element.
LEMMA RemoveFromInjective ==
  ASSUME NEW S, NEW s \in Seq(S), NEW i \in 1..Len(s), IsInjective(s),
         NEW t, t = RemoveAt(s, i)
  PROVE  t \in Seq(S) /\ IsInjective(t) /\ Range(t) = Range(s) \ {s[i]}
BY RemoveFromQueue

\* RemoveFirst takes out the element at one of its positions.
LEMMA RemoveFirstFromQueue ==
  ASSUME NEW S, NEW s \in Seq(S), NEW x \in Range(s)
  PROVE  \E i \in 1..Len(s) : s[i] = x /\ RemoveFirst(s, x) = RemoveAt(s, i)
<1> DEFINE I == {i \in 1..Len(s) : s[i] = x}
<1>1. I # {}
  BY LenProperties DEF Range
<1>2. PICK i \in I : \A j \in I : i <= j
  <2>1. I \subseteq Nat
    BY LenProperties
  <2>2. PICK i \in I : \A j \in I : <<j, i>> \notin OpToRel(<, Nat)
    <3>. HIDE DEF I
    <3>. QED  BY <1>1, <2>1, NatLessThanWellFounded, WFMin
  <2>3. \A j \in I : ~(j < i)
    BY <2>1, <2>2 DEF OpToRel
  <2>. QED  BY <2>1, <2>3
<1>3. Min(I) \in I
  <2>. HIDE DEF I
  <2>. QED  BY <1>2 DEF Min
<1>4. SelectInSeq(s, LAMBDA v : v = x) = Min(I)
  BY <1>1 DEF SelectInSeq
<1>5. RemoveFirst(s, x) = RemoveAt(s, Min(I))
  BY <1>1, <1>4 DEF RemoveFirst
<1>. QED  BY <1>3, <1>5

-----------------------------------------------------------------------------
(* Sums.  SumFunctionOnSet is a recursive function over the subsets of a    *)
(* set, so nothing is known to the provers about it; each fact is proved by *)
(* taking a smallest subset for which it fails.                             *)

LOCAL AnyOf(s) == CHOOSE x \in s : TRUE

\* The right-hand side of the recursive definition of the sum, and what it is
\* for a function g to satisfy that definition on the subsets of U.
LOCAL Unfolded(f, g, s) == IF s = {} THEN 0 ELSE f[AnyOf(s)] + g[s \ {AnyOf(s)}]
LOCAL Solves(f, g, U) == g = [s \in SUBSET U |-> Unfolded(f, g, s)]
LOCAL SumOf(f, U) == [s \in SUBSET U |-> SumFunctionOnSet(f, s)]

\* A collection of finite sets that is not empty has a smallest member.
LEMMA SmallestSubset ==
  ASSUME NEW U, IsFiniteSet(U), NEW T, T \subseteq SUBSET U, T # {}
  PROVE  \E s \in T : \A t \in SUBSET s : t # s => t \notin T
<1>1. IsWellFoundedOn(StrictSubsetOrdering(U), SUBSET U)
  BY FS_StrictSubsetOrderingWellFounded, FS_FiniteSubsetsOfFinite
<1>2. PICK s \in T : \A t \in T : <<t, s>> \notin StrictSubsetOrdering(U)
  BY <1>1, WFMin
<1>. QED  BY <1>2 DEF StrictSubsetOrdering

\* The definition of the sum, as the choice of a solution.
LEMMA SumIsAChoice ==
  ASSUME NEW f, NEW S
  PROVE  SumFunctionOnSet(f, S) = (CHOOSE g : Solves(f, g, S))[S]
BY DEF SumFunctionOnSet, FoldFunctionOnSet, MapThenFoldSet, Solves, Unfolded, AnyOf

\* Sums satisfy their recursive definition.
LEMMA SumUnfolds ==
  ASSUME NEW f, NEW S, IsFiniteSet(S)
  PROVE  SumFunctionOnSet(f, S) = Unfolded(f, SumOf(f, S), S)
<1> DEFINE Bad == {s \in SUBSET S :
                     SumFunctionOnSet(f, s) # Unfolded(f, SumOf(f, s), s)}
<1> SUFFICES ASSUME Bad # {} PROVE FALSE
  OBVIOUS
<1>1. PICK s \in Bad : \A t \in SUBSET s : t # s => t \notin Bad
  <2> HIDE DEF Bad
  <2>1. Bad \subseteq SUBSET S
    BY DEF Bad
  <2>. QED  BY <2>1, SmallestSubset
<1>2. IsFiniteSet(s)
  BY FS_Subset
<1>3. \A t \in SUBSET s : t # s => SumFunctionOnSet(f, t) = Unfolded(f, SumOf(f, t), t)
  BY <1>1
<1>4. \A t \in SUBSET s : t # {} => AnyOf(t) \in t
  BY DEF AnyOf
<1>5. \E g : Solves(f, g, s)
  <2> DEFINE h == [t \in SUBSET s |-> IF t = s THEN Unfolded(f, SumOf(f, s), s)
                                               ELSE SumFunctionOnSet(f, t)]
  <2>1. ASSUME NEW t \in SUBSET s PROVE h[t] = Unfolded(f, h, t)
    <3>1. CASE t = {}
      BY <3>1, <1>3 DEF Unfolded
    <3>2. CASE t # {}
      <4>1. /\ t \ {AnyOf(t)} \in SUBSET s /\ t \ {AnyOf(t)} # s
            /\ t \ {AnyOf(t)} \in SUBSET t
        BY <3>2, <1>4
      <4>2. h[t] = Unfolded(f, SumOf(f, t), t)
        BY <1>3
      <4>3. SumOf(f, t)[t \ {AnyOf(t)}] = h[t \ {AnyOf(t)}]
        BY <4>1 DEF SumOf
      <4>. QED  BY <4>2, <4>3 DEF Unfolded
    <3>. QED  BY <3>1, <3>2
  <2>2. h = [t \in SUBSET s |-> h[t]]
    OBVIOUS
  <2>. HIDE DEF h
  <2>3. h = [t \in SUBSET s |-> Unfolded(f, h, t)]
    BY <2>1, <2>2
  <2>. QED  BY <2>3 DEF Solves
<1>6. PICK g : Solves(f, g, s) /\ SumFunctionOnSet(f, s) = g[s]
  BY <1>5, SumIsAChoice
<1>7. \A t \in SUBSET s : g[t] = Unfolded(f, g, t)
  BY <1>6 DEF Solves
<1>8. ASSUME NEW t \in SUBSET s, t # s PROVE g[t] = SumFunctionOnSet(f, t)
  <2> DEFINE Differ == {u \in SUBSET s : u # s /\ g[u] # SumFunctionOnSet(f, u)}
  <2> SUFFICES ASSUME Differ # {} PROVE FALSE
    BY <1>8
  <2>1. PICK u \in Differ : \A v \in SUBSET u : v # u => v \notin Differ
    <3> HIDE DEF Differ
    <3>1. Differ \subseteq SUBSET s
      BY DEF Differ
    <3>. QED  BY <3>1, <1>2, SmallestSubset
  <2>2. g[u] = Unfolded(f, g, u) /\ SumFunctionOnSet(f, u) = Unfolded(f, SumOf(f, u), u)
    BY <1>7, <1>3
  <2>3. u # {}
    BY <2>2 DEF Unfolded
  <2>4. u \ {AnyOf(u)} \in SUBSET u /\ u \ {AnyOf(u)} # u /\ u \ {AnyOf(u)} # s
    BY <2>3, <1>4
  <2>5. g[u \ {AnyOf(u)}] = SumOf(f, u)[u \ {AnyOf(u)}]
    BY <2>1, <2>4 DEF SumOf
  <2>. QED  BY <2>2, <2>5 DEF Unfolded
<1>9. Unfolded(f, g, s) = Unfolded(f, SumOf(f, s), s)
  <2>1. CASE s = {}
    BY <2>1 DEF Unfolded
  <2>2. CASE s # {}
    <3>1. s \ {AnyOf(s)} \in SUBSET s /\ s \ {AnyOf(s)} # s
      BY <2>2, <1>4
    <3>2. g[s \ {AnyOf(s)}] = SumOf(f, s)[s \ {AnyOf(s)}]
      BY <3>1, <1>8 DEF SumOf
    <3>. QED  BY <3>2 DEF Unfolded
  <2>. QED  BY <2>1, <2>2
<1>. QED  BY <1>1, <1>6, <1>7, <1>9

\* The empty sum.
LEMMA SumEmpty == \A f : SumFunctionOnSet(f, {}) = 0
BY SumUnfolds, FS_EmptySet DEF Unfolded

\* One member of a set that is not empty can be split off.
LEMMA SumPick ==
  ASSUME NEW f, NEW S, IsFiniteSet(S), S # {}
  PROVE  \E x \in S : SumFunctionOnSet(f, S) = f[x] + SumFunctionOnSet(f, S \ {x})
<1>1. AnyOf(S) \in S
  BY DEF AnyOf
<1>2. SumOf(f, S)[S \ {AnyOf(S)}] = SumFunctionOnSet(f, S \ {AnyOf(S)})
  BY DEF SumOf
<1>. QED  BY SumUnfolds, <1>1, <1>2 DEF Unfolded

\* A sum of integers is an integer.
LEMMA SumType ==
  ASSUME NEW f, NEW S, IsFiniteSet(S), \A x \in S : f[x] \in Int
  PROVE  SumFunctionOnSet(f, S) \in Int
<1> DEFINE Bad == {s \in SUBSET S : SumFunctionOnSet(f, s) \notin Int}
<1> SUFFICES ASSUME Bad # {} PROVE FALSE
  OBVIOUS
<1>1. PICK s \in Bad : \A t \in SUBSET s : t # s => t \notin Bad
  <2> HIDE DEF Bad
  <2>1. Bad \subseteq SUBSET S
    BY DEF Bad
  <2>. QED  BY <2>1, SmallestSubset
<1>2. s # {}
  BY SumEmpty
<1>3. PICK x \in s : SumFunctionOnSet(f, s) = f[x] + SumFunctionOnSet(f, s \ {x})
  BY <1>2, SumPick, FS_Subset
<1>4. SumFunctionOnSet(f, s \ {x}) \in Int
  BY <1>1
<1>. QED  BY <1>3, <1>4

\* Every member of the set can be split off.
LEMMA SumRemove ==
  ASSUME NEW f, NEW S, IsFiniteSet(S), \A x \in S : f[x] \in Int, NEW x \in S
  PROVE  SumFunctionOnSet(f, S) = f[x] + SumFunctionOnSet(f, S \ {x})
<1> DEFINE Splits(s, y) == SumFunctionOnSet(f, s) = f[y] + SumFunctionOnSet(f, s \ {y})
           Bad == {s \in SUBSET S : \E y \in s : ~Splits(s, y)}
<1> SUFFICES ASSUME Bad # {} PROVE FALSE
  OBVIOUS
<1>1. PICK s \in Bad : \A t \in SUBSET s : t # s => t \notin Bad
  <2> HIDE DEF Bad
  <2>1. Bad \subseteq SUBSET S
    BY DEF Bad
  <2>. QED  BY <2>1, SmallestSubset
<1>2. PICK y \in s : ~Splits(s, y)
  OBVIOUS
<1>3. PICK z \in s : Splits(s, z)
  BY SumPick, FS_Subset
<1>4. y # z
  BY <1>2, <1>3
<1>5. Splits(s \ {z}, y) /\ Splits(s \ {y}, z)
  BY <1>1, <1>4
<1>6. (s \ {z}) \ {y} = (s \ {y}) \ {z}
  OBVIOUS
<1>7. SumFunctionOnSet(f, (s \ {z}) \ {y}) \in Int /\ f[y] \in Int /\ f[z] \in Int
  <2>1. (s \ {z}) \ {y} \subseteq S /\ y \in S /\ z \in S
    OBVIOUS
  <2>. QED  BY <2>1, SumType, FS_Subset
<1>8. /\ SumFunctionOnSet(f, s) = f[z] + SumFunctionOnSet(f, s \ {z})
      /\ SumFunctionOnSet(f, s \ {z}) = f[y] + SumFunctionOnSet(f, (s \ {z}) \ {y})
      /\ SumFunctionOnSet(f, s \ {y}) = f[z] + SumFunctionOnSet(f, (s \ {z}) \ {y})
  BY <1>3, <1>5, <1>6, Zenon
<1>. HIDE DEF Bad
<1>9. SumFunctionOnSet(f, s) = f[y] + SumFunctionOnSet(f, s \ {y})
  BY <1>7, <1>8
<1>. QED  BY <1>2, <1>9

\* A new member adds its value.
LEMMA SumAdd ==
  ASSUME NEW f, NEW S, IsFiniteSet(S), NEW x, x \notin S,
         \A y \in S \cup {x} : f[y] \in Int
  PROVE  SumFunctionOnSet(f, S \cup {x}) = SumFunctionOnSet(f, S) + f[x]
<1>1. IsFiniteSet(S \cup {x}) /\ (S \cup {x}) \ {x} = S
  BY FS_AddElement
<1>2. SumFunctionOnSet(f, S) \in Int /\ f[x] \in Int
  BY SumType
<1>3. SumFunctionOnSet(f, S \cup {x}) = f[x] + SumFunctionOnSet(f, (S \cup {x}) \ {x})
  <2>1. x \in S \cup {x}
    OBVIOUS
  <2>. QED  BY <1>1, <2>1, SumRemove
<1>4. SumFunctionOnSet(f, S \cup {x}) = f[x] + SumFunctionOnSet(f, S)
  BY <1>1, <1>3
<1>. QED  BY <1>2, <1>4

\* A sum of zeros.
LEMMA SumOfZeros ==
  ASSUME NEW f, NEW S, IsFiniteSet(S), \A x \in S : f[x] = 0
  PROVE  SumFunctionOnSet(f, S) = 0
<1> DEFINE Bad == {s \in SUBSET S : SumFunctionOnSet(f, s) # 0}
<1>1. SUFFICES ASSUME Bad # {} PROVE FALSE
  OBVIOUS
<1>2. PICK s \in Bad : \A t \in SUBSET s : t # s => t \notin Bad
  <2> HIDE DEF Bad
  <2>1. Bad \subseteq SUBSET S
    BY DEF Bad
  <2>. QED  BY <1>1, <2>1, SmallestSubset
<1>3. IsFiniteSet(s) /\ s # {}
  BY <1>2, FS_Subset, SumEmpty
<1>4. PICK x \in s : SumFunctionOnSet(f, s) = f[x] + SumFunctionOnSet(f, s \ {x})
  BY <1>3, SumPick
<1>5. SumFunctionOnSet(f, s \ {x}) = 0
  BY <1>2
<1>. QED  BY <1>2, <1>4, <1>5

\* Functions that agree on a set have the same sum over it.
LEMMA SumAgrees ==
  ASSUME NEW f, NEW g, NEW S, IsFiniteSet(S), \A x \in S : f[x] = g[x]
  PROVE  SumFunctionOnSet(f, S) = SumFunctionOnSet(g, S)
<1> DEFINE Bad == {s \in SUBSET S : SumFunctionOnSet(f, s) # SumFunctionOnSet(g, s)}
<1> SUFFICES ASSUME Bad # {} PROVE FALSE
  OBVIOUS
<1>1. PICK s \in Bad : \A t \in SUBSET s : t # s => t \notin Bad
  <2> HIDE DEF Bad
  <2>1. Bad \subseteq SUBSET S
    BY DEF Bad
  <2>. QED  BY <2>1, SmallestSubset
<1>2. s # {}
  BY SumEmpty
<1>3. IsFiniteSet(s)
  BY FS_Subset
<1>4. AnyOf(s) \in s /\ f[AnyOf(s)] = g[AnyOf(s)]
  BY <1>2 DEF AnyOf
<1>5. SumFunctionOnSet(f, s \ {AnyOf(s)}) = SumFunctionOnSet(g, s \ {AnyOf(s)})
  BY <1>1, <1>4
<1>6. Unfolded(f, SumOf(f, s), s) = Unfolded(g, SumOf(g, s), s)
  BY <1>4, <1>5 DEF Unfolded, SumOf
<1>. QED  BY <1>1, <1>3, <1>6, SumUnfolds

\* Changing the value of one member changes the sum by the difference.
LEMMA SumUpdate ==
  ASSUME NEW f, NEW g, NEW S, IsFiniteSet(S), NEW x \in S,
         \A y \in S : f[y] \in Int /\ g[y] \in Int,
         \A y \in S \ {x} : g[y] = f[y]
  PROVE  SumFunctionOnSet(g, S) = SumFunctionOnSet(f, S) + (g[x] - f[x])
<1>1. IsFiniteSet(S \ {x})
  BY FS_Subset
<1>2. SumFunctionOnSet(f, S \ {x}) = SumFunctionOnSet(g, S \ {x})
  BY <1>1, SumAgrees
<1>3. SumFunctionOnSet(f, S \ {x}) \in Int
  BY <1>1, SumType
<1>4. /\ SumFunctionOnSet(f, S) = f[x] + SumFunctionOnSet(f, S \ {x})
      /\ SumFunctionOnSet(g, S) = g[x] + SumFunctionOnSet(g, S \ {x})
  BY SumRemove
<1>. QED  BY <1>2, <1>3, <1>4

\* A finite set of integers that is not empty has a largest and a smallest member.
LEMMA ExtremeMembers ==
  ASSUME NEW S, IsFiniteSet(S), S # {}, \A x \in S : x \in Int
  PROVE  /\ Max(S) \in S /\ \A y \in S : Max(S) >= y
         /\ Min(S) \in S /\ \A y \in S : Min(S) <= y
<1> DEFINE Bounded(s) == /\ \E x \in s : \A y \in s : x >= y
                         /\ \E x \in s : \A y \in s : x <= y
           Bad == {s \in SUBSET S : s # {} /\ ~Bounded(s)}
<1>1. ASSUME Bad # {} PROVE FALSE
  <2>1. PICK s \in Bad : \A t \in SUBSET s : t # s => t \notin Bad
    <3> HIDE DEF Bad
    <3>1. Bad \subseteq SUBSET S
      BY DEF Bad
    <3>. QED  BY <1>1, <3>1, SmallestSubset
  <2>2. PICK a \in s : TRUE
    OBVIOUS
  <2>3. CASE s = {a}
    BY <2>3
  <2>4. CASE s # {a}
    <3>1. Bounded(s \ {a})
      <4>1. s \ {a} \in SUBSET s /\ s \ {a} # s /\ s \ {a} # {} /\ s \in SUBSET S
        BY <2>2, <2>4
      <4>2. s \ {a} \in SUBSET S
        BY <4>1
      <4>. HIDE DEF Bounded
      <4>. QED  BY <2>1, <4>1, <4>2
    <3>2. PICK u \in s \ {a} : \A y \in s \ {a} : u >= y
      BY <3>1
    <3>3. PICK v \in s \ {a} : \A y \in s \ {a} : v <= y
      BY <3>1
    <3>4. a \in Int /\ u \in Int /\ v \in Int
      BY <2>2
    <3>5. \E x \in s : \A y \in s : x >= y
      <4>1. CASE u >= a
        BY <3>2, <4>1
      <4>2. CASE ~(u >= a)
        <5>1. \A y \in s : y \in Int
          OBVIOUS
        <5>2. \A y \in s : a >= y
          BY <3>2, <3>4, <4>2, <5>1
        <5>. QED  BY <5>2
      <4>. QED  BY <4>1, <4>2
    <3>6. \E x \in s : \A y \in s : x <= y
      <4>1. CASE v <= a
        BY <3>3, <4>1
      <4>2. CASE ~(v <= a)
        <5>1. \A y \in s : y \in Int
          OBVIOUS
        <5>2. \A y \in s : a <= y
          BY <3>3, <3>4, <4>2, <5>1
        <5>. QED  BY <5>2
      <4>. QED  BY <4>1, <4>2
    <3>. QED  BY <2>1, <3>5, <3>6
  <2>. QED  BY <2>3, <2>4
<1>2. S \notin Bad
  BY <1>1
<1>3. Bounded(S)
  BY <1>2
<1>. QED  BY <1>3 DEF Max, Min

\* Where the terms of one sum are at most those of another, and those of one alone
\* do not speak against it, so are the sums.
LEMMA SumAtMost ==
  ASSUME NEW f, NEW g, NEW S, NEW T, IsFiniteSet(S), IsFiniteSet(T),
         \A x \in S : f[x] \in Int, \A x \in T : g[x] \in Int,
         \A x \in S \cap T : f[x] <= g[x],
         \A x \in S \ T : f[x] <= 0, \A x \in T \ S : g[x] >= 0
  PROVE  SumFunctionOnSet(f, S) <= SumFunctionOnSet(g, T)
<1> DEFINE Bad == {t \in SUBSET (S \cup T) :
                     ~(SumFunctionOnSet(f, t \cap S) <= SumFunctionOnSet(g, t \cap T))}
<1>1. ASSUME Bad # {} PROVE FALSE
  <2>1. PICK t \in Bad : \A u \in SUBSET t : u # t => u \notin Bad
    <3> HIDE DEF Bad
    <3>1. Bad \subseteq SUBSET (S \cup T) /\ IsFiniteSet(S \cup T)
      BY FS_Union DEF Bad
    <3>. QED  BY <1>1, <3>1, SmallestSubset
  <2>2. t \subseteq S \cup T /\ IsFiniteSet(t \cap S) /\ IsFiniteSet(t \cap T)
    BY FS_Intersection
  <2>3. ~(SumFunctionOnSet(f, t \cap S) <= SumFunctionOnSet(g, t \cap T))
    BY <2>1
  <2>4. t # {}
    <3>1. SumFunctionOnSet(f, {}) = 0 /\ SumFunctionOnSet(g, {}) = 0
      BY SumEmpty
    <3>2. t = {} => t \cap S = {} /\ t \cap T = {}
      OBVIOUS
    <3>. QED  BY <2>3, <3>1, <3>2
  <2>5. PICK x \in t : TRUE
    BY <2>4
  <2>6. PICK u : u = t \ {x}
    OBVIOUS
  <2>7. /\ IsFiniteSet(u \cap S) /\ IsFiniteSet(u \cap T)
        /\ SumFunctionOnSet(f, u \cap S) <= SumFunctionOnSet(g, u \cap T)
    <3>1. u \in SUBSET t /\ u # t /\ u \in SUBSET (S \cup T)
      BY <2>2, <2>5, <2>6
    <3>. QED  BY <2>1, <3>1, FS_Intersection
  <2>8. PICK a, b : a = SumFunctionOnSet(f, u \cap S) /\ b = SumFunctionOnSet(g, u \cap T)
    OBVIOUS
  <2>9. a \in Int /\ b \in Int /\ a <= b
    <3>1. a \in Int
      BY <2>7, <2>8, SumType
    <3>2. b \in Int
      BY <2>7, <2>8, SumType
    <3>. QED  BY <2>7, <2>8, <3>1, <3>2
  <2>10. SumFunctionOnSet(f, t \cap S) = IF x \in S THEN f[x] + a ELSE a
    <3>1. CASE x \in S
      <4>1. SumFunctionOnSet(f, t \cap S) = f[x] + SumFunctionOnSet(f, (t \cap S) \ {x})
        BY <2>2, <2>5, <3>1, SumRemove
      <4>2. (t \cap S) \ {x} = u \cap S
        BY <2>6
      <4>. QED  BY <2>8, <3>1, <4>1, <4>2
    <3>2. CASE x \notin S
      <4>1. t \cap S = u \cap S
        BY <2>6, <3>2
      <4>. QED  BY <2>8, <3>2, <4>1
    <3>. QED  BY <3>1, <3>2
  <2>11. SumFunctionOnSet(g, t \cap T) = IF x \in T THEN g[x] + b ELSE b
    <3>1. CASE x \in T
      <4>1. SumFunctionOnSet(g, t \cap T) = g[x] + SumFunctionOnSet(g, (t \cap T) \ {x})
        BY <2>2, <2>5, <3>1, SumRemove
      <4>2. (t \cap T) \ {x} = u \cap T
        BY <2>6
      <4>. QED  BY <2>8, <3>1, <4>1, <4>2
    <3>2. CASE x \notin T
      <4>1. t \cap T = u \cap T
        BY <2>6, <3>2
      <4>. QED  BY <2>8, <3>2, <4>1
    <3>. QED  BY <3>1, <3>2
  <2>12. /\ x \in S \/ x \in T
         /\ x \in S => f[x] \in Int /\ (x \notin T => f[x] <= 0)
         /\ x \in T => g[x] \in Int /\ (x \notin S => g[x] >= 0)
         /\ x \in S /\ x \in T => f[x] <= g[x]
    BY <2>2, <2>5
  <2>13. (IF x \in S THEN f[x] + a ELSE a) <= (IF x \in T THEN g[x] + b ELSE b)
    BY <2>9, <2>12
  <2>. QED  BY <2>3, <2>10, <2>11, <2>13
<1>2. S \cup T \notin Bad
  BY <1>1
<1>3. (S \cup T) \cap S = S /\ (S \cup T) \cap T = T
  OBVIOUS
<1>. QED  BY <1>2, <1>3

\* More terms, none of them negative, are no less.
LEMMA SumOfMore ==
  ASSUME NEW f, NEW g, NEW S, NEW T, IsFiniteSet(T), S \subseteq T,
         \A x \in S : f[x] \in Int /\ f[x] <= g[x],
         \A x \in T : g[x] \in Int /\ g[x] >= 0
  PROVE  SumFunctionOnSet(f, S) <= SumFunctionOnSet(g, T)
<1>1. IsFiniteSet(S)
  BY FS_Subset
<1>2. \A x \in S : x \in T /\ f[x] \in Int /\ f[x] <= g[x]
  OBVIOUS
<1>3. S \ T = {}
  OBVIOUS
<1>. QED  BY <1>1, <1>2, <1>3, SumAtMost

\* A sum of natural numbers is one.
LEMMA SumIsNatural ==
  ASSUME NEW f, NEW S, IsFiniteSet(S), \A x \in S : f[x] \in Nat
  PROVE  SumFunctionOnSet(f, S) \in Nat
<1>1. SumFunctionOnSet(f, S) \in Int
  BY SumType
<1>2. SumFunctionOnSet(f, {}) = 0
  BY SumEmpty
<1>3. SumFunctionOnSet(f, {}) <= SumFunctionOnSet(f, S)
  BY SumOfMore
<1>. QED  BY <1>1, <1>2, <1>3

\* A sum over the images of a set's members, all of them different.
LEMMA SumOfImages ==
  ASSUME NEW f, NEW g, NEW h, NEW S, IsFiniteSet(S),
         \A x, y \in S : h[x] = h[y] => x = y,
         \A x \in S : f[x] \in Int /\ g[h[x]] = f[x]
  PROVE  SumFunctionOnSet(g, {h[x] : x \in S}) = SumFunctionOnSet(f, S)
<1> DEFINE Image(s) == {h[x] : x \in s}
           Bad == {s \in SUBSET S :
                     SumFunctionOnSet(g, Image(s)) # SumFunctionOnSet(f, s)}
<1>1. ASSUME Bad # {} PROVE FALSE
  <2>1. PICK s \in Bad : \A t \in SUBSET s : t # s => t \notin Bad
    <3> HIDE DEF Bad
    <3>1. Bad \subseteq SUBSET S
      BY DEF Bad
    <3>. QED  BY <1>1, <3>1, SmallestSubset
  <2>2. s \subseteq S /\ IsFiniteSet(s)
    BY FS_Subset
  <2>3. s # {}
    <3>1. Image({}) = {} /\ SumFunctionOnSet(g, {}) = 0 /\ SumFunctionOnSet(f, {}) = 0
      BY SumEmpty
    <3>. QED  BY <2>1, <3>1
  <2>4. PICK x \in s : SumFunctionOnSet(f, s) = f[x] + SumFunctionOnSet(f, s \ {x})
    BY <2>2, <2>3, SumPick
  <2>5. SumFunctionOnSet(g, Image(s \ {x})) = SumFunctionOnSet(f, s \ {x})
    <3>1. s \ {x} \in SUBSET s /\ s \ {x} # s /\ s \ {x} \in SUBSET S
      BY <2>2, <2>4
    <3>. QED  BY <2>1, <3>1
  <2>6. IsFiniteSet(Image(s))
    <3>1. [y \in s |-> h[y]] \in Surjection(s, Image(s))
      BY DEF Surjection
    <3>. QED  BY <2>2, <3>1, FS_Surjection
  <2>7. Image(s) \ {h[x]} = Image(s \ {x}) /\ h[x] \in Image(s)
    BY <2>2, <2>4
  <2>8. \A y \in Image(s) : g[y] \in Int
    BY <2>2
  <2>9. SumFunctionOnSet(g, Image(s)) = g[h[x]] + SumFunctionOnSet(g, Image(s) \ {h[x]})
    <3> HIDE DEF Image
    <3>. QED  BY <2>6, <2>7, <2>8, SumRemove
  <2>10. g[h[x]] = f[x]
    BY <2>2, <2>4
  <2>. QED  BY <2>1, <2>4, <2>5, <2>7, <2>9, <2>10
<1>2. S \notin Bad
  BY <1>1
<1>. QED  BY <1>2
====

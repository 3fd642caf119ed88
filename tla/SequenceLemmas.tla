---------------------------- MODULE SequenceLemmas ----------------------------
(***************************************************************************)
(* Facts about sequences that the proofs about several components cite.    *)
(***************************************************************************)
EXTENDS SequenceTheorems, FiniteSetTheorems, Erase, TLAPS, Naturals, Sequences

(* A function from 1..n is a sequence of length n.                         *)
LEMMA FunctionIsSequence ==
  ASSUME NEW S, NEW n \in Nat, NEW f \in [1..n -> S]
  PROVE  f \in Seq(S) /\ Len(f) = n /\ DOMAIN f = 1..n
BY SeqDef, LenProperties

(* Appending to the last part of a concatenation appends to the whole:     *)
(* what a push at the end of a queue does to what it holds altogether.     *)
LEMMA AppendToConcat ==
  ASSUME NEW S, NEW s \in Seq(S), NEW t \in Seq(S), NEW e \in S
  PROVE  s \o Append(t, e) = Append(s \o t, e)
<1>1. Append(t, e) = t \o <<e>> /\ <<e>> \in Seq(S)
  BY AppendIsConcat
<1>2. s \o t \in Seq(S)
  BY ConcatProperties
<1>3. Append(s \o t, e) = (s \o t) \o <<e>>
  BY <1>2, AppendIsConcat
<1>4. (s \o t) \o <<e>> = s \o (t \o <<e>>)
  BY <1>1, ConcatAssociative
<1> QED
  BY <1>1, <1>3, <1>4

(* Moving the head of the second part to the end of the first changes      *)
(* nothing: what the call of a functor does to the batch.                  *)
LEMMA MoveHead ==
  ASSUME NEW S, NEW s \in Seq(S), NEW t \in Seq(S), t # <<>>
  PROVE  Append(s, Head(t)) \o Tail(t) = s \o t
<1>1. /\ Head(t) \in S
      /\ Tail(t) \in Seq(S)
      /\ Len(Tail(t)) = Len(t) - 1
      /\ \A i \in 1..Len(Tail(t)) : Tail(t)[i] = t[i + 1]
      /\ Len(t) \in Nat \ {0}
      /\ Head(t) = t[1]
  BY HeadTailProperties, EmptySeq
<1>2. /\ Append(s, Head(t)) \in Seq(S)
      /\ Len(Append(s, Head(t))) = Len(s) + 1
      /\ \A i \in 1..Len(s) : Append(s, Head(t))[i] = s[i]
      /\ Append(s, Head(t))[Len(s) + 1] = Head(t)
  BY <1>1, AppendProperties
<1>3. Len(s) \in Nat
  BY LenProperties
<1> DEFINE l == Append(s, Head(t)) \o Tail(t)
           r == s \o t
<1>4. /\ l \in Seq(S)
      /\ Len(l) = Len(s) + 1 + (Len(t) - 1)
      /\ \A i \in 1..(Len(s) + 1 + (Len(t) - 1)) :
           l[i] = IF i <= Len(s) + 1 THEN Append(s, Head(t))[i]
                                     ELSE Tail(t)[i - (Len(s) + 1)]
  BY <1>1, <1>2, ConcatProperties
<1>5. /\ r \in Seq(S)
      /\ Len(r) = Len(s) + Len(t)
      /\ \A i \in 1..(Len(s) + Len(t)) :
           r[i] = IF i <= Len(s) THEN s[i] ELSE t[i - Len(s)]
  BY ConcatProperties
<1> HIDE DEF l, r
<1>6. Len(l) = Len(r)
  BY <1>1, <1>3, <1>4, <1>5
<1>7. ASSUME NEW i \in 1..Len(l) PROVE l[i] = r[i]
  <2>0. /\ i \in 1..(Len(s) + 1 + (Len(t) - 1))
        /\ i \in 1..(Len(s) + Len(t))
    BY <1>1, <1>3, <1>4
  <2>1. CASE i <= Len(s)
    <3>1. i <= Len(s) + 1 /\ i \in 1..Len(s)
      BY <2>0, <2>1, <1>3
    <3>2. l[i] = s[i]
      BY <2>0, <3>1, <1>2, <1>4
    <3>3. r[i] = s[i]
      BY <2>0, <2>1, <1>5
    <3> QED
      BY <3>2, <3>3
  <2>2. CASE i = Len(s) + 1
    <3>1. l[i] = Head(t)
      BY <2>0, <2>2, <1>2, <1>3, <1>4
    <3>2. r[i] = t[1]
      BY <2>0, <2>2, <1>3, <1>5
    <3> QED
      BY <3>1, <3>2, <1>1
  <2>3. CASE i > Len(s) + 1
    <3>1. i - (Len(s) + 1) \in 1..Len(Tail(t))
      BY <2>0, <2>3, <1>1, <1>3
    <3>2. l[i] = t[i - (Len(s) + 1) + 1]
      BY <2>0, <3>1, <2>3, <1>1, <1>3, <1>4
    <3>3. r[i] = t[i - Len(s)]
      BY <2>0, <2>3, <1>3, <1>5
    <3>4. i - (Len(s) + 1) + 1 = i - Len(s)
      BY <2>0, <1>3
    <3> QED
      BY <3>2, <3>3, <3>4
  <2> QED
    BY <2>0, <2>1, <2>2, <2>3, <1>3
<1> QED
  BY <1>4, <1>5, <1>6, <1>7, SeqEqual DEF l, r

(* The head of a concatenation is the head of its first part.              *)
LEMMA HeadTailConcat ==
  ASSUME NEW S, NEW s \in Seq(S), NEW t \in Seq(S), s # <<>>
  PROVE  /\ s \o t # <<>>
         /\ Head(s \o t) = Head(s)
         /\ Tail(s \o t) = Tail(s) \o t
<1>1. /\ Head(s) \in S /\ Tail(s) \in Seq(S)
      /\ Append(<<>>, Head(s)) \o Tail(s) = <<>> \o s
  BY HeadTailProperties, MoveHead, EmptySeq
<1>2. s = <<Head(s)>> \o Tail(s) /\ <<Head(s)>> \in Seq(S)
  BY <1>1, ConcatEmptySeq, AppendIsConcat, EmptySeq
<1>3. s \o t = <<Head(s)>> \o (Tail(s) \o t) /\ Tail(s) \o t \in Seq(S)
  BY <1>1, <1>2, ConcatAssociative, ConcatProperties
<1>4. ASSUME NEW e \in S, NEW u \in Seq(S)
      PROVE  /\ <<e>> \o u # <<>>
             /\ Head(<<e>> \o u) = e
             /\ Tail(<<e>> \o u) = u
  <2> DEFINE w == <<e>> \o u
  <2>1. /\ w \in Seq(S) /\ Len(w) = 1 + Len(u) /\ Len(u) \in Nat
        /\ \A i \in 1..(1 + Len(u)) : w[i] = IF i <= 1 THEN <<e>>[i] ELSE u[i - 1]
    <3>1. <<e>> \in Seq(S) /\ Len(<<e>>) = 1
      OBVIOUS
    <3> QED
      BY <3>1, ConcatProperties, LenProperties
  <2> HIDE DEF w
  <2>2. w # <<>> /\ Head(w) = e
    BY <2>1, EmptySeq
  <2>3. /\ Tail(w) \in Seq(S) /\ Len(Tail(w)) = Len(u)
        /\ \A i \in 1..Len(u) : Tail(w)[i] = u[i]
    <3>1. /\ Tail(w) \in Seq(S) /\ Len(Tail(w)) = Len(w) - 1
          /\ \A i \in 1..Len(Tail(w)) : Tail(w)[i] = w[i + 1]
      BY <2>1, <2>2, HeadTailProperties
    <3>2. ASSUME NEW i \in 1..Len(u) PROVE Tail(w)[i] = u[i]
      <4>1. i \in 1..Len(Tail(w)) /\ i + 1 \in 1..(1 + Len(u)) /\ ~(i + 1 <= 1)
        BY <2>1, <3>1
      <4>2. i + 1 - 1 = i
        BY <2>1
      <4> QED
        BY <2>1, <3>1, <4>1, <4>2
    <3> QED
      BY <2>1, <3>1, <3>2
  <2>4. Tail(w) = u
    BY <2>3, SeqEqual
  <2> QED
    BY <2>2, <2>4 DEF w
<1> QED
  BY <1>1, <1>3, <1>4

(* Numbering one more element of a sequence of numbers.                    *)
LEMMA AppendNext ==
  ASSUME NEW n \in Nat
  PROVE  Append([i \in 1..n |-> i], n + 1) = [i \in 1..(n + 1) |-> i]
<1> DEFINE s == [i \in 1..n |-> i]
<1> DEFINE t == [i \in 1..(n + 1) |-> i]
<1>1. s \in Seq(Nat) /\ Len(s) = n /\ \A i \in 1..n : s[i] = i
  <2>1. s \in [1..n -> Nat]
    OBVIOUS
  <2> QED
    BY <2>1, FunctionIsSequence
<1>2. t \in Seq(Nat) /\ Len(t) = n + 1 /\ \A i \in 1..(n + 1) : t[i] = i
  <2>1. t \in [1..(n + 1) -> Nat]
    OBVIOUS
  <2> QED
    BY <2>1, FunctionIsSequence
<1> HIDE DEF s, t
<1>3. /\ Append(s, n + 1) \in Seq(Nat) /\ Len(Append(s, n + 1)) = n + 1
      /\ \A i \in 1..n : Append(s, n + 1)[i] = s[i]
      /\ Append(s, n + 1)[n + 1] = n + 1
  BY <1>1, AppendProperties
<1>4. \A i \in 1..(n + 1) : Append(s, n + 1)[i] = t[i]
  BY <1>1, <1>2, <1>3
<1>5. Append(s, n + 1) = t
  BY <1>2, <1>3, <1>4, SeqEqual
<1> QED
  BY <1>5 DEF s, t

(* A sequence is what comes up to a place in it and what comes after.      *)
LEMMA SplitAt ==
  ASSUME NEW S, NEW s \in Seq(S), NEW n \in 0..Len(s)
  PROVE  /\ SubSeq(s, 1, n) \in Seq(S) /\ Len(SubSeq(s, 1, n)) = n
         /\ SubSeq(s, n + 1, Len(s)) \in Seq(S)
         /\ Len(SubSeq(s, n + 1, Len(s))) = Len(s) - n
         /\ SubSeq(s, 1, n) \o SubSeq(s, n + 1, Len(s)) = s
<1>1. Len(s) \in Nat /\ n \in Nat /\ n <= Len(s)
  BY LenProperties
<1>2. \A i \in 1..Len(s) : s[i] \in S
  BY ElementOfSeq
<1>3. SubSeq(s, 1, n) \in Seq(S) /\ Len(SubSeq(s, 1, n)) = n
  <2>1. \A i \in 1..n : s[i] \in S
    BY <1>1, <1>2
  <2>2. /\ SubSeq(s, 1, n) \in Seq(S)
        /\ Len(SubSeq(s, 1, n)) = IF 1 <= n THEN n - 1 + 1 ELSE 0
    BY <1>1, <2>1, SubSeqProperties
  <2> QED
    BY <1>1, <2>2
<1>4. /\ SubSeq(s, n + 1, Len(s)) \in Seq(S)
      /\ Len(SubSeq(s, n + 1, Len(s))) = Len(s) - n
  <2>1. \A i \in (n + 1)..Len(s) : s[i] \in S
    BY <1>1, <1>2
  <2>2. n + 1 \in Int /\ Len(s) \in Int
    BY <1>1
  <2>3. /\ SubSeq(s, n + 1, Len(s)) \in Seq(S)
        /\ Len(SubSeq(s, n + 1, Len(s)))
             = IF n + 1 <= Len(s) THEN Len(s) - (n + 1) + 1 ELSE 0
    BY <2>1, <2>2, SubSeqProperties
  <2> QED
    BY <1>1, <2>3
<1>5. SubSeq(s, 1, n) \o SubSeq(s, n + 1, Len(s)) = SubSeq(s, 1, Len(s))
  <2>1. /\ 1 \in 1..(Len(s) + 1) /\ n \in (1 - 1)..Len(s)
        /\ Len(s) \in n..Len(s)
    BY <1>1
  <2> QED
    BY <2>1, ConcatAdjacentSubSeq
<1>6. SubSeq(s, 1, Len(s)) = s
  BY SubSeqFull
<1> QED
  BY <1>3, <1>4, <1>5, <1>6

(* The first part of a concatenation is a prefix of it.                    *)
LEMMA ConcatIsPrefix ==
  ASSUME NEW S, NEW s \in Seq(S), NEW t \in Seq(S)
  PROVE  /\ s \o t \in Seq(S) /\ Len(s \o t) = Len(s) + Len(t)
         /\ Len(s) \in Nat /\ Len(t) \in Nat
         /\ SubSeq(s \o t, 1, Len(s)) = s
<1>1. /\ s \o t \in Seq(S) /\ Len(s \o t) = Len(s) + Len(t)
      /\ \A i \in 1..(Len(s) + Len(t)) :
           (s \o t)[i] = IF i <= Len(s) THEN s[i] ELSE t[i - Len(s)]
  BY ConcatProperties
<1>2. Len(s) \in Nat /\ Len(t) \in Nat
  BY LenProperties
<1>3. \A i \in 1..Len(s) : (s \o t)[i] = s[i]
  BY <1>1, <1>2
<1>4. Len(s) \in 0..Len(s \o t)
  BY <1>1, <1>2
<1>5. /\ SubSeq(s \o t, 1, Len(s)) \in Seq(S)
      /\ Len(SubSeq(s \o t, 1, Len(s))) = Len(s)
  BY <1>1, <1>4, SplitAt
<1>6. \A i \in 1..Len(s) : SubSeq(s \o t, 1, Len(s))[i] = s[i]
  <2>1. \A i \in 1..Len(s) : (s \o t)[i] \in S
    BY <1>3, ElementOfSeq
  <2>2. \A i \in 1..(Len(s) - 1 + 1) :
          SubSeq(s \o t, 1, Len(s))[i] = (s \o t)[1 + i - 1]
    BY <1>2, <2>1, SubSeqProperties
  <2> QED
    BY <1>2, <1>3, <2>2
<1> QED
  BY <1>1, <1>2, <1>5, <1>6, SeqEqual

-----------------------------------------------------------------------------
(* Sets of numbers *)

(* A set of naturals that is not empty has a least element.                *)
LEMMA LeastExists ==
  ASSUME NEW S, S \subseteq Nat, S # {}
  PROVE  \E x \in S : \A y \in S : x <= y
<1> DEFINE Belows == {0..n : n \in S}
<1>1. \A n \in S : 0..n \in FiniteSubsetsOf(Nat)
  <2>1. ASSUME NEW n \in S PROVE 0..n \subseteq Nat /\ IsFiniteSet(0..n)
    <3>1. n \in Int /\ 0 \in Int
      OBVIOUS
    <3>2. IsFiniteSet(0..n)
      BY <3>1, FS_Interval, Zenon
    <3> QED
      BY <3>2
  <2> QED
    BY <2>1 DEF FiniteSubsetsOf
<1>2. PICK B \in Belows :
        \A C \in Belows : ~(<<C, B>> \in StrictSubsetOrdering(Nat))
  <2>1. Belows \subseteq FiniteSubsetsOf(Nat) /\ Belows # {}
    BY <1>1
  <2> HIDE DEF Belows
  <2> QED
    BY <2>1, FS_StrictSubsetOrderingWellFounded, WFMin
<1>3. PICK x \in S : B = 0..x
  OBVIOUS
<1>4. ASSUME NEW y \in S PROVE x <= y
  <2> SUFFICES ASSUME y < x PROVE FALSE
    OBVIOUS
  <2>1. /\ 0..y \subseteq 0..x /\ 0..x \subseteq Nat
        /\ x \in 0..x /\ x \notin 0..y
    OBVIOUS
  <2>2. 0..y # 0..x
    BY <2>1, Zenon
  <2>3. <<0..y, 0..x>> \in StrictSubsetOrdering(Nat)
    BY <2>1, <2>2 DEF StrictSubsetOrdering
  <2> QED
    BY <1>2, <1>3, <2>3
<1> QED
  BY <1>4

(* How many members of I are at most i: zero below all of them, all of     *)
(* them at the end, one more at a member and as many elsewhere.            *)
UpTo(I, i) == Cardinality({j \in I : j <= i})

LEMMA CountUpTo ==
  ASSUME NEW n \in Nat, NEW I, I \subseteq 1..n
  PROVE  /\ IsFiniteSet(I) /\ Cardinality(I) \in Nat
         /\ \A i \in Nat : UpTo(I, i) \in 0..Cardinality(I)
         /\ UpTo(I, 0) = 0
         /\ UpTo(I, n) = Cardinality(I)
         /\ \A i \in Nat : UpTo(I, i + 1) = IF i + 1 \in I THEN UpTo(I, i) + 1
                                            ELSE UpTo(I, i)
         /\ \A i, j \in I : i < j => UpTo(I, i) < UpTo(I, j)
<1>0. \A j \in I : j \in Nat /\ 1 <= j /\ j <= n
  OBVIOUS
<1>1. IsFiniteSet(I) /\ Cardinality(I) \in Nat
  <2>1. IsFiniteSet(1..n)
    BY FS_Interval
  <2> QED
    BY <2>1, FS_Subset, FS_CardinalityType
<1>2. \A i \in Nat : /\ IsFiniteSet({j \in I : j <= i})
                     /\ Cardinality({j \in I : j <= i}) \in 0..Cardinality(I)
  <2>1. ASSUME NEW i \in Nat
        PROVE  /\ IsFiniteSet({j \in I : j <= i})
               /\ Cardinality({j \in I : j <= i}) \in 0..Cardinality(I)
    <3>1. {j \in I : j <= i} \in SUBSET I
      OBVIOUS
    <3>2. /\ IsFiniteSet({j \in I : j <= i})
          /\ Cardinality({j \in I : j <= i}) <= Cardinality(I)
      BY <1>1, <3>1, FS_Subset
    <3>3. Cardinality({j \in I : j <= i}) \in Nat
      BY <3>2, FS_CardinalityType
    <3> QED
      BY <1>1, <3>2, <3>3
  <2> QED
    BY <2>1
<1>3. UpTo(I, 0) = 0
  <2>0. \A j \in I : ~(j <= 0)
    BY <1>0
  <2>1. {j \in I : j <= 0} = {}
    BY <2>0
  <2> QED
    BY <2>1, FS_EmptySet DEF UpTo
<1>4. UpTo(I, n) = Cardinality(I)
  <2>1. {j \in I : j <= n} = I
    BY <1>0
  <2> QED
    BY <2>1 DEF UpTo
<1>5. ASSUME NEW i \in Nat
      PROVE  UpTo(I, i + 1) = IF i + 1 \in I THEN UpTo(I, i) + 1 ELSE UpTo(I, i)
  <2>1. CASE i + 1 \in I
    <3>0. \A j \in I : j <= i + 1 <=> j <= i \/ j = i + 1
      BY <1>0
    <3>1. {j \in I : j <= i + 1} = {j \in I : j <= i} \cup {i + 1}
      BY <2>1, <3>0
    <3>2. i + 1 \notin {j \in I : j <= i}
      OBVIOUS
    <3>3. Cardinality({j \in I : j <= i} \cup {i + 1})
            = Cardinality({j \in I : j <= i}) + 1
      BY <1>2, <3>2, FS_AddElement
    <3> QED
      BY <2>1, <3>1, <3>3 DEF UpTo
  <2>2. CASE i + 1 \notin I
    <3>0. \A j \in I : j <= i + 1 <=> j <= i
      BY <1>0, <2>2
    <3>1. {j \in I : j <= i + 1} = {j \in I : j <= i}
      BY <3>0
    <3> QED
      BY <2>2, <3>1 DEF UpTo
  <2> QED
    BY <2>1, <2>2
<1>6. ASSUME NEW i \in I, NEW j \in I, i < j
      PROVE  UpTo(I, i) < UpTo(I, j)
  <2>0. \A m \in I : m <= i => m <= j
    BY <1>0, <1>6
  <2>1. {m \in I : m <= i} \in SUBSET {m \in I : m <= j}
    BY <2>0
  <2>2. j \in {m \in I : m <= j} /\ j \notin {m \in I : m <= i}
    BY <1>6
  <2>3. {m \in I : m <= i} # {m \in I : m <= j}
    BY <2>2, Zenon
  <2>4. i \in Nat /\ j \in Nat
    BY <1>0
  <2>5. /\ Cardinality({m \in I : m <= i}) <= Cardinality({m \in I : m <= j})
        /\ Cardinality({m \in I : m <= i}) # Cardinality({m \in I : m <= j})
    BY <1>2, <2>1, <2>3, <2>4, FS_Subset
  <2> QED
    BY <1>2, <2>4, <2>5 DEF UpTo
<1> QED
  BY <1>1, <1>2, <1>3, <1>4, <1>5, <1>6 DEF UpTo

(* A finite set of numbers has a k-th smallest member.                     *)
LEMMA NthExists ==
  ASSUME NEW n \in Nat, NEW I, I \subseteq 1..n, NEW k \in 1..Cardinality(I)
  PROVE  Nth(I, k) \in I /\ UpTo(I, Nth(I, k)) = k
<1>0. /\ IsFiniteSet(I) /\ Cardinality(I) \in Nat
      /\ \A i \in Nat : UpTo(I, i) \in 0..Cardinality(I)
      /\ UpTo(I, 0) = 0
      /\ UpTo(I, n) = Cardinality(I)
      /\ \A i \in Nat : UpTo(I, i + 1) = IF i + 1 \in I THEN UpTo(I, i) + 1
                                         ELSE UpTo(I, i)
      /\ \A i, j \in I : i < j => UpTo(I, i) < UpTo(I, j)
  BY CountUpTo
<1> DEFINE Enough == {i \in 0..n : UpTo(I, i) >= k}
<1>1. Cardinality(I) \in Nat /\ k \in Nat /\ k >= 1 /\ k <= Cardinality(I)
  BY <1>0
<1>2. n \in Enough
  BY <1>1, <1>0
<1>3. Enough \subseteq Nat
  OBVIOUS
<1>4. PICK m \in Enough : \A y \in Enough : m <= y
  <2> HIDE DEF Enough
  <2> QED
    BY <1>2, <1>3, LeastExists
<1>5. m \in 1..n /\ UpTo(I, m) >= k
  <2>1. UpTo(I, 0) = 0
    BY <1>0
  <2> QED
    BY <1>1, <1>4, <2>1
<1>6. UpTo(I, m - 1) < k
  <2>1. m - 1 \in 0..n /\ m - 1 \notin Enough
    BY <1>4, <1>5
  <2>2. UpTo(I, m - 1) \in Nat
    BY <2>1, <1>0
  <2> QED
    BY <1>1, <2>1, <2>2
<1>7. m \in I /\ UpTo(I, m) = k
  <2>1. m - 1 \in Nat /\ (m - 1) + 1 = m
    BY <1>5
  <2>2. UpTo(I, m) = IF m \in I THEN UpTo(I, m - 1) + 1 ELSE UpTo(I, m - 1)
    BY <2>1, <1>0
  <2>3. UpTo(I, m - 1) \in Nat
    BY <2>1, <1>0
  <2> QED
    BY <1>1, <1>5, <1>6, <2>2, <2>3
<1> QED
  BY <1>7 DEF Nth, UpTo

-----------------------------------------------------------------------------
(* Erasing *)

(* Erasing keeps exactly the elements that are not in S, each in one place *)
(* and in their order: the k-th one that is left was at place[k].          *)
LEMMA WithoutPlaces ==
  ASSUME NEW E, NEW s \in Seq(E), NEW S
  PROVE  /\ Without(s, S) \in Seq(E)
         /\ \E place \in [1..Len(Without(s, S)) -> 1..Len(s)] :
              /\ \A k \in 1..Len(Without(s, S)) :
                   /\ Without(s, S)[k] = s[place[k]]
                   /\ s[place[k]] \notin S
              /\ \A k, l \in 1..Len(Without(s, S)) : k < l => place[k] < place[l]
              /\ \A i \in 1..Len(s) :
                   s[i] \notin S => \E k \in 1..Len(Without(s, S)) : place[k] = i
<1> DEFINE n == Len(s)
           I == {i \in DOMAIN s : s[i] \notin S}
           c == Cardinality(I)
           place == [k \in 1..c |-> Nth(I, k)]
<1>1. n \in Nat /\ DOMAIN s = 1..n /\ \A i \in 1..n : s[i] \in E
  BY LenProperties, ElementOfSeq
<1>2. I \subseteq 1..n
  BY <1>1
<1> HIDE DEF n
<1>3. /\ c \in Nat
      /\ \A i \in Nat : UpTo(I, i) \in 0..c
      /\ UpTo(I, 0) = 0
      /\ \A i \in Nat : UpTo(I, i + 1) = IF i + 1 \in I THEN UpTo(I, i) + 1
                                         ELSE UpTo(I, i)
      /\ \A i, j \in I : i < j => UpTo(I, i) < UpTo(I, j)
  <2>1. PICK J : J = I
    OBVIOUS
  <2> HIDE DEF I
  <2>2. /\ Cardinality(J) \in Nat
        /\ \A i \in Nat : UpTo(J, i) \in 0..Cardinality(J)
        /\ UpTo(J, 0) = 0
        /\ \A i \in Nat : UpTo(J, i + 1) = IF i + 1 \in J THEN UpTo(J, i) + 1
                                           ELSE UpTo(J, i)
        /\ \A i, j \in J : i < j => UpTo(J, i) < UpTo(J, j)
    BY <1>1, <1>2, <2>1, CountUpTo
  <2> QED
    BY <2>1, <2>2, Zenon
<1>4. \A k \in 1..c : Nth(I, k) \in I /\ UpTo(I, Nth(I, k)) = k
  <2> HIDE DEF I
  <2> QED
    BY <1>1, <1>2, NthExists
<1>5. /\ \A i \in I : i \in 1..n /\ s[i] \in E /\ s[i] \notin S
      /\ \A i \in 1..n : s[i] \notin S => i \in I
  BY <1>1
<1>6. Without(s, S) = [k \in 1..c |-> s[place[k]]]
  BY DEF Without
<1>7. place \in [1..c -> 1..n] /\ \A k \in 1..c : place[k] = Nth(I, k)
  <2> HIDE DEF I
  <2> QED
    BY <1>2, <1>4
<1> HIDE DEF I, c, place
<1>8. Without(s, S) \in [1..c -> E] /\ \A k \in 1..c : Without(s, S)[k] = s[place[k]]
  BY <1>1, <1>6, <1>7
<1>9. Without(s, S) \in Seq(E) /\ Len(Without(s, S)) = c
  BY <1>3, <1>8, FunctionIsSequence
<1>10. \A k \in 1..c : s[place[k]] \notin S
  BY <1>4, <1>5, <1>7
<1>11. ASSUME NEW k \in 1..c, NEW l \in 1..c, k < l PROVE place[k] < place[l]
  <2>1. /\ place[k] \in I /\ place[l] \in I
        /\ UpTo(I, place[k]) = k /\ UpTo(I, place[l]) = l
        /\ place[k] \in Nat /\ place[l] \in Nat
    BY <1>1, <1>4, <1>7
  <2>2. CASE place[l] < place[k]
    <3>1. UpTo(I, place[l]) < UpTo(I, place[k])
      BY <1>3, <2>1, <2>2
    <3> QED
      BY <1>3, <1>11, <2>1, <3>1
  <2>3. CASE place[l] = place[k]
    BY <1>11, <2>1, <2>3
  <2> QED
    BY <2>1, <2>2, <2>3
<1>12. ASSUME NEW i \in 1..n, s[i] \notin S
       PROVE  \E k \in 1..c : place[k] = i
  <2>1. i \in I /\ i \in Nat /\ i - 1 \in Nat /\ (i - 1) + 1 = i
    BY <1>1, <1>5, <1>12
  <2> DEFINE k == UpTo(I, i)
  <2>2. k \in 1..c
    <3>1. UpTo(I, i) = UpTo(I, i - 1) + 1 /\ UpTo(I, i - 1) \in 0..c
      BY <1>3, <2>1
    <3>2. UpTo(I, i) \in 0..c
      BY <1>3, <2>1
    <3> QED
      BY <1>3, <3>1, <3>2
  <2>3. place[k] \in I /\ UpTo(I, place[k]) = UpTo(I, i) /\ place[k] \in Nat
    BY <1>1, <1>4, <1>7, <2>2
  <2>4. place[k] = i
    <3>1. UpTo(I, place[k]) \in Nat /\ UpTo(I, i) \in Nat
      BY <1>3, <2>1, <2>3
    <3>2. /\ place[k] < i => UpTo(I, place[k]) < UpTo(I, i)
          /\ i < place[k] => UpTo(I, i) < UpTo(I, place[k])
      BY <1>3, <2>1, <2>3
    <3>3. ~(place[k] < i) /\ ~(i < place[k])
      BY <2>3, <3>1, <3>2
    <3> QED
      BY <2>1, <2>3, <3>3
  <2> QED
    BY <2>2, <2>4
<1> QED
  BY <1>7, <1>8, <1>9, <1>10, <1>11, <1>12 DEF n

(* The elements of a sequence after an erasure are those not erased.       *)
LEMMA WithoutElements ==
  ASSUME NEW E, NEW s \in Seq(E), NEW S
  PROVE  /\ Without(s, S) \in Seq(E)
         /\ {Without(s, S)[i] : i \in DOMAIN Without(s, S)}
              = {s[i] : i \in DOMAIN s} \ S
<1> DEFINE w == Without(s, S)
<1>1. PICK place \in [1..Len(w) -> 1..Len(s)] :
        /\ \A k \in 1..Len(w) :
             /\ w[k] = s[place[k]]
             /\ s[place[k]] \notin S
        /\ \A i \in 1..Len(s) :
             s[i] \notin S => \E k \in 1..Len(w) : place[k] = i
  BY WithoutPlaces
<1>2. w \in Seq(E)
  BY WithoutPlaces
<1>3. DOMAIN s = 1..Len(s) /\ DOMAIN w = 1..Len(w)
  BY <1>2, LenProperties
<1> HIDE DEF w
<1>4. \A i \in DOMAIN w : w[i] \in {s[j] : j \in DOMAIN s} \ S
  BY <1>1, <1>3
<1>5. \A j \in DOMAIN s : s[j] \notin S => \E i \in DOMAIN w : w[i] = s[j]
  BY <1>1, <1>3
<1>6. {w[i] : i \in DOMAIN w} = {s[i] : i \in DOMAIN s} \ S
  BY <1>4, <1>5
<1> QED
  BY <1>2, <1>6 DEF w
=============================================================================

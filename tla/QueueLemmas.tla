---------------------------- MODULE QueueLemmas ----------------------------
(***************************************************************************)
(* Lemmas about queues, for the proofs about the modules that have them:   *)
(* what Filter returns, how often an element of a queue without repetition *)
(* occurs there, and how long such a queue is; and about the loops over    *)
(* them: induction, and what a chain of steps keeps.                       *)
(***************************************************************************)
EXTENDS Queues, TLAPS, SequenceTheorems, FiniteSetTheorems, WellFoundedInduction

Distinct(s) == \A i, j \in DOMAIN s : s[i] = s[j] => i = j
Occurs(s, p) == \E i \in DOMAIN s : s[i] = p
Places(s, p) == {i \in DOMAIN s : s[i] = p}

----------------------------------------------------------------------------
(* The numbers from 1 to n are n, and any set of them is finite.           *)
LEMMA UpTo ==
  ASSUME NEW n \in Nat
  PROVE  /\ IsFiniteSet(1..n) /\ Cardinality(1..n) = n
         /\ \A P \in SUBSET (1..n) : IsFiniteSet(P) /\ Cardinality(P) \in Nat
<1>1. IsFiniteSet(1..n) /\ Cardinality(1..n) = IF 1 > n THEN 0 ELSE n - 1 + 1
  <2>1. 1 \in Int /\ n \in Int
    OBVIOUS
  <2> QED BY <2>1, FS_Interval
<1>2. Cardinality(1..n) = n
  BY <1>1
<1>3. ASSUME NEW P \in SUBSET (1..n)
      PROVE  IsFiniteSet(P) /\ Cardinality(P) \in Nat
  BY <1>1, FS_Subset, FS_CardinalityType
<1> QED BY <1>1, <1>2, <1>3

(* One more or less, and two different things are two.                     *)
LEMMA OneMore ==
  ASSUME NEW S, IsFiniteSet(S), NEW x, x \notin S
  PROVE  /\ IsFiniteSet(S \cup {x}) /\ Cardinality(S) \in Nat
         /\ Cardinality(S \cup {x}) = Cardinality(S) + 1
<1>1. /\ IsFiniteSet(S \cup {x})
      /\ Cardinality(S \cup {x}) = IF x \in S THEN Cardinality(S) ELSE Cardinality(S) + 1
  BY FS_AddElement, Zenon
<1>2. Cardinality(S) \in Nat
  BY FS_CardinalityType
<1> QED BY <1>1, <1>2

LEMMA OneLess ==
  ASSUME NEW S, IsFiniteSet(S), NEW x, x \in S
  PROVE  /\ IsFiniteSet(S \ {x}) /\ Cardinality(S \ {x}) \in Nat
         /\ Cardinality(S) = Cardinality(S \ {x}) + 1
<1>1. IsFiniteSet(S \ {x})
  BY FS_Subset
<1>2. (S \ {x}) \cup {x} = S /\ x \notin S \ {x}
  OBVIOUS
<1> DEFINE R == S \ {x}
<1> HIDE DEF R
<1>3. Cardinality(R) \in Nat /\ Cardinality(R \cup {x}) = Cardinality(R) + 1
  BY <1>1, <1>2, OneMore DEF R
<1> QED BY <1>1, <1>2, <1>3 DEF R

LEMMA TwoElements ==
  ASSUME NEW a, NEW b, a # b
  PROVE  Cardinality({a, b}) = 2
<1>1. IsFiniteSet({a}) /\ Cardinality({a}) = 1 /\ b \notin {a}
  BY FS_Singleton
<1>2. Cardinality({a} \cup {b}) = Cardinality({a}) + 1
  BY <1>1, OneMore
<1>3. {a} \cup {b} = {a, b}
  OBVIOUS
<1> QED BY <1>1, <1>2, <1>3

(* What occurs in a queue without repetition occurs there once.            *)
LEMMA OnceInQueue ==
  ASSUME NEW s, Distinct(s), NEW p
  PROVE  Cardinality(Places(s, p)) = IF Occurs(s, p) THEN 1 ELSE 0
<1>1. CASE Occurs(s, p)
  <2>1. PICK i \in DOMAIN s : s[i] = p
    BY <1>1 DEF Occurs
  <2>2. Places(s, p) = {i}
    BY <2>1 DEF Distinct, Places
  <2> QED BY <1>1, <2>2, FS_Singleton
<1>2. CASE ~Occurs(s, p)
  <2>1. Places(s, p) = {}
    BY <1>2 DEF Occurs, Places
  <2> QED BY <1>2, <2>1, FS_EmptySet
<1> QED BY <1>1, <1>2

(* A queue without repetition is no longer than there are elements.        *)
LEMMA DistinctLen ==
  ASSUME NEW S, IsFiniteSet(S), NEW s \in Seq(S), Distinct(s)
  PROVE  Len(s) <= Cardinality(S)
<1>1. s \in Injection(1..Len(s), S)
  BY DEF Distinct, Injection, IsInjective
<1>2. Cardinality(1..Len(s)) = Len(s)
  BY UpTo
<1> QED BY <1>1, <1>2, FS_Injection

----------------------------------------------------------------------------
(* The rank of a place among the places of a sequence.                     *)

(* The places of a sequence up to one of them are finitely many, at least  *)
(* one, and no more than the place itself.                                 *)
LEMMA RankType ==
  ASSUME NEW n \in Nat, NEW P \in SUBSET (1..n), NEW i \in P
  PROVE  /\ IsFiniteSet(P) /\ Cardinality(P) \in Nat
         /\ Rank(P, i) \in 1..Cardinality(P)
         /\ Rank(P, i) <= i
<1> DEFINE U(x) == {j \in P : j <= x}
<1>1. IsFiniteSet(P) /\ Cardinality(P) \in Nat
  BY UpTo
<1>2. U(i) \subseteq P /\ U(i) \subseteq 1..i /\ U(i) # {}
  <2>1. i \in Nat /\ i \in U(i)
    OBVIOUS
  <2>2. \A j \in U(i) : j \in 1..n /\ j <= i
    OBVIOUS
  <2>3. \A j \in 1..n : j <= i => j \in 1..i
    BY <2>1
  <2> QED BY <2>1, <2>2, <2>3
<1>3. IsFiniteSet(U(i)) /\ Cardinality(U(i)) <= Cardinality(P)
  BY <1>1, <1>2, FS_Subset
<1>4. Cardinality(U(i)) <= Cardinality(1..i)
  <2>1. IsFiniteSet(1..i)
    BY UpTo
  <2> QED BY <1>2, <2>1, FS_Subset
<1>5. Cardinality(U(i)) \in Nat /\ Cardinality(U(i)) # 0
  BY <1>2, <1>3, FS_CardinalityType, FS_EmptySet
<1>6. Cardinality(1..i) = i
  BY UpTo
<1> HIDE DEF U
<1>7. Rank(P, i) = Cardinality(U(i))
  BY DEF Rank, U
<1> QED BY <1>1, <1>3, <1>4, <1>5, <1>6, <1>7

(* A later place has a higher rank.                                        *)
LEMMA RankGrows ==
  ASSUME NEW n \in Nat, NEW P \in SUBSET (1..n), NEW i \in P, NEW j \in P, i < j
  PROVE  Rank(P, i) < Rank(P, j)
<1> DEFINE U(x) == {k \in P : k <= x}
<1>1. U(i) \subseteq U(j) /\ U(i) # U(j)
  <2>1. i \in Int /\ j \in Int /\ P \subseteq Int
    OBVIOUS
  <2>2. j \in U(j) /\ j \notin U(i)
    BY <2>1
  <2>3. \A k \in P : k <= i => k <= j
    BY <2>1
  <2> QED BY <2>2, <2>3
<1>2. IsFiniteSet(P) /\ U(j) \subseteq P
  BY RankType
<1>3. Rank(P, i) = Cardinality(U(i)) /\ Rank(P, j) = Cardinality(U(j))
  BY DEF Rank
<1>4. Rank(P, i) \in Nat /\ Rank(P, j) \in Nat
  <2>1. Cardinality(P) \in Nat /\ Rank(P, i) \in 1..Cardinality(P)
        /\ Rank(P, j) \in 1..Cardinality(P)
    BY RankType
  <2> QED BY <2>1
<1> HIDE DEF U
<1>5. IsFiniteSet(U(j))
  BY <1>2, FS_Subset
<1> QED BY <1>1, <1>3, <1>4, <1>5, FS_Subset

(* Two places have different ranks.                                        *)
LEMMA RankInjective ==
  ASSUME NEW n \in Nat, NEW P \in SUBSET (1..n), NEW i \in P, NEW j \in P,
         Rank(P, i) = Rank(P, j)
  PROVE  i = j
<1>1. Rank(P, i) \in Int /\ Rank(P, j) \in Int
  <2>1. Cardinality(P) \in Nat /\ Rank(P, i) \in 1..Cardinality(P)
        /\ Rank(P, j) \in 1..Cardinality(P)
    BY RankType
  <2> QED BY <2>1
<1>2. i \in Int /\ j \in Int
  OBVIOUS
<1>3. i < j => Rank(P, i) < Rank(P, j)
  BY RankGrows
<1>4. j < i => Rank(P, j) < Rank(P, i)
  BY RankGrows
<1> QED BY <1>1, <1>2, <1>3, <1>4

(* Each number up to the number of places is the rank of one of them.      *)
LEMMA NthType ==
  ASSUME NEW n \in Nat, NEW P \in SUBSET (1..n), NEW k \in 1..Cardinality(P)
  PROVE  Nth(P, k) \in P /\ Rank(P, Nth(P, k)) = k
<1> DEFINE r == [i \in P |-> Rank(P, i)]
<1>1. IsFiniteSet(P) /\ Cardinality(P) \in Nat
  BY UpTo
<1>2. r \in [P -> 1..Cardinality(P)]
  BY RankType
<1>3. ASSUME NEW i \in P, NEW j \in P, r[i] = r[j]
      PROVE  i = j
  BY <1>3, RankInjective
<1>4. Cardinality(1..Cardinality(P)) = Cardinality(P) /\ IsFiniteSet(1..Cardinality(P))
  BY <1>1, FS_Interval
<1>5. r \in Injection(P, 1..Cardinality(P))
  BY <1>2, <1>3 DEF Injection, IsInjective
<1>6. r \in Surjection(P, 1..Cardinality(P))
  <2> HIDE DEF r
  <2> QED BY <1>4, <1>5, FS_Injection
<1>7. \E i \in P : Rank(P, i) = k
  BY <1>6 DEF Surjection
<1> QED BY <1>7 DEF Nth

----------------------------------------------------------------------------
(* What Filter returns.                                                    *)

(* The places of a sequence.                                               *)
LEMMA PlacesType ==
  ASSUME NEW T, NEW s \in Seq(T), NEW S
  PROVE  /\ PlacesOf(s, S) \in SUBSET (1..Len(s))
         /\ Len(s) \in Nat
         /\ Cardinality(PlacesOf(s, S)) \in Nat
<1>1. PlacesOf(s, S) \in SUBSET (1..Len(s)) /\ Len(s) \in Nat
  BY DEF PlacesOf
<1> QED BY <1>1, UpTo

(* Filter returns a sequence; its k-th element is in S and comes from no   *)
(* earlier place of s, and the order is that of s.                         *)
LEMMA FilterElement ==
  ASSUME NEW T, NEW s \in Seq(T), NEW S, NEW k \in DOMAIN Filter(s, S)
  PROVE  LET i == Nth(PlacesOf(s, S), k)
         IN  /\ i \in DOMAIN s
             /\ Filter(s, S)[k] = s[i]
             /\ s[i] \in S
             /\ k <= i
<1> DEFINE P == PlacesOf(s, S)
<1>1. k \in 1..Cardinality(P) /\ Filter(s, S)[k] = s[Nth(P, k)]
  BY DEF Filter
<1>2. Nth(P, k) \in P /\ Rank(P, Nth(P, k)) = k
  BY <1>1, PlacesType, NthType
<1>3. Rank(P, Nth(P, k)) <= Nth(P, k)
  BY <1>2, PlacesType, RankType
<1> QED BY <1>1, <1>2, <1>3 DEF PlacesOf

(* The type of the result.                                                 *)
LEMMA FilterType ==
  ASSUME NEW T, NEW s \in Seq(T), NEW S
  PROVE  /\ Filter(s, S) \in Seq(T)
         /\ Len(Filter(s, S)) = Cardinality(PlacesOf(s, S))
<1> DEFINE n == Cardinality(PlacesOf(s, S))
<1>1. n \in Nat
  BY PlacesType
<1>2. \A k \in 1..n : Filter(s, S)[k] \in T
  BY FilterElement DEF Filter
<1> QED BY <1>1, <1>2, IsASeq DEF Filter

(* The result has the elements of s that are in S.                         *)
LEMMA FilterOccurs ==
  ASSUME NEW T, NEW s \in Seq(T), NEW S, NEW e
  PROVE  Occurs(Filter(s, S), e) <=> Occurs(s, e) /\ e \in S
<1> DEFINE P == PlacesOf(s, S)
<1>1. ASSUME Occurs(Filter(s, S), e) PROVE Occurs(s, e) /\ e \in S
  BY <1>1, FilterElement DEF Occurs
<1>2. ASSUME Occurs(s, e), e \in S PROVE Occurs(Filter(s, S), e)
  <2>1. PICK i \in P : s[i] = e
    BY <1>2 DEF Occurs, PlacesOf
  <2>2. Rank(P, i) \in 1..Cardinality(P)
    BY PlacesType, RankType
  <2>3. Nth(P, Rank(P, i)) \in P /\ Rank(P, Nth(P, Rank(P, i))) = Rank(P, i)
    BY <2>2, PlacesType, NthType
  <2>4. Nth(P, Rank(P, i)) = i
    <3>1. P \in SUBSET (1..Len(s)) /\ Len(s) \in Nat
      BY PlacesType
    <3> QED BY <2>3, <3>1, RankInjective
  <2> QED BY <2>1, <2>2, <2>4 DEF Filter, Occurs
<1> QED BY <1>1, <1>2

(* Filtering repeats nothing.                                              *)
LEMMA FilterDistinct ==
  ASSUME NEW T, NEW s \in Seq(T), NEW S, Distinct(s)
  PROVE  Distinct(Filter(s, S))
<1> DEFINE P == PlacesOf(s, S)
<1> SUFFICES ASSUME NEW j \in DOMAIN Filter(s, S), NEW k \in DOMAIN Filter(s, S),
                    Filter(s, S)[j] = Filter(s, S)[k]
             PROVE  j = k
  BY DEF Distinct
<1>1. Nth(P, j) = Nth(P, k)
  BY FilterElement DEF Distinct
<1>2. j \in 1..Cardinality(P) /\ k \in 1..Cardinality(P)
  BY DEF Filter
<1> QED BY <1>1, <1>2, PlacesType, NthType

----------------------------------------------------------------------------
(* Who is in a queue after an operation on it.                             *)

(* Nobody is in the empty queue.                                           *)
LEMMA OccursEmpty == /\ Distinct(<<>>) /\ \A e : ~Occurs(<<>>, e)
                     /\ \A T : <<>> \in Seq(T)
BY DEF Distinct, Occurs

(* Append: the last element joins.                                         *)
LEMMA OccursAppend ==
  ASSUME NEW T, NEW s \in Seq(T), NEW x \in T
  PROVE  /\ Append(s, x) \in Seq(T)
         /\ \A e : Occurs(Append(s, x), e) <=> Occurs(s, e) \/ e = x
         /\ Distinct(s) /\ ~Occurs(s, x) => Distinct(Append(s, x))
<1>1. Append(s, x) \in Seq(T) /\ Len(Append(s, x)) = Len(s) + 1
  BY AppendProperties
<1>2. /\ DOMAIN s = 1..Len(s) /\ DOMAIN Append(s, x) = 1..(Len(s) + 1)
      /\ Len(s) \in Nat
  BY <1>1, LenProperties
<1>3. /\ \A i \in 1..Len(s) : Append(s, x)[i] = s[i]
      /\ Append(s, x)[Len(s) + 1] = x
  BY AppendProperties
<1>4. \A i \in 1..(Len(s) + 1) : i \in 1..Len(s) \/ i = Len(s) + 1
  BY <1>2
<1>5. \A i \in 1..Len(s) : i \in 1..(Len(s) + 1)
  BY <1>2
<1>6. Len(s) + 1 \in 1..(Len(s) + 1)
  BY <1>2
<1>7. ASSUME NEW e PROVE Occurs(Append(s, x), e) <=> Occurs(s, e) \/ e = x
  BY <1>2, <1>3, <1>4, <1>5, <1>6 DEF Occurs
<1>8. ASSUME Distinct(s), ~Occurs(s, x) PROVE Distinct(Append(s, x))
  BY <1>2, <1>3, <1>4, <1>5, <1>6, <1>8 DEF Occurs, Distinct
<1> QED BY <1>1, <1>7, <1>8

(* Head and Tail: the first element leaves.                                *)
LEMMA OccursTail ==
  ASSUME NEW T, NEW s \in Seq(T), s # <<>>
  PROVE  /\ Tail(s) \in Seq(T) /\ Head(s) \in T /\ Occurs(s, Head(s))
         /\ Distinct(s) => /\ Distinct(Tail(s))
                           /\ \A e : Occurs(Tail(s), e) <=> Occurs(s, e) /\ e # Head(s)
<1>1. /\ Head(s) \in T /\ Tail(s) \in Seq(T) /\ Len(Tail(s)) = Len(s) - 1
      /\ \A i \in 1..Len(Tail(s)) : Tail(s)[i] = s[i + 1]
      /\ Head(s) = s[1]
  BY HeadTailProperties
<1>2. /\ DOMAIN s = 1..Len(s) /\ DOMAIN Tail(s) = 1..(Len(s) - 1)
      /\ Len(s) \in Nat /\ Len(s) > 0
  <2>1. Len(s) # 0 /\ Len(s) \in Nat
    BY EmptySeq
  <2> QED BY <1>1, <2>1, LenProperties
<1>3. 1 \in 1..Len(s)
  BY <1>2
<1>4. \A i \in 1..(Len(s) - 1) : i + 1 \in 1..Len(s) /\ i + 1 # 1 /\ i \in Int
  BY <1>2
<1>5. \A i \in 1..Len(s) : i # 1 => i - 1 \in 1..(Len(s) - 1) /\ (i - 1) + 1 = i
  BY <1>2
<1>6. \A i \in 1..(Len(s) - 1) : Tail(s)[i] = s[i + 1]
  BY <1>1, <1>2
<1>7. ASSUME Distinct(s) PROVE Distinct(Tail(s))
  <2> SUFFICES ASSUME NEW i \in 1..(Len(s) - 1), NEW j \in 1..(Len(s) - 1),
                      Tail(s)[i] = Tail(s)[j]
               PROVE  i = j
    BY <1>2 DEF Distinct
  <2>1. i + 1 = j + 1
    BY <1>2, <1>4, <1>6, <1>7 DEF Distinct
  <2> QED BY <2>1
<1>8. ASSUME Distinct(s), NEW e
      PROVE  Occurs(Tail(s), e) <=> Occurs(s, e) /\ e # Head(s)
  <2>1. ASSUME NEW i \in 1..(Len(s) - 1), Tail(s)[i] = e
        PROVE  Occurs(s, e) /\ e # Head(s)
    BY <1>1, <1>2, <1>3, <1>4, <1>6, <1>8, <2>1 DEF Distinct, Occurs
  <2>2. ASSUME NEW i \in 1..Len(s), s[i] = e, e # Head(s)
        PROVE  Occurs(Tail(s), e)
    <3>1. i - 1 \in 1..(Len(s) - 1) /\ (i - 1) + 1 = i
      BY <1>1, <1>5, <2>2
    <3>2. Tail(s)[i - 1] = e
      BY <1>6, <2>2, <3>1
    <3> QED BY <1>2, <3>1, <3>2 DEF Occurs
  <2> QED BY <1>2, <2>1, <2>2 DEF Occurs
<1>9. Occurs(s, Head(s))
  BY <1>1, <1>2, <1>3 DEF Occurs
<1> QED BY <1>1, <1>7, <1>8, <1>9

(* Concatenation: everybody of the second queue joins.                     *)
LEMMA OccursConcat ==
  ASSUME NEW T, NEW s \in Seq(T), NEW t \in Seq(T)
  PROVE  /\ s \o t \in Seq(T)
         /\ \A e : Occurs(s \o t, e) <=> Occurs(s, e) \/ Occurs(t, e)
         /\ /\ Distinct(s) /\ Distinct(t)
            /\ \A e \in T : ~(Occurs(s, e) /\ Occurs(t, e))
            => Distinct(s \o t)
<1>1. /\ s \o t \in Seq(T) /\ Len(s \o t) = Len(s) + Len(t)
      /\ \A i \in 1..(Len(s) + Len(t)) :
           (s \o t)[i] = IF i <= Len(s) THEN s[i] ELSE t[i - Len(s)]
  BY ConcatProperties
<1>2. /\ DOMAIN s = 1..Len(s) /\ DOMAIN t = 1..Len(t)
      /\ DOMAIN (s \o t) = 1..(Len(s) + Len(t))
      /\ Len(s) \in Nat /\ Len(t) \in Nat
  BY <1>1, LenProperties
<1>3. \A i \in 1..Len(s) : i \in 1..(Len(s) + Len(t)) /\ (s \o t)[i] = s[i]
  BY <1>1, <1>2
<1>4. \A i \in 1..Len(t) : Len(s) + i \in 1..(Len(s) + Len(t)) /\ (s \o t)[Len(s) + i] = t[i]
  BY <1>1, <1>2
<1>5. \A i \in 1..(Len(s) + Len(t)) : \/ i \in 1..Len(s) /\ (s \o t)[i] = s[i]
                                      \/ i - Len(s) \in 1..Len(t) /\ (s \o t)[i] = t[i - Len(s)]
  BY <1>1, <1>2
<1>6. ASSUME NEW e PROVE Occurs(s \o t, e) <=> Occurs(s, e) \/ Occurs(t, e)
  BY <1>2, <1>3, <1>4, <1>5 DEF Occurs
<1>7. ASSUME Distinct(s), Distinct(t), \A e \in T : ~(Occurs(s, e) /\ Occurs(t, e))
      PROVE  Distinct(s \o t)
  <2> SUFFICES ASSUME NEW i \in 1..(Len(s) + Len(t)), NEW j \in 1..(Len(s) + Len(t)),
                      (s \o t)[i] = (s \o t)[j]
               PROVE  i = j
    BY <1>2 DEF Distinct
  <2>1. \A m \in 1..Len(s), n \in 1..Len(t) : s[m] # t[n]
    BY <1>2, <1>7, ElementOfSeq DEF Occurs
  <2>2. i \in 1..Len(s) /\ j \in 1..Len(s) /\ s[i] = s[j] => i = j
    BY <1>2, <1>7 DEF Distinct
  <2>3. i - Len(s) \in 1..Len(t) /\ j - Len(s) \in 1..Len(t)
          /\ t[i - Len(s)] = t[j - Len(s)] => i - Len(s) = j - Len(s)
    BY <1>2, <1>7 DEF Distinct
  <2>4. i - Len(s) = j - Len(s) => i = j
    BY <1>2
  <2> QED BY <1>5, <2>1, <2>2, <2>3, <2>4
<1> QED BY <1>1, <1>6, <1>7

----------------------------------------------------------------------------
(* Induction: a set of numbers with 0, and with the next of each of its    *)
(* numbers, has all of them.                                               *)
LEMMA Induct ==
  ASSUME NEW T \in SUBSET Nat, 0 \in T, \A n \in T : n + 1 \in T
  PROVE  Nat = T
<1> DEFINE R == OpToRel(<, Nat)
<1> DEFINE S == Nat \ T
<1> SUFFICES ASSUME S # {} PROVE FALSE
  OBVIOUS
<1>1. IsWellFoundedOn(R, Nat)
  BY NatLessThanWellFounded
<1>2. PICK x \in S : \A y \in S : ~(<<y, x>> \in R)
  <2> HIDE DEF R
  <2> QED BY <1>1, WFMin
<1>3. x # 0 /\ x \in Nat
  OBVIOUS
<1>4. x - 1 \in Nat /\ (x - 1) + 1 = x /\ x - 1 < x
  BY <1>3
<1>5. x - 1 \notin S
  BY <1>2, <1>3, <1>4 DEF OpToRel
<1> QED BY <1>4, <1>5

(* A chain of steps from b: it exists, and whatever follows the steps from *)
(* b ends in the last of the sets Q that the steps lead through.           *)
Leads(n, V, Q, G, b) ==
  /\ n \in Nat /\ Q \in [0..n -> SUBSET V] /\ b \in Q[0]
  /\ \A i \in 1..n : \A x \in Q[i - 1] : G[i][x] \in Q[i]

LEMMA Chain ==
  ASSUME NEW n, NEW V, NEW Q, NEW G, NEW b, Leads(n, V, Q, G, b)
  PROVE  /\ \E f \in [0..n -> V] : f[0] = b /\ \A i \in 1..n : f[i] = G[i][f[i - 1]]
         /\ \A f : (f[0] = b /\ \A i \in 1..n : f[i - 1] \in V => f[i] = G[i][f[i - 1]])
                    => f[n] \in Q[n]
<1> USE DEF Leads
<1>1. \E f \in [0..n -> V] : f[0] = b /\ \A i \in 1..n : f[i] = G[i][f[i - 1]]
  <2> DEFINE T == {k \in Nat : k <= n =>
                    \E f \in [0..k -> V] : /\ f[0] = b /\ f[k] \in Q[k]
                                           /\ \A i \in 1..k : f[i] = G[i][f[i - 1]]}
  <2>1. 0 \in T
    <3> DEFINE f == [i \in 0..0 |-> b]
    <3>1. f \in [0..0 -> V] /\ f[0] = b /\ f[0] \in Q[0] /\ 1..0 = {}
      OBVIOUS
    <3> QED BY <3>1
  <2>2. ASSUME NEW k \in T PROVE k + 1 \in T
    <3>0. k \in Nat /\ k + 1 \in Nat
      OBVIOUS
    <3> SUFFICES ASSUME k + 1 <= n
                 PROVE  \E f \in [0..(k + 1) -> V] : /\ f[0] = b /\ f[k + 1] \in Q[k + 1]
                                  /\ \A i \in 1..(k + 1) : f[i] = G[i][f[i - 1]]
      OBVIOUS
    <3>1. k <= n /\ k \in 0..n /\ k + 1 \in 1..n /\ k + 1 \in 0..n /\ (k + 1) - 1 = k
      BY <3>0
    <3>2. PICK f \in [0..k -> V] : /\ f[0] = b /\ f[k] \in Q[k]
                                   /\ \A i \in 1..k : f[i] = G[i][f[i - 1]]
      BY <3>1
    <3> HIDE DEF T
    <3> DEFINE y == G[k + 1][f[k]]
               g == [i \in 0..(k + 1) |-> IF i = k + 1 THEN y ELSE f[i]]
    <3>3. y \in Q[k + 1] /\ y \in V
      <4>1. y \in Q[k + 1]
        BY <3>1, <3>2
      <4> QED BY <3>1, <4>1
    <3> HIDE DEF y
    <3>4. g \in [0..(k + 1) -> V] /\ g[0] = b /\ g[k + 1] = y
      BY <3>0, <3>2, <3>3
    <3>5. ASSUME NEW i \in 1..(k + 1) PROVE g[i] = G[i][g[i - 1]]
      <4>1. CASE i = k + 1
        <5>1. g[k] = f[k]
          BY <3>0
        <5> QED BY <3>1, <3>4, <4>1, <5>1 DEF y
      <4>2. CASE i # k + 1
        <5>1. i \in 1..k /\ i - 1 \in 0..k
          BY <3>0, <4>2
        <5>2. g[i] = f[i] /\ g[i - 1] = f[i - 1]
          BY <3>0, <5>1
        <5> QED BY <3>2, <5>1, <5>2
      <4> QED BY <4>1, <4>2
    <3> QED BY <3>3, <3>4, <3>5
  <2>3. T \in SUBSET Nat
    OBVIOUS
  <2> HIDE DEF T
  <2>4. n \in T
    BY <2>1, <2>2, <2>3, Induct
  <2> QED BY <2>4, SMTT(30) DEF T
<1>2. ASSUME NEW f, f[0] = b, \A i \in 1..n : f[i - 1] \in V => f[i] = G[i][f[i - 1]]
      PROVE  f[n] \in Q[n]
  <2> DEFINE T == {k \in Nat : k <= n => f[k] \in Q[k]}
  <2>1. 0 \in T
    BY <1>2
  <2>2. ASSUME NEW k \in T PROVE k + 1 \in T
    <3>0. k \in Nat /\ k + 1 \in Nat
      OBVIOUS
    <3> SUFFICES ASSUME k + 1 <= n PROVE f[k + 1] \in Q[k + 1]
      BY <3>0
    <3>1. k <= n /\ k \in 0..n /\ k + 1 \in 1..n /\ (k + 1) - 1 = k
      BY <3>0
    <3>2. f[k] \in Q[k] /\ f[k] \in V
      BY <3>1
    <3>3. f[k + 1] = G[k + 1][f[k]]
      BY <1>2, <3>1, <3>2
    <3> QED BY <3>1, <3>2, <3>3
  <2>3. T \in SUBSET Nat
    OBVIOUS
  <2> HIDE DEF T
  <2>4. n \in T
    BY <2>1, <2>2, <2>3, Induct
  <2> QED BY <2>4 DEF T
<1> QED BY <1>1, <1>2
============================================================================

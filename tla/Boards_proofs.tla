---------------------------- MODULE Boards_proofs ----------------------------
(***************************************************************************)
(* The operator boards, for every number of rows, every page size, offset  *)
(* and filter, and any number of writes between two queries of a reader.   *)
(*                                                                         *)
(* The first part is about sequences: what is picked from a list page by   *)
(* page, and where the rows are after one of them moved forward.  The      *)
(* second sorts the actions into kinds (a row or a case is written, a      *)
(* field is read for the rows of a page, a page is complete, a query of    *)
(* the dataset board) and shows the types.  Then follows one inductive     *)
(* invariant for each property.                                            *)
(***************************************************************************)
EXTENDS Boards, FiniteSetTheorems, SequenceTheorems, TLAPS

(***************************************************************************)
(* Positions.  First, Rank, Nth and Picked for any finite set of           *)
(* positions.                                                              *)
(***************************************************************************)

\* First of FollowUps is the least position of a set that is not empty.
LEMMA FirstIsLeast ==
    ASSUME NEW I \in SUBSET Nat, I # {}
    PROVE  First(I) \in I /\ \A j \in I : First(I) <= j
  <1> DEFINE Less == {p \in Nat \X Nat : p[1] < p[2]}
  <1>1. IsWellFoundedOn(Less, Nat)
    BY NatLessThanWellFounded, Zenon DEF OpToRel
  <1>2. \E i \in I : \A j \in I : ~(<<j, i>> \in Less)
    <2> HIDE DEF Less
    <2> QED BY <1>1, WFMin
  <1>3. PICK i \in I : \A j \in I : ~(<<j, i>> \in Less)
    BY <1>2
  <1>4. \A j \in I : i <= j
    <2> SUFFICES ASSUME NEW j \in I PROVE i <= j
      OBVIOUS
    <2>1. i \in Nat /\ j \in Nat
      OBVIOUS
    <2>2. ~(j < i)
      BY <1>3, <2>1
    <2> QED BY <2>1, <2>2
  <1> QED BY <1>4 DEF First

\* A set of positions of a list is finite.
LEMMA PositionsFinite ==
    ASSUME NEW n \in Nat, NEW I \in SUBSET (1..n)
    PROVE  /\ IsFiniteSet(I) /\ Cardinality(I) \in Nat /\ Cardinality(I) <= n
           /\ (Cardinality(I) = 0 <=> I = {})
  <1>1. IsFiniteSet(1..n) /\ Cardinality(1..n) = n
    BY FS_Interval
  <1>2. IsFiniteSet(I) /\ Cardinality(I) <= Cardinality(1..n)
    BY <1>1, FS_Subset
  <1> QED BY <1>1, <1>2, FS_CardinalityType, FS_EmptySet

\* Among the positions of a set the rank grows strictly.
LEMMA RankGrows ==
    ASSUME NEW n \in Nat, NEW I \in SUBSET (1..n), NEW i \in I
    PROVE  /\ Rank(I, i) \in 1..Cardinality(I)
           /\ \A j \in I : i < j => Rank(I, i) < Rank(I, j)
  <1>0. \A j \in I : j \in Int
    OBVIOUS
  <1>1. IsFiniteSet(I) /\ Cardinality(I) \in Nat
    BY PositionsFinite
  <1>2. /\ IsFiniteSet({x \in I : x <= i}) /\ Rank(I, i) <= Cardinality(I) /\ Rank(I, i) \in Nat
        /\ Rank(I, i) # 0
    <2>1. IsFiniteSet({x \in I : x <= i}) /\ Rank(I, i) <= Cardinality(I)
      BY <1>1, FS_Subset DEF Rank
    <2>2. i \in {x \in I : x <= i}
      BY <1>0
    <2>3. Rank(I, i) \in Nat /\ Rank(I, i) # 0
      BY <2>1, <2>2, FS_CardinalityType, FS_EmptySet DEF Rank
    <2> QED BY <2>1, <2>3
  <1>3. ASSUME NEW j \in I, i < j PROVE Rank(I, i) < Rank(I, j)
    <2> DEFINE X == {x \in I : x <= i}
               Y == {x \in I : x <= j}
    <2>0. i \in Int /\ j \in Int /\ \A x \in I : x <= i => x <= j
      BY <1>0, <1>3
    <2>1. X \subseteq Y /\ j \in Y /\ j \notin X
      <3>1. ~(j <= i) /\ j <= j
        BY <2>0, <1>3
      <3>2. j \in Y /\ j \notin X
        BY <3>1
      <3>3. X \subseteq Y
        BY <2>0
      <3> QED BY <3>2, <3>3
    <2>2. IsFiniteSet(Y)
      BY <1>1, FS_Subset
    <2>3. Cardinality(X) <= Cardinality(Y) /\ Cardinality(X) # Cardinality(Y)
      <3> HIDE DEF X, Y
      <3> QED BY <2>1, <2>2, FS_Subset
    <2>4. Cardinality(X) \in Nat /\ Cardinality(Y) \in Nat
      BY <2>2, <1>2, FS_CardinalityType
    <2> QED BY <2>3, <2>4 DEF Rank
  <1> QED BY <1>1, <1>2, <1>3

\* Every rank up to the size is that of exactly one position.
LEMMA NthFacts ==
    ASSUME NEW n \in Nat, NEW I \in SUBSET (1..n)
    PROVE  /\ \A m \in 1..Cardinality(I) : Nth(I, m) \in I /\ Rank(I, Nth(I, m)) = m
           /\ \A i \in I : Rank(I, i) \in 1..Cardinality(I) /\ Nth(I, Rank(I, i)) = i
           /\ \A i, j \in I : Rank(I, i) = Rank(I, j) => i = j
  <1> DEFINE f == [i \in I |-> Rank(I, i)]
             N == 1..Cardinality(I)
  <1>0. \A j \in I : j \in Int
    OBVIOUS
  <1>1. IsFiniteSet(I) /\ Cardinality(I) \in Nat
    BY PositionsFinite
  <1>2. \A i \in I : Rank(I, i) \in N
    BY RankGrows
  <1>3. \A i, j \in I : Rank(I, i) = Rank(I, j) => i = j
    <2> SUFFICES ASSUME NEW i \in I, NEW j \in I, i < j PROVE Rank(I, i) # Rank(I, j)
      BY <1>0
    <2>1. Rank(I, i) < Rank(I, j)
      BY RankGrows
    <2>2. Rank(I, i) \in Int /\ Rank(I, j) \in Int
      BY <1>2
    <2> QED BY <2>1, <2>2
  <1>4. f \in Injection(I, N)
    BY <1>2, <1>3 DEF Injection, IsInjective
  <1>5. IsFiniteSet(N) /\ Cardinality(N) = Cardinality(I)
    BY <1>1, FS_Interval
  <1>6. f \in Surjection(I, N)
    <2> HIDE DEF f, N
    <2> QED BY <1>4, <1>5, FS_Injection
  <1>7. \A m \in N : \E i \in I : Rank(I, i) = m
    BY <1>6 DEF Surjection
  <1>8. \A m \in N : Nth(I, m) \in I /\ Rank(I, Nth(I, m)) = m
    BY <1>7 DEF Nth
  <1> QED BY <1>2, <1>3, <1>8

\* What Picked returns: as many elements as there are positions, and an element
\* of the list for each of them.
LEMMA PickedFacts ==
    ASSUME NEW S, NEW list \in Seq(S), NEW I \in SUBSET DOMAIN list
    PROVE  /\ Cardinality(I) \in Nat
           /\ Picked(list, I) \in Seq(S)
           /\ Len(Picked(list, I)) = Cardinality(I)
           /\ DOMAIN Picked(list, I) = 1..Cardinality(I)
           /\ \A m \in 1..Cardinality(I) : Nth(I, m) \in I /\ Picked(list, I)[m] = list[Nth(I, m)]
           /\ Range(Picked(list, I)) = {list[i] : i \in I}
  <1>1. I \in SUBSET (1..Len(list)) /\ Len(list) \in Nat
    OBVIOUS
  <1>2. Cardinality(I) \in Nat
    BY <1>1, PositionsFinite
  <1>3. /\ \A m \in 1..Cardinality(I) : Nth(I, m) \in I
        /\ \A i \in I : Rank(I, i) \in 1..Cardinality(I) /\ Nth(I, Rank(I, i)) = i
    BY <1>1, NthFacts
  <1>4. /\ DOMAIN Picked(list, I) = 1..Cardinality(I)
        /\ \A m \in 1..Cardinality(I) : Picked(list, I)[m] = list[Nth(I, m)]
    BY DEF Picked
  <1>5. \A m \in 1..Cardinality(I) : list[Nth(I, m)] \in S
    BY <1>3, <1>1
  <1>6. Picked(list, I) \in Seq(S) /\ Len(Picked(list, I)) = Cardinality(I)
    BY <1>2, <1>5 DEF Picked
  <1>7. Range(Picked(list, I)) = {list[i] : i \in I}
    BY <1>3, <1>4 DEF Range
  <1> QED BY <1>2, <1>3, <1>4, <1>6, <1>7

\* The first element picked is that at the first position.
LEMMA NthFirst ==
    ASSUME NEW n \in Nat, NEW I \in SUBSET (1..n), I # {}
    PROVE  Nth(I, 1) = First(I)
  <1>1. First(I) \in I /\ \A j \in I : First(I) <= j
    BY FirstIsLeast
  <1>2. {j \in I : j <= First(I)} = {First(I)}
    <2>1. \A j \in I : j \in Int
      OBVIOUS
    <2>2. \A j \in I : j <= First(I) => j = First(I)
      <3> SUFFICES ASSUME NEW j \in I, j <= First(I) PROVE j = First(I)
        OBVIOUS
      <3>1. First(I) \in Int /\ j \in Int /\ First(I) <= j
        BY <1>1, <2>1
      <3> QED BY <3>1
    <2>3. First(I) <= First(I)
      BY <1>1, <2>1
    <2> QED BY <1>1, <2>2, <2>3
  <1>3. Rank(I, First(I)) = 1
    BY <1>2, FS_Singleton DEF Rank
  <1> QED BY <1>1, <1>3, NthFacts

\* All positions of a list.
LEMMA PickedAll ==
    ASSUME NEW S, NEW list \in Seq(S)
    PROVE  Picked(list, DOMAIN list) = list
  <1>0. DOMAIN list = 1..Len(list) /\ Len(list) \in Nat
    OBVIOUS
  <1> DEFINE I == 1..Len(list)
  <1>1. Cardinality(I) = Len(list)
    BY <1>0, FS_Interval
  <1>2. ASSUME NEW m \in I PROVE Nth(I, m) = m
    <2>1. {j \in I : j <= m} = 1..m
      BY <1>0
    <2>2. Cardinality(1..m) = m
      BY <1>0, FS_Interval
    <2>3. Rank(I, m) = m
      BY <2>1, <2>2 DEF Rank
    <2> QED BY <1>0, <2>3, NthFacts
  <1>3. Picked(list, I) = [m \in I |-> list[m]]
    BY <1>0, <1>1, <1>2 DEF Picked
  <1> QED BY <1>0, <1>3

\* Shifting a set of positions changes no rank.
LEMMA ShiftedCardinality ==
    ASSUME NEW a \in Nat, NEW X, IsFiniteSet(X), \A x \in X : x \in Int, NEW Y,
           \A x \in X : x + a \in Y, \A y \in Y : \E x \in X : y = x + a
    PROVE  IsFiniteSet(Y) /\ Cardinality(Y) = Cardinality(X)
  <1> DEFINE f == [x \in X |-> x + a]
  <1>2. \A x, y \in X : x + a = y + a => x = y
    <2> SUFFICES ASSUME NEW x \in X, NEW y \in X, x + a = y + a PROVE x = y
      OBVIOUS
    <2>1. x \in Int /\ y \in Int
      OBVIOUS
    <2> QED BY <2>1
  <1>3. f \in Bijection(X, Y)
    BY <1>2 DEF Bijection, Injection, IsInjective, Surjection
  <1>4. ExistsBijection(X, Y)
    BY <1>3 DEF ExistsBijection
  <1> QED BY <1>4, FS_Bijection

\* I are positions up to a and J positions from there to b, which are JJ when
\* they are counted from a on; U are both.
Consecutive(a, b, I, J, JJ, U) ==
    /\ U = I \cup J
    /\ a <= b
    /\ I \subseteq 1..a /\ J \subseteq (a + 1)..b /\ JJ \subseteq 1..(b - a)
    /\ \A i \in 1..(b - a) : i \in JJ <=> i + a \in J

\* The positions of two consecutive parts of a list: ranks.
LEMMA RankAppend ==
    ASSUME NEW a \in Nat, NEW b \in Nat, NEW I, NEW J, NEW JJ, NEW U, Consecutive(a, b, I, J, JJ, U)
    PROVE  /\ Cardinality(I) \in Nat /\ Cardinality(JJ) \in Nat
           /\ Cardinality(U) = Cardinality(I) + Cardinality(JJ)
           /\ \A m \in 1..Cardinality(I) : Nth(U, m) = Nth(I, m)
           /\ \A m \in 1..Cardinality(JJ) : Nth(U, Cardinality(I) + m) = Nth(JJ, m) + a
  <1> USE DEF Consecutive
  <1>0. /\ \A i \in I : i \in Int /\ 1 <= i /\ i <= a
        /\ \A j \in J : j \in Int /\ a < j /\ j <= b
        /\ \A j \in JJ : j \in Int /\ 1 <= j /\ j + a \in J /\ j <= b - a
    OBVIOUS
  <1>1. I \in SUBSET (1..b) /\ J \in SUBSET (1..b) /\ U \in SUBSET (1..b) /\ JJ \in SUBSET (1..(b - a)) /\ b - a \in Nat
    BY <1>0
  <1>2. /\ IsFiniteSet(I) /\ IsFiniteSet(J) /\ IsFiniteSet(JJ)
        /\ Cardinality(I) \in Nat /\ Cardinality(J) \in Nat /\ Cardinality(JJ) \in Nat
    BY <1>1, PositionsFinite
  <1>3. I \cap J = {}
    <2> SUFFICES ASSUME NEW x \in I, x \in J PROVE FALSE
      OBVIOUS
    <2>1. x \in Int /\ x <= a /\ a < x
      BY <1>0
    <2> QED BY <2>1
  <1>4. (\A x \in JJ : x + a \in J) /\ (\A y \in J : \E x \in JJ : y = x + a)
    <2>1. ASSUME NEW j \in J PROVE j - a \in JJ /\ (j - a) + a = j
      <3>1. j \in Int /\ a < j /\ j <= b
        BY <1>0
      <3>2. (j - a) + a = j /\ j - a \in 1..(b - a)
        BY <3>1
      <3> QED BY <3>2
    <2>2. \A x \in JJ : x + a \in J
      BY <1>0
    <2> QED BY <2>1, <2>2
  <1>c. PICK c \in Nat : c = b - a /\ JJ \in SUBSET (1..c)
    BY <1>1
  <1>5. Cardinality(J) = Cardinality(JJ)
    BY <1>0, <1>2, <1>4, ShiftedCardinality
  <1>6. Cardinality(U) = Cardinality(I) + Cardinality(JJ)
    <2>1. Cardinality(U) = Cardinality(I) + Cardinality(J) - Cardinality({})
      BY <1>2, <1>3, FS_Union
    <2> QED BY <2>1, <1>2, <1>5, FS_EmptySet
  <1>7. ASSUME NEW i \in I PROVE Rank(U, i) = Rank(I, i)
    <2>1. \A x \in J : ~(x <= i)
      <3> SUFFICES ASSUME NEW x \in J PROVE ~(x <= i)
        OBVIOUS
      <3>1. x \in Int /\ a < x /\ i \in Int /\ i <= a
        BY <1>0
      <3> QED BY <3>1
    <2>2. {x \in U : x <= i} = {x \in I : x <= i}
      BY <2>1
    <2> QED BY <2>2 DEF Rank
  <1>8. ASSUME NEW j \in JJ PROVE Rank(U, j + a) = Cardinality(I) + Rank(JJ, j)
    <2> DEFINE X == {x \in JJ : x <= j}
               Y == {x \in J : x <= j + a}
    <2>0. j \in Int /\ 1 <= j
      BY <1>0
    <2>1. (\A x \in X : x + a \in Y) /\ (\A y \in Y : \E x \in X : y = x + a)
      <3>1. ASSUME NEW x \in JJ PROVE x <= j <=> x + a <= j + a
        <4>1. x \in Int
          BY <1>0
        <4> QED BY <4>1, <2>0
      <3> QED BY <3>1, <1>4
    <2>2. X \in SUBSET (1..c)
      BY <1>c
    <2>3. IsFiniteSet(Y) /\ Cardinality(Y) = Cardinality(X)
      <3>1. IsFiniteSet(X) /\ \A x \in X : x \in Int
        BY <1>0, <1>2, FS_Subset
      <3> HIDE DEF X, Y
      <3> QED BY <2>1, <3>1, ShiftedCardinality
    <2>4. \A x \in I : x <= j + a
      <3> SUFFICES ASSUME NEW x \in I PROVE x <= j + a
        OBVIOUS
      <3>1. x \in Int /\ x <= a
        BY <1>0
      <3> QED BY <3>1, <2>0
    <2>5. {x \in U : x <= j + a} = I \cup Y
      BY <2>4
    <2>6. I \cap Y = {}
      BY <1>3
    <2>7. Cardinality(I \cup Y) = Cardinality(I) + Cardinality(Y) - Cardinality({})
      <3> HIDE DEF Y
      <3> QED BY <2>3, <2>6, <1>2, FS_Union
    <2>8. Cardinality(X) \in Nat
      <3> HIDE DEF X
      <3> QED BY <2>2, PositionsFinite
    <2>9. Cardinality(I \cup Y) = Cardinality(I) + Cardinality(X)
      BY <2>3, <2>7, <2>8, <1>2, FS_EmptySet
    <2> QED BY <2>5, <2>9 DEF Rank
  <1>9. ASSUME NEW m \in 1..Cardinality(I) PROVE Nth(U, m) = Nth(I, m)
    <2>1. Nth(I, m) \in I /\ Rank(I, Nth(I, m)) = m
      BY NthFacts
    <2>2. Nth(I, m) \in U /\ Rank(U, Nth(I, m)) = m
      BY <2>1, <1>7
    <2>3. Nth(U, Rank(U, Nth(I, m))) = Nth(I, m)
      <3> QED BY <1>1, <2>2, NthFacts
    <2> QED BY <2>2, <2>3
  <1>10. ASSUME NEW m \in 1..Cardinality(JJ) PROVE Nth(U, Cardinality(I) + m) = Nth(JJ, m) + a
    <2>1. Nth(JJ, m) \in JJ /\ Rank(JJ, Nth(JJ, m)) = m
      BY <1>c, NthFacts
    <2>2. Nth(JJ, m) + a \in U /\ Rank(U, Nth(JJ, m) + a) = Cardinality(I) + m
      BY <2>1, <1>8, <1>0
    <2>3. Nth(U, Rank(U, Nth(JJ, m) + a)) = Nth(JJ, m) + a
      <3> QED BY <1>1, <2>2, NthFacts
    <2> QED BY <2>2, <2>3
  <1> QED BY <1>2, <1>6, <1>9, <1>10

\* What is picked from a list and from the part behind it is picked from the
\* longer list: the reason why a scan may filter page by page.
LEMMA PickedAppend ==
    ASSUME NEW S, NEW list \in Seq(S), NEW a \in Nat, NEW b \in Nat, b <= Len(list),
           NEW I, NEW J, NEW JJ, NEW U, Consecutive(a, b, I, J, JJ, U)
    PROVE  Picked(list, U) = Picked(list, I) \o Picked(SubSeq(list, a + 1, b), JJ)
  <1>0. /\ Cardinality(I) \in Nat /\ Cardinality(JJ) \in Nat
        /\ Cardinality(U) = Cardinality(I) + Cardinality(JJ)
        /\ \A x \in 1..Cardinality(I) : Nth(U, x) = Nth(I, x)
        /\ \A x \in 1..Cardinality(JJ) : Nth(U, Cardinality(I) + x) = Nth(JJ, x) + a
    BY RankAppend
  <1> DEFINE part == SubSeq(list, a + 1, b)
             P == Picked(list, I)
             Q == Picked(part, JJ)
             n == Cardinality(I)
             m == Cardinality(JJ)
  <1>1. /\ n \in Nat /\ m \in Nat /\ Cardinality(U) = n + m
        /\ \A x \in 1..n : Nth(U, x) = Nth(I, x)
        /\ \A x \in 1..m : Nth(U, n + x) = Nth(JJ, x) + a
    BY <1>0
  <1> USE DEF Consecutive
  <1>2. part \in Seq(S) /\ Len(part) = b - a /\ DOMAIN part = 1..(b - a) /\ \A x \in 1..(b - a) : part[x] = list[x + a]
    OBVIOUS
  <1>3. I \in SUBSET DOMAIN list /\ JJ \in SUBSET DOMAIN part
    BY <1>2
  <1>4. /\ P \in Seq(S) /\ Len(P) = n /\ DOMAIN P = 1..n /\ \A x \in 1..n : P[x] = list[Nth(I, x)]
    BY <1>3, PickedFacts
  <1>5. /\ Q \in Seq(S) /\ Len(Q) = m /\ DOMAIN Q = 1..m
        /\ \A x \in 1..m : Nth(JJ, x) \in JJ /\ Q[x] = part[Nth(JJ, x)]
    <2> HIDE DEF part
    <2> QED BY <1>2, <1>3, PickedFacts
  <1>6. \A x \in 1..m : Q[x] = list[Nth(JJ, x) + a]
    BY <1>2, <1>5
  <1>7. Picked(list, U) = [x \in 1..(n + m) |-> list[Nth(U, x)]]
    BY <1>1 DEF Picked
  <1> HIDE DEF P, Q, n, m, part
  <1>8. /\ P \o Q \in Seq(S) /\ Len(P \o Q) = n + m
        /\ \A x \in 1..(n + m) : (P \o Q)[x] = IF x <= n THEN P[x] ELSE Q[x - n]
    <2>1. /\ P \o Q \in Seq(S) /\ Len(P \o Q) = Len(P) + Len(Q)
          /\ \A x \in 1..Len(P) + Len(Q) : (P \o Q)[x] = IF x <= Len(P) THEN P[x] ELSE Q[x - Len(P)]
      BY <1>4, <1>5, ConcatProperties, Zenon
    <2> QED BY <2>1, <1>4, <1>5, Zenon
  <1>8a. P \o Q = [x \in 1..(n + m) |-> (P \o Q)[x]]
    <2> DEFINE R == P \o Q
    <2>1. R \in Seq(S) /\ Len(R) = n + m
      BY <1>8
    <2> HIDE DEF R
    <2>2. R = [x \in 1..(n + m) |-> R[x]]
      BY <2>1, <1>1
    <2> QED BY <2>2 DEF R
  <1>9. ASSUME NEW x \in 1..(n + m) PROVE list[Nth(U, x)] = IF x <= n THEN P[x] ELSE Q[x - n]
    <2>1. CASE x <= n
      <3>1. x \in 1..n
        BY <2>1, <1>1
      <3> QED BY <3>1, <2>1, <1>1, <1>4
    <2>2. CASE ~(x <= n)
      <3>1. x - n \in 1..m /\ n + (x - n) = x
        BY <2>2, <1>1
      <3>2. Nth(U, x) = Nth(JJ, x - n) + a
        BY <3>1, <1>1
      <3> QED BY <3>1, <3>2, <2>2, <1>6
    <2> QED BY <2>1, <2>2
  <1>10. Picked(list, U) = P \o Q
    BY <1>7, <1>8, <1>8a, <1>9
  <1> QED BY <1>10 DEF P, Q, part

(***************************************************************************)
(* Pages, writes and summaries.                                            *)
(***************************************************************************)

\* p is the page of a list of elements of S at offset a with limit l.
PageOf(S, list, a, l, p) == list \in Seq(S) /\ a \in Nat /\ l \in Nat /\ p = Page(list, a, l)

\* What Page returns: the rows behind the offset, whether there are more, and
\* where they begin.
LEMMA PageIs ==
    ASSUME NEW S, NEW list, NEW a, NEW l, NEW p, PageOf(S, list, a, l, p)
    PROVE  /\ p.rows \in Seq(S) /\ DOMAIN p.rows = 1..Len(p.rows) /\ Len(p.rows) \in Nat
           /\ p.rows = SubSeq(list, a + 1, Least(Len(list), a + l))
           /\ p.more \in BOOLEAN /\ (p.more <=> Len(list) > a + l)
           /\ p.next = a + l
           /\ p \in [rows : Seq(S), more : BOOLEAN, next : Nat]
           /\ \A i \in DOMAIN p.rows : a + i \in DOMAIN list /\ p.rows[i] = list[a + i]
           /\ \A i \in DOMAIN list : a < i /\ (p.more => i <= a + l) =>
                 i - a \in DOMAIN p.rows /\ p.rows[i - a] = list[i]
  <1>0. list \in Seq(S) /\ a \in Nat /\ l \in Nat /\ p = Page(list, a, l)
    BY DEF PageOf
  <1> DEFINE b == Least(Len(list), a + l)
             R == SubSeq(list, a + 1, b)
  <1>1. p = [rows |-> R, more |-> Len(list) > a + l, next |-> a + l]
    BY <1>0 DEF Page
  <1>2. b \in Nat /\ b <= Len(list) /\ b <= a + l /\ (b = Len(list) \/ b = a + l)
        /\ (b = Len(list) \/ Len(list) > a + l)
    BY <1>0 DEF Least
  <1>3. \A i \in (a + 1)..b : list[i] \in S
    BY <1>0, <1>2
  <1>4. /\ R \in Seq(S) /\ Len(R) = (IF a + 1 <= b THEN b - (a + 1) + 1 ELSE 0)
        /\ \A i \in 1..(b - (a + 1) + 1) : R[i] = list[(a + 1) + i - 1]
    <2> HIDE DEF b
    <2> QED BY <1>0, <1>2, <1>3, SubSeqProperties, a + 1 \in Int, b \in Int
  <1> HIDE DEF b, R
  <1>5. DOMAIN R = 1..Len(R)
    BY <1>0, <1>4
  <1>6. \A i \in DOMAIN R : a + i \in DOMAIN list /\ R[i] = list[a + i]
    <2> SUFFICES ASSUME NEW i \in DOMAIN R PROVE a + i \in DOMAIN list /\ R[i] = list[a + i]
      OBVIOUS
    <2>1. i \in Nat /\ 1 <= i /\ i <= Len(R)
      BY <1>0, <1>4, <1>5
    <2>2. i <= b - (a + 1) + 1
      BY <1>0, <1>2, <1>4, <2>1
    <2>3. i \in 1..(b - (a + 1) + 1) /\ (a + 1) + i - 1 = a + i /\ a + i \in 1..Len(list)
      BY <1>0, <1>2, <2>1, <2>2
    <2> QED BY <1>0, <1>4, <2>3
  <1>7. ASSUME NEW i \in DOMAIN list, a < i, Len(list) > a + l => i <= a + l
        PROVE  i - a \in DOMAIN R /\ R[i - a] = list[i]
    <2>1. i \in Nat /\ i <= Len(list)
      BY <1>0
    <2>2. i <= b
      BY <1>0, <1>7, <1>2, <2>1 DEF b, Least
    <2>a. a + 1 <= b /\ Len(R) = b - (a + 1) + 1
      BY <1>0, <1>2, <1>4, <1>7, <2>1, <2>2
    <2>3. i - a \in 1..(b - (a + 1) + 1) /\ (a + 1) + (i - a) - 1 = i
      BY <1>0, <1>2, <1>7, <2>1, <2>2
    <2>4. i - a \in DOMAIN R
      BY <1>0, <1>5, <2>a, <2>3
    <2> QED BY <1>0, <1>4, <2>3, <2>4
  <1>8. p.rows = R /\ p.more = (Len(list) > a + l) /\ p.next = a + l
    BY <1>1
  <1>9. (Len(list) > a + l) \in BOOLEAN
    OBVIOUS
  <1>10. R = SubSeq(list, a + 1, Least(Len(list), a + l))
    BY DEF R, b
  <1>11. p \in [rows : Seq(S), more : BOOLEAN, next : Nat]
    <2>1. PICK y \in BOOLEAN : y = (Len(list) > a + l)
      BY <1>9
    <2>2. p = [rows |-> R, more |-> y, next |-> a + l] /\ a + l \in Nat
      BY <1>0, <1>1, <2>1
    <2> QED BY <1>4, <2>2
  <1>12. Len(R) \in Nat
    BY <1>4
  <1> QED BY <1>4, <1>5, <1>6, <1>7, <1>8, <1>9, <1>10, <1>11, <1>12

\* Position n of the list holds x, or x is new and comes behind its end.
PlaceOf(x, n, list) ==
    \/ n \in DOMAIN list /\ list[n] = x
    \/ n = Len(list) + 1 /\ x \notin Range(list)

\* Where a row was before a write moved the one at n to l.
Was(n, l, i) == IF l < i /\ i <= n THEN i - 1 ELSE i

\* Move keeps the rows other than x in their order, each at its place or one
\* behind it.
LEMMA MoveFacts ==
    ASSUME NEW S, NEW list \in Seq(S), NEW x \in S, NEW n \in 1..(Len(list) + 1), NEW l \in 1..n
    PROVE  /\ Move(x, n, l, list) \in Seq(S)
           /\ DOMAIN Move(x, n, l, list) = 1..Greatest(n, Len(list))
           /\ Move(x, n, l, list)[l] = x
           /\ \A i \in DOMAIN Move(x, n, l, list) : i # l =>
                 Was(n, l, i) \in DOMAIN list /\ Move(x, n, l, list)[i] = list[Was(n, l, i)]
  <1> DEFINE m == Greatest(n, Len(list))
  <1>1. /\ Len(list) \in Nat /\ n \in Nat /\ m \in Nat /\ m >= 1 /\ m >= n /\ m >= Len(list)
        /\ (m = n \/ m = Len(list)) /\ l \in Nat /\ 1 <= l /\ l <= n
    BY DEF Greatest
  <1>2. \A i \in 1..m : i # l => Was(n, l, i) \in 1..Len(list)
    BY <1>1 DEF Was
  <1>3. Move(x, n, l, list) = [i \in 1..m |-> IF i = l THEN x ELSE list[Was(n, l, i)]]
    BY DEF Move, Was
  <1>4. \A i \in 1..m : (IF i = l THEN x ELSE list[Was(n, l, i)]) \in S
    BY <1>2
  <1> HIDE DEF m
  <1>5. Move(x, n, l, list) \in Seq(S)
    BY <1>1, <1>3, <1>4
  <1>6. DOMAIN Move(x, n, l, list) = 1..m /\ Move(x, n, l, list)[l] = x
    BY <1>1, <1>3
  <1>7. \A i \in 1..m : i # l => Move(x, n, l, list)[i] = list[Was(n, l, i)]
    BY <1>3
  <1> QED BY <1>2, <1>5, <1>6, <1>7 DEF m

\* A write of x leaves a listing a listing.
LEMMA MoveListing ==
    ASSUME NEW S, NEW list \in Seq(S), \A i, j \in DOMAIN list : list[i] = list[j] => i = j,
           NEW x \in S, NEW n, PlaceOf(x, n, list), NEW l \in 1..n, NEW new, new = Move(x, n, l, list)
    PROVE  /\ new \in Seq(S) /\ Range(new) = Range(list) \cup {x}
           /\ \A i, j \in DOMAIN new : new[i] = new[j] => i = j
           /\ \A i \in DOMAIN new : new[i] # x =>
                 \E j \in DOMAIN list : list[j] = new[i] /\ j <= i /\ j = Was(n, l, i) /\ i # l
           /\ \A j \in DOMAIN list : list[j] # x =>
                 \E i \in DOMAIN new : list[j] = new[i] /\ j <= i /\ j = Was(n, l, i) /\ i # l
           /\ \A i, j \in Int : i < j /\ i # l => Was(n, l, i) < Was(n, l, j)
  <1>1. /\ n \in 1..(Len(list) + 1) /\ Len(list) \in Nat /\ DOMAIN list = 1..Len(list)
        /\ n \in Int /\ l \in Int /\ 1 <= l /\ l <= n
    BY DEF PlaceOf
  <1>2. /\ new \in Seq(S) /\ DOMAIN new = 1..Greatest(n, Len(list)) /\ new[l] = x
        /\ \A i \in DOMAIN new : i # l => Was(n, l, i) \in DOMAIN list /\ new[i] = list[Was(n, l, i)]
    BY <1>1, MoveFacts
  <1>3. \A i, j \in Int : i < j /\ i # l => Was(n, l, i) < Was(n, l, j)
    BY <1>1 DEF Was
  <1>4. \A i \in DOMAIN new : /\ i \in Int /\ i >= 1 /\ Was(n, l, i) \in Int /\ Was(n, l, i) <= i
                              /\ i # l => Was(n, l, i) # n
    BY <1>1, <1>2 DEF Was
  <1>5. \A i \in DOMAIN new : i # l => new[i] # x
    <2> SUFFICES ASSUME NEW i \in DOMAIN new, i # l, new[i] = x PROVE FALSE
      OBVIOUS
    <2>1. Was(n, l, i) \in DOMAIN list /\ list[Was(n, l, i)] = x /\ Was(n, l, i) # n
      BY <1>2, <1>4
    <2> QED BY <2>1 DEF PlaceOf, Range
  <1>6. ASSUME NEW i \in DOMAIN new, NEW j \in DOMAIN new, new[i] = new[j], i < j PROVE FALSE
    <2>1. i \in Int /\ j \in Int /\ i # j
      BY <1>4, <1>6
    <2>2. i # l /\ j # l
      BY <1>2, <1>5, <1>6, <2>1
    <2>3. Was(n, l, i) = Was(n, l, j)
      BY <1>2, <1>6, <2>2
    <2> QED BY <1>3, <1>4, <1>6, <2>2, <2>3
  <1>7. \A i, j \in DOMAIN new : new[i] = new[j] => i = j
    BY <1>4, <1>6
  <1>8. \A i \in DOMAIN new : new[i] # x =>
            \E j \in DOMAIN list : list[j] = new[i] /\ j <= i /\ j = Was(n, l, i) /\ i # l
    BY <1>2, <1>4
  <1>9. ASSUME NEW j \in DOMAIN list, list[j] # x
        PROVE  \E i \in DOMAIN new : list[j] = new[i] /\ j <= i /\ j = Was(n, l, i) /\ i # l
    <2>1. CASE l <= j /\ j < n
      <3>1. j + 1 \in DOMAIN new /\ Was(n, l, j + 1) = j /\ j + 1 # l /\ j <= j + 1
        BY <2>1, <1>1, <1>2 DEF Was, Greatest
      <3> QED BY <3>1, <1>2
    <2>2. CASE ~(l <= j /\ j < n)
      <3>1. j # n
        BY <1>9, <1>1 DEF PlaceOf
      <3>2. j \in DOMAIN new /\ Was(n, l, j) = j /\ j # l /\ j <= j
        BY <2>2, <3>1, <1>1, <1>2 DEF Was, Greatest
      <3> QED BY <3>2, <1>2
    <2> QED BY <2>1, <2>2
  <1>10. Range(new) = Range(list) \cup {x}
    <2>1. l \in DOMAIN new
      BY <1>1, <1>2 DEF Greatest
    <2> QED BY <1>2, <1>8, <1>9, <2>1 DEF Range
  <1> QED BY <1>2, <1>3, <1>7, <1>8, <1>9, <1>10

\* The counts of a queue tell whether it has a case, and an open one, and its
\* latest case is its first.
LEMMA SummaryFacts ==
    ASSUME NEW cs \in Seq(Cases), NEW Q \in SUBSET DOMAIN cs, NEW s, s = Summary(cs, Q)
    PROVE  /\ s.total \in Nat /\ s.open \in Nat
           /\ s.total = Cardinality(Q) /\ s.open = Cardinality(OpenCases(cs, Q))
           /\ s.total > 0 <=> Q # {}
           /\ s.open > 0 <=> \E i \in Q : cs[i].status = "open"
           /\ Q # {} => /\ First(Q) \in Q
                        /\ s.latest = cs[First(Q)].id /\ s.status = cs[First(Q)].status
           /\ Q = {} => s = NoSummary
  <1>1. Q \in SUBSET (1..Len(cs)) /\ Len(cs) \in Nat /\ OpenCases(cs, Q) \in SUBSET (1..Len(cs))
    BY DEF OpenCases
  <1>2. Cardinality(Q) \in Nat /\ (Cardinality(Q) = 0 <=> Q = {})
    BY <1>1, PositionsFinite
  <1>3. /\ Cardinality(OpenCases(cs, Q)) \in Nat
        /\ Cardinality(OpenCases(cs, Q)) = 0 <=> OpenCases(cs, Q) = {}
    BY <1>1, PositionsFinite
  <1>4. CASE Q = {}
    <2>1. s = NoSummary /\ OpenCases(cs, Q) = {}
      BY <1>4 DEF Summary, OpenCases
    <2>2. s.total = 0 /\ s.open = 0
      BY <2>1 DEF NoSummary
    <2> QED BY <1>2, <1>3, <1>4, <2>1, <2>2
  <1>5. CASE Q # {}
    <2>1. First(Q) \in Q
      BY <1>1, <1>5, FirstIsLeast
    <2>2. s = [total |-> Cardinality(Q), open |-> Cardinality(OpenCases(cs, Q)),
               latest |-> cs[First(Q)].id, status |-> cs[First(Q)].status]
      BY <1>5 DEF Summary
    <2>3. OpenCases(cs, Q) # {} <=> \E i \in Q : cs[i].status = "open"
      BY DEF OpenCases
    <2> QED BY <1>2, <1>3, <1>5, <2>1, <2>2, <2>3
  <1> QED BY <1>4, <1>5

(***************************************************************************)
(* Types.                                                                  *)
(***************************************************************************)

Summaries == [total : Nat, open : Nat, latest : Nat, status : {"none", "open", "closed"}]

AllKeys == Runs \cup EvalCases \cup Datasets

Row ==
    [id : AllKeys, linked : Summaries, compare : Summaries, queue : Summaries, backed : Summaries,
     uncovered : Nat, final : BOOLEAN, latest : Runs \cup {"none"}, hasReport : BOOLEAN]

RunMet == [run : Runs \cup {"none"}, final : BOOLEAN]

\* What a request asks for.
AskOK(q) ==
    /\ q.kind \in {"none", "walk", "caseQueue", "reports", "runs", "run", "evalCases", "datasets"}
    /\ q.offset \in Nat
    /\ q.keys \in Seq(Keys(TableOf(q)))
    /\ q.keys # <<>> => /\ ~Filtered(q) /\ q.offset = 0
                        /\ q.kind \in {"reports", "run", "evalCases", "datasets"}
    /\ q.kind = "run" => q.keys # <<>>
    /\ q.kind \in {"walk", "caseQueue"} => ~Filtered(q)
    /\ q.kind = "walk" => q.offset = 0
    /\ q.kind = "caseQueue" => q.dataset \in Datasets
    /\ q.kind # "caseQueue" => q.dataset = "none"

StoresOK ==
    /\ DOMAIN table = Tables /\ \A t \in Tables : IsListing(t, table[t])
    /\ finished \in SUBSET Runs
    /\ cases \in Seq(Cases) /\ \A i \in DOMAIN cases : Exists(table, cases[i])
    /\ changes \in Nat
    /\ DOMAIN touched = Tables /\ \A t \in Tables : touched[t] \in SUBSET Keys(t)
    /\ stale \in BOOLEAN

ReaderOK ==
    /\ AskOK(ask)
    /\ at \in Nat
    /\ page \in [rows : Seq(AllKeys), more : BOOLEAN, next : Nat]
    /\ rows \in Seq(Row) /\ matched \in Seq(Row)
    /\ k \in Nat \ {0}
    /\ latest \in [Datasets -> RunMet]
    /\ ids \in [Datasets -> Seq(Runs)]

\* Which query belongs to which kind of request.
ControlOK ==
    /\ pc \in {"idle", "list", "get", "linked", "compare", "bad", "items", "report", "latest", "ids",
               "counts", "newest", "backed", "cases", "done"}
    /\ pc = "idle" <=> ask.kind = "none"
    /\ pc = "list" => ask.keys = <<>> /\ ask.kind \in {"walk", "reports", "runs", "evalCases", "datasets"}
    /\ pc = "get" => ask.keys # <<>>
    /\ pc = "linked" => ask.kind \in {"walk", "reports", "runs", "run", "evalCases", "datasets"}
    /\ pc = "compare" => ask.kind \in {"walk", "reports"}
    /\ pc = "bad" => ask.kind \in {"walk", "reports", "datasets"}
    /\ pc \in {"items", "report"} => ask.kind \in {"runs", "run", "datasets"}
    /\ pc \in {"latest", "counts", "newest", "backed"} => ask.kind = "datasets"
    /\ pc = "ids" => ask.kind \in {"datasets", "caseQueue"}
    /\ pc = "cases" => ask.kind = "caseQueue"

\* The tables hold their own keys, each once, every case names rows that exist,
\* and the reader gathers rows, runs and reports.
TypeOK == StoresOK /\ ReaderOK /\ ControlOK

LEMMA SummaryType ==
    ASSUME NEW cs \in Seq(Cases), NEW Q \in SUBSET DOMAIN cs
    PROVE  Summary(cs, Q) \in Summaries
  <1>1. PICK s : s = Summary(cs, Q)
    OBVIOUS
  <1>2. /\ s.total \in Nat /\ s.open \in Nat
        /\ Q # {} => /\ First(Q) \in Q
                     /\ s.latest = cs[First(Q)].id /\ s.status = cs[First(Q)].status
        /\ Q = {} => s = NoSummary
    BY <1>1, SummaryFacts
  <1>3. CASE Q = {}
    BY <1>1, <1>2, <1>3 DEF NoSummary, NoCase, Summaries
  <1>4. CASE Q # {}
    <2>1. cs[First(Q)] \in Cases
      BY <1>2, <1>4
    <2>2. cs[First(Q)].id \in Nat /\ cs[First(Q)].status \in {"open", "closed"}
      BY <2>1, ConstantsAssumption DEF Cases, CaseRow, CaseIds
    <2>3. s = [total |-> Cardinality(Q), open |-> Cardinality(OpenCases(cs, Q)),
               latest |-> cs[First(Q)].id, status |-> cs[First(Q)].status]
      BY <1>1, <1>4 DEF Summary
    <2> QED BY <1>1, <1>2, <2>2, <2>3 DEF Summaries
  <1> QED BY <1>3, <1>4

\* The summaries and counts that a request reads.
LEMMA ReadTypes ==
    ASSUME NEW cs \in Seq(Cases)
    PROVE  /\ \A x : SummarizeBySourceEvalReportIDs(cs, x) \in Summaries
           /\ \A x : SummarizeCompareOriginBySourceEvalReportIDs(cs, x) \in Summaries
           /\ \A x : SummarizeBySourceEvalCaseIDs(cs, x) \in Summaries
           /\ \A x : SummarizeBySourceEvalRunIDs(cs, x) \in Summaries
           /\ \A r \in Runs : Cardinality(Uncovered(cs, BadCases[r])) \in Nat
           /\ Cardinality(Uncovered(cs, {})) \in Nat
  <1>1. ASSUME NEW r \in Runs PROVE Cardinality(Uncovered(cs, BadCases[r])) \in Nat
    <2>1. IsFiniteSet(BadCases[r])
      BY ConstantsAssumption
    <2>2. Uncovered(cs, BadCases[r]) \in SUBSET BadCases[r]
      BY DEF Uncovered
    <2> QED BY <2>1, <2>2, FS_Subset, FS_CardinalityType
  <1>2. Uncovered(cs, {}) = {}
    BY DEF Uncovered
  <1>3. Cardinality(Uncovered(cs, {})) \in Nat
    <2>1. Cardinality(Uncovered(cs, {})) = 0
      BY <1>2, FS_EmptySet, Zenon
    <2> QED BY <2>1
  <1>4. \A x : SummarizeBySourceEvalReportIDs(cs, x) \in Summaries
    BY SummaryType DEF SummarizeBySourceEvalReportIDs
  <1>5. \A x : SummarizeCompareOriginBySourceEvalReportIDs(cs, x) \in Summaries
    BY SummaryType DEF SummarizeCompareOriginBySourceEvalReportIDs
  <1>6. \A x : SummarizeBySourceEvalCaseIDs(cs, x) \in Summaries
    BY SummaryType DEF SummarizeBySourceEvalCaseIDs
  <1>7. \A x : SummarizeBySourceEvalRunIDs(cs, x) \in Summaries
    BY SummaryType DEF SummarizeBySourceEvalRunIDs
  <1> QED BY <1>1, <1>3, <1>4, <1>5, <1>6, <1>7

\* The requests of a client are such requests.
LEMMA RequestsOK == AskOK(NoAsk) /\ \A q \in Requests : AskOK(q) /\ q.kind # "none"
  <1> USE DEF AskOK, TableOf, Keys, Filtered, Ask
  <1>0. Offsets \subseteq Nat
    BY ConstantsAssumption
  <1>1. AskOK(NoAsk)
    BY DEF NoAsk
  <1>2. \A n, b \in Filters : \A o \in Offsets :
            AskOK(Ask("reports", <<>>, n, b, o, "none"))
    BY <1>0
  <1>3. \A t \in {"runs", "evalCases", "datasets"} : \A n \in Filters : \A o \in Offsets :
            AskOK(Ask(t, <<>>, n, BOOLEAN, o, "none"))
    BY <1>0
  <1>4. AskOK(Ask("walk", <<>>, BOOLEAN, BOOLEAN, 0, "none"))
    OBVIOUS
  <1>5. \A d \in Datasets : \A o \in Offsets : AskOK(Ask("caseQueue", <<>>, BOOLEAN, BOOLEAN, o, d))
    BY <1>0
  <1>6. \A r, s \in Runs : AskOK(Ask("reports", <<r, s>>, BOOLEAN, BOOLEAN, 0, "none"))
    OBVIOUS
  <1>7. \A r \in Runs : /\ AskOK(Ask("reports", <<r>>, BOOLEAN, BOOLEAN, 0, "none"))
                       /\ AskOK(Ask("run", <<r>>, BOOLEAN, BOOLEAN, 0, "none"))
    <2> SUFFICES ASSUME NEW r \in Runs
                 PROVE  /\ AskOK(Ask("reports", <<r>>, BOOLEAN, BOOLEAN, 0, "none"))
                        /\ AskOK(Ask("run", <<r>>, BOOLEAN, BOOLEAN, 0, "none"))
      OBVIOUS
    <2>1. AskOK(Ask("reports", <<r>>, BOOLEAN, BOOLEAN, 0, "none"))
      OBVIOUS
    <2>2. AskOK(Ask("run", <<r>>, BOOLEAN, BOOLEAN, 0, "none"))
      OBVIOUS
    <2> QED BY <2>1, <2>2
  <1>8. \A e \in EvalCases : AskOK(Ask("evalCases", <<e>>, BOOLEAN, BOOLEAN, 0, "none"))
    OBVIOUS
  <1>9. \A d \in Datasets : AskOK(Ask("datasets", <<d>>, BOOLEAN, BOOLEAN, 0, "none"))
    OBVIOUS
  <1>10. \A q \in Requests : q.kind # "none"
    BY DEF Requests
  <1> HIDE DEF AskOK, Ask
  <1>11. ASSUME NEW q \in Requests PROVE AskOK(q)
    <2> DEFINE R1 == {Ask("reports", <<>>, n, b, o, "none") : n \in Filters, b \in Filters, o \in Offsets}
               R2 == {Ask(t, <<>>, n, BOOLEAN, o, "none") :
                    t \in {"runs", "evalCases", "datasets"}, n \in Filters, o \in Offsets}
               R3 == {Ask("walk", <<>>, BOOLEAN, BOOLEAN, 0, "none")}
               R4 == {Ask("caseQueue", <<>>, BOOLEAN, BOOLEAN, o, d) : d \in Datasets, o \in Offsets}
               R5 == {Ask("reports", <<r, s>>, BOOLEAN, BOOLEAN, 0, "none") : r, s \in Runs}
               R6 == {Ask(t, <<r>>, BOOLEAN, BOOLEAN, 0, "none") : t \in {"reports", "run"}, r \in Runs}
               R7 == {Ask("evalCases", <<e>>, BOOLEAN, BOOLEAN, 0, "none") : e \in EvalCases}
               R8 == {Ask("datasets", <<d>>, BOOLEAN, BOOLEAN, 0, "none") : d \in Datasets}
    <2>0. q \in R1 \cup R2 \cup R3 \cup R4 \cup R5 \cup R6 \cup R7 \cup R8
      BY DEF Requests
    <2>1. CASE q \in R1
      BY <2>1, <1>2
    <2>2. CASE q \in R2
      BY <2>2, <1>3
    <2>3. CASE q \in R3
      BY <2>3, <1>4
    <2>4. CASE q \in R4
      BY <2>4, <1>5
    <2>5. CASE q \in R5
      <3>1. PICK r \in Runs, s \in Runs : q = Ask("reports", <<r, s>>, BOOLEAN, BOOLEAN, 0, "none")
        BY <2>5
      <3> QED BY <3>1, <1>6, Zenon
    <2>6. CASE q \in R6
      <3>1. PICK t \in {"reports", "run"}, r \in Runs : q = Ask(t, <<r>>, BOOLEAN, BOOLEAN, 0, "none")
        BY <2>6
      <3> QED BY <3>1, <1>7, Zenon
    <2>7. CASE q \in R7
      BY <2>7, <1>8
    <2>8. CASE q \in R8
      BY <2>8, <1>9
    <2> HIDE DEF R1, R2, R3, R4, R5, R6, R7, R8
    <2> QED BY <2>0, <2>1, <2>2, <2>3, <2>4, <2>5, <2>6, <2>7, <2>8
  <1> QED BY <1>1, <1>10, <1>11

(***************************************************************************)
(* The writes of others are of two sorts.                                  *)
(***************************************************************************)

readerVars == <<ask, pc, at, page, rows, k, matched, latest, ids, resp>>

\* A row of table t is written: it moves from n to l, and only a write of a run
\* decides whether that run is finished.
RowWrite(t, key, n, l) ==
    /\ t \in Tables /\ key \in Keys(t) /\ PlaceOf(key, n, table[t]) /\ l \in 1..n
    /\ table' = [table EXCEPT ![t] = Move(key, n, l, table[t])]
    /\ touched' = IF pc = "idle" THEN touched ELSE [touched EXCEPT ![t] = touched[t] \cup {key}]
    /\ finished' \in SUBSET Runs
    /\ \A r : (r \in finished' <=> r \in finished) \/ (t = "runs" /\ r = key)
    /\ changes' \in Nat
    /\ pc # "done"
    /\ UNCHANGED <<cases, stale>> /\ UNCHANGED readerVars

\* A case is written.
CaseWrite ==
    /\ cases' \in Seq(Cases) /\ \A i \in DOMAIN cases' : Exists(table, cases'[i])
    /\ stale' = (pc # "idle")
    /\ changes' \in Nat
    /\ pc # "done"
    /\ UNCHANGED <<table, finished, touched>> /\ UNCHANGED readerVars

LEMMA WriteRowKind ==
    ASSUME StoresOK, NEW t \in Tables, NEW key \in Keys(t), WriteRow(t, key),
           finished' \in SUBSET Runs,
           \A r : (r \in finished' <=> r \in finished) \/ (t = "runs" /\ r = key)
    PROVE  \E n, l \in Nat : RowWrite(t, key, n, l)
  <1>0. PICK n \in 1..Len(table[t]) + 1 : \E l \in 1..n :
            /\ IF Key(t, key) THEN n <= Len(table[t]) /\ table[t][n] = key ELSE n = Len(table[t]) + 1
            /\ table' = [table EXCEPT ![t] = Move(key, n, l, table[t])]
    BY DEF WriteRow
  <1>1. PICK l \in 1..n :
            /\ IF Key(t, key) THEN n <= Len(table[t]) /\ table[t][n] = key ELSE n = Len(table[t]) + 1
            /\ table' = [table EXCEPT ![t] = Move(key, n, l, table[t])]
    BY <1>0
  <1>2. table[t] \in Seq(Keys(t))
    BY DEF StoresOK, IsListing
  <1>3. PlaceOf(key, n, table[t]) /\ n \in Nat /\ l \in Nat
    BY <1>1, <1>2 DEF PlaceOf, Key
  <1>4. changes' \in Nat /\ pc # "done" /\ UNCHANGED readerVars /\ UNCHANGED <<cases, stale>>
    BY DEF WriteRow, Change, StoresOK, readerVars
  <1>5. touched' = IF pc = "idle" THEN touched ELSE [touched EXCEPT ![t] = touched[t] \cup {key}]
    BY DEF WriteRow
  <1> QED BY <1>1, <1>3, <1>4, <1>5 DEF RowWrite

LEMMA WriteCaseKind ==
    ASSUME StoresOK, NEW x \in Cases, Exists(table, x), NEW n \in 1..(Len(cases) + 1),
           WriteCase(Move(x, n, 1, cases))
    PROVE  CaseWrite
  <1>1. cases \in Seq(Cases)
    BY DEF StoresOK
  <1>2. /\ cases' \in Seq(Cases) /\ cases'[1] = x
        /\ \A i \in DOMAIN cases' : i # 1 => Was(n, 1, i) \in DOMAIN cases /\ cases'[i] = cases[Was(n, 1, i)]
    BY <1>1, MoveFacts DEF WriteCase
  <1>3. \A i \in DOMAIN cases' : Exists(table, cases'[i])
    BY <1>2 DEF StoresOK
  <1>4. /\ stale' = (pc # "idle") /\ changes' \in Nat /\ pc # "done"
        /\ UNCHANGED <<table, finished, touched>> /\ UNCHANGED readerVars
    BY DEF WriteCase, Change, StoresOK, readerVars
  <1> QED BY <1>2, <1>3, <1>4 DEF CaseWrite

LEMMA OthersKinds ==
    ASSUME StoresOK, Others
    PROVE  CaseWrite \/ \E t \in Tables : \E key \in Keys(t) : \E n, l \in Nat : RowWrite(t, key, n, l)
  <1> USE DEF StoresOK
  <1>1. ASSUME NEW r \in Runs, StartRun(r) \/ FinishRun(r) \/ RetryRun(r)
        PROVE  \E n, l \in Nat : RowWrite("runs", r, n, l)
    <2>1. "runs" \in Tables /\ r \in Keys("runs")
      BY DEF Tables, Keys
    <2>2. WriteRow("runs", r) /\ finished' \in SUBSET Runs /\ \A x : (x \in finished' <=> x \in finished) \/ x = r
      BY <1>1 DEF StartRun, FinishRun, RetryRun
    <2> QED BY <2>1, <2>2, WriteRowKind
  <1>2. ASSUME NEW r \in Runs, SaveEvalReport(r) PROVE \E n, l \in Nat : RowWrite("reports", r, n, l)
    <2>1. "reports" \in Tables /\ r \in Keys("reports")
      BY DEF Tables, Keys
    <2> QED BY <1>2, <2>1, WriteRowKind DEF SaveEvalReport
  <1>3. ASSUME NEW d \in Datasets, WriteDataset(d) PROVE \E n, l \in Nat : RowWrite("datasets", d, n, l)
    <2>1. "datasets" \in Tables /\ d \in Keys("datasets")
      BY DEF Tables, Keys
    <2> QED BY <1>3, <2>1, WriteRowKind DEF WriteDataset
  <1>4. ASSUME NEW e \in EvalCases, PromoteCase(e) PROVE \E n, l \in Nat : RowWrite("evalCases", e, n, l)
    <2>1. "evalCases" \in Tables /\ e \in Keys("evalCases")
      BY DEF Tables, Keys
    <2> QED BY <1>4, <2>1, WriteRowKind DEF PromoteCase
  <1>5. ASSUME NEW s \in Sources, CreateCase(s) PROVE CaseWrite
    <2> DEFINE x == [id |-> Len(cases) + 1, status |-> "open", report |-> s.report, run |-> s.run,
                     evalCase |-> s.evalCase, compare |-> FALSE]
    <2>1. Len(cases) \in Nat /\ Len(cases) < MaxCases /\ Exists(table, s)
      BY <1>5 DEF CreateCase
    <2>2. x \in Cases
      BY <2>1, ConstantsAssumption DEF Cases, CaseRow, CaseIds
    <2>3. Exists(table, x)
      BY <2>1 DEF Exists
    <2>4. WriteCase(Move(x, Len(cases) + 1, 1, cases)) /\ Len(cases) + 1 \in 1..(Len(cases) + 1)
      BY <1>5, <2>1 DEF CreateCase
    <2> HIDE DEF x
    <2> QED BY <2>2, <2>3, <2>4, WriteCaseKind
  <1>6. ASSUME NEW i \in DOMAIN cases, NEW status \in {"open", "closed"}, WriteCase(Moved(i, status))
        PROVE  CaseWrite
    <2> DEFINE x == [cases[i] EXCEPT !.status = status]
    <2>1. cases[i] \in Cases /\ Exists(table, cases[i])
      OBVIOUS
    <2>2. x \in Cases
      BY <2>1 DEF Cases, CaseRow
    <2>3. Exists(table, x)
      BY <2>1 DEF Exists, Cases, CaseRow
    <2>4. i \in 1..(Len(cases) + 1)
      OBVIOUS
    <2>5. WriteCase(Move(x, i, 1, cases))
      BY <1>6 DEF Moved
    <2> HIDE DEF x
    <2> QED BY <2>2, <2>3, <2>4, <2>5, WriteCaseKind
  <1>7. ASSUME NEW i \in DOMAIN cases, CloseCase(i) \/ ReopenCase(i) \/ TouchCase(i) PROVE CaseWrite
    <2>1. cases[i] \in Cases
      OBVIOUS
    <2>2. cases[i].status \in {"open", "closed"}
      BY <2>1 DEF Cases, CaseRow
    <2>3. \E status \in {"open", "closed"} : WriteCase(Moved(i, status))
      BY <1>7, <2>2 DEF CloseCase, ReopenCase, TouchCase
    <2> QED BY <1>6, <2>3
  <1>8. Runs = Keys("runs") /\ Runs = Keys("reports") /\ Datasets = Keys("datasets") /\ EvalCases = Keys("evalCases")
    BY DEF Keys
  <1>9. "runs" \in Tables /\ "reports" \in Tables /\ "datasets" \in Tables /\ "evalCases" \in Tables
    BY DEF Tables
  <1> QED BY <1>1, <1>2, <1>3, <1>4, <1>5, <1>7, <1>8, <1>9 DEF Others

LEMMA StoresWrites ==
    ASSUME StoresOK, Others
    PROVE  StoresOK'
  <1>1. ASSUME CaseWrite PROVE StoresOK'
    BY <1>1 DEF CaseWrite, StoresOK
  <1>2. ASSUME NEW t \in Tables, NEW key \in Keys(t), NEW n \in Nat, NEW l \in Nat, RowWrite(t, key, n, l)
        PROVE  StoresOK'
    <2>1. /\ DOMAIN table' = Tables /\ table'[t] = Move(key, n, l, table[t])
          /\ \A u \in Tables : u # t => table'[u] = table[u]
      BY <1>2 DEF RowWrite, StoresOK
    <2>2. table[t] \in Seq(Keys(t)) /\ \A i, j \in DOMAIN table[t] : table[t][i] = table[t][j] => i = j
      BY DEF StoresOK, IsListing
    <2>3. PlaceOf(key, n, table[t]) /\ l \in 1..n
      BY <1>2 DEF RowWrite
    <2>4. /\ table'[t] \in Seq(Keys(t)) /\ Range(table'[t]) = Range(table[t]) \cup {key}
          /\ \A i, j \in DOMAIN table'[t] : table'[t][i] = table'[t][j] => i = j
      BY <2>1, <2>2, <2>3, MoveListing
    <2>5. \A u \in Tables : IsListing(u, table'[u]) /\ Range(table[u]) \subseteq Range(table'[u])
      BY <2>1, <2>4 DEF IsListing, StoresOK
    <2>6. Range(table.reports) \subseteq Range(table'.reports) /\ Range(table.runs) \subseteq Range(table'.runs)
          /\ Range(table.evalCases) \subseteq Range(table'.evalCases)
      BY <2>5 DEF Tables
    <2>7. \A i \in DOMAIN cases : Exists(table', cases[i])
      BY <2>6 DEF Exists, StoresOK
    <2>8. DOMAIN touched' = Tables /\ \A u \in Tables : touched'[u] \in SUBSET Keys(u)
      BY <1>2 DEF RowWrite, StoresOK
    <2>9. finished' \in SUBSET Runs /\ changes' \in Nat /\ UNCHANGED <<cases, stale>>
      BY <1>2 DEF RowWrite
    <2> QED BY <2>1, <2>5, <2>7, <2>8, <2>9 DEF StoresOK
  <1> QED BY <1>1, <1>2, OthersKinds

(***************************************************************************)
(* The queries that read a field of the listed rows are of two sorts: more *)
(* queries follow, or the page is complete.                                *)
(***************************************************************************)

RowKinds == {"walk", "reports", "runs", "run", "evalCases"}

PagePcs == {"linked", "compare", "bad", "items", "report"}

\* The same rows, with other fields read.
SameRows(full, old) ==
    /\ full \in Seq(Row) /\ DOMAIN full = DOMAIN old
    /\ \A i \in DOMAIN old : full[i].id = old[i].id

FillKind(full, next) ==
    /\ pc \in PagePcs /\ next \in PagePcs /\ ask.kind \in RowKinds
    /\ next \in {"compare", "bad"} => ask.kind \in {"walk", "reports"}
    /\ next \in {"items", "report"} => ask.kind \in {"runs", "run"}
    /\ SameRows(full, rows)
    /\ rows' = full /\ pc' = next
    /\ k' \in Nat \ {0} /\ (ask.kind = "runs" => k' \in DOMAIN rows)
    /\ UNCHANGED <<at, page, matched, latest, ids, resp>> /\ UNCHANGED <<stores, ask>>

ConsumeKind(full) ==
    /\ pc \in PagePcs /\ ask.kind \in RowKinds
    /\ SameRows(full, rows)
    /\ Consume(full, page) /\ UNCHANGED k

\* A candidate with a report has a latest run.
ReportsOfRuns(list) == \A i \in DOMAIN list : list[i].hasReport => list[i].latest \in Runs

\* What each query of the dataset board reads of a candidate.
CandidateRead(new, old) ==
    /\ pc = "report" => /\ new.latest = latest[old.id].run
                        /\ new.hasReport <=> latest[old.id].final /\ Key("reports", latest[old.id].run)
    /\ pc # "report" => new.latest = old.latest /\ (new.hasReport <=> old.hasReport)
    /\ pc = "linked" => new.linked = IF old.hasReport THEN SummarizeBySourceEvalReportIDs(cases, old.latest)
                                     ELSE NoSummary
    /\ pc # "linked" => new.linked = old.linked
    /\ pc = "counts" => new.queue = Counted(old.id)
    /\ pc = "newest" =>
          new.queue = LET newest == Page(CasesOf(ids[old.id]), 0, 1).rows
                      IN  IF newest = <<>> THEN old.queue
                          ELSE [old.queue EXCEPT !.latest = newest[1].id, !.status = newest[1].status]
    /\ pc \notin {"counts", "newest"} => new.queue = old.queue
    /\ new.backed = old.backed

\* The queries of the dataset board for its candidates.
CandidateKind(full, next) ==
    /\ ask.kind = "datasets" /\ pc \in {"report", "bad", "linked", "items", "counts", "newest"}
    /\ next = CASE pc = "report" -> "bad" [] pc = "bad" -> "linked" [] pc = "linked" -> "items"
                [] pc = "items" -> "ids" [] pc = "counts" -> "newest" [] pc = "newest" -> "backed"
    /\ SameRows(full, matched) /\ ReportsOfRuns(full)
    /\ \A i \in DOMAIN matched : CandidateRead(full[i], matched[i])
    /\ matched' = full /\ pc' = next
    /\ UNCHANGED <<at, page, rows, k, latest, ids, resp>> /\ UNCHANGED <<stores, ask>>

\* The rows of a page and the candidates are of the table that was asked for,
\* and the row that is read next is one of the page.
RowsOfTable ==
    /\ ask.kind \in RowKinds =>
          /\ \A i \in DOMAIN rows : rows[i].id \in Keys(TableOf(ask))
          /\ \A i \in DOMAIN matched : matched[i].id \in Keys(TableOf(ask))
    /\ ask.kind = "datasets" => /\ \A i \in DOMAIN matched : matched[i].id \in Datasets
                                /\ ReportsOfRuns(matched)
    /\ ask.kind = "runs" /\ pc \in PagePcs => k \in DOMAIN rows

LEMMA IsSeq ==
    ASSUME NEW S, NEW n \in Nat, NEW f, f = [i \in 1..n |-> f[i]], \A i \in 1..n : f[i] \in S
    PROVE  f \in Seq(S) /\ Len(f) = n
  OBVIOUS

LEMMA SameRowsFill ==
    ASSUME NEW old \in Seq(Row), NEW full, full = [i \in DOMAIN old |-> full[i]],
           \A i \in DOMAIN old : full[i] \in Row /\ full[i].id = old[i].id
    PROVE  SameRows(full, old)
  <1>1. DOMAIN old = 1..Len(old) /\ Len(old) \in Nat
    OBVIOUS
  <1>2. full \in Seq(Row)
    BY <1>1, IsSeq
  <1> QED BY <1>2 DEF SameRows

\* Fields of a row.
LEMMA RowUpdates ==
    ASSUME NEW row \in Row
    PROVE  /\ \A s \in Summaries : /\ [row EXCEPT !.linked = s] \in Row
                                   /\ [row EXCEPT !.compare = s] \in Row
                                   /\ [row EXCEPT !.queue = s] \in Row
                                   /\ [row EXCEPT !.backed = s] \in Row
           /\ \A s : /\ [row EXCEPT !.linked = s].id = row.id
                     /\ [row EXCEPT !.compare = s].id = row.id
                     /\ [row EXCEPT !.queue = s].id = row.id
                     /\ [row EXCEPT !.backed = s].id = row.id
           /\ \A m \in Nat : [row EXCEPT !.uncovered = m] \in Row
           /\ \A m : [row EXCEPT !.uncovered = m].id = row.id
           /\ \A b \in BOOLEAN : [row EXCEPT !.hasReport = b] \in Row
           /\ \A b : [row EXCEPT !.hasReport = b].id = row.id
  <1>1. \A s \in Summaries : [row EXCEPT !.linked = s] \in Row /\ [row EXCEPT !.compare = s] \in Row
    BY DEF Row
  <1>2. \A s \in Summaries : [row EXCEPT !.queue = s] \in Row /\ [row EXCEPT !.backed = s] \in Row
    BY DEF Row
  <1>3. \A s : [row EXCEPT !.linked = s].id = row.id /\ [row EXCEPT !.compare = s].id = row.id
    BY DEF Row
  <1>4. \A s : [row EXCEPT !.queue = s].id = row.id /\ [row EXCEPT !.backed = s].id = row.id
    BY DEF Row
  <1>5. \A m \in Nat : [row EXCEPT !.uncovered = m] \in Row
    BY DEF Row
  <1>6. \A b \in BOOLEAN : [row EXCEPT !.hasReport = b] \in Row
    <2> SUFFICES ASSUME NEW b \in BOOLEAN PROVE [row EXCEPT !.hasReport = b] \in Row
      OBVIOUS
    <2> QED BY DEF Row
  <1>7. \A b : [row EXCEPT !.hasReport = b].id = row.id /\ [row EXCEPT !.uncovered = b].id = row.id
    BY DEF Row
  <1> QED BY <1>1, <1>2, <1>3, <1>4, <1>5, <1>6, <1>7

LEMMA NewRowFacts ==
    ASSUME NEW key \in AllKeys
    PROVE  NewRow(key) \in Row /\ NewRow(key).id = key
  <1>1. NoSummary \in Summaries
    BY DEF NoSummary, Summaries, NoCase
  <1>2. (key \in finished) \in BOOLEAN
    OBVIOUS
  <1> QED BY <1>1, <1>2 DEF NewRow, Row

\* Nothing is read yet of a listed row.
LEMMA NewRowFields ==
    ASSUME NEW key
    PROVE  /\ NewRow(key).id = key /\ NewRow(key).hasReport = FALSE /\ NewRow(key).latest = "none"
           /\ NewRow(key).linked = NoSummary /\ NewRow(key).compare = NoSummary
           /\ NewRow(key).queue = NoSummary /\ NewRow(key).backed = NoSummary
           /\ NewRow(key).uncovered = 0 /\ NewRow(key).final = (key \in finished)
  BY DEF NewRow

LEMMA NewRowEmpty == \A key : NewRow(key).hasReport = FALSE
  BY DEF NewRow

LEMMA NewRowFinal == \A key : NewRow(key).final <=> key \in finished
  BY DEF NewRow

LEMMA NewRowsFacts ==
    ASSUME NEW keys \in Seq(AllKeys)
    PROVE  /\ NewRows(keys) \in Seq(Row) /\ DOMAIN NewRows(keys) = DOMAIN keys
           /\ \A i \in DOMAIN keys : NewRows(keys)[i] = NewRow(keys[i]) /\ NewRows(keys)[i].id = keys[i]
  <1>1. DOMAIN keys = 1..Len(keys) /\ Len(keys) \in Nat
    OBVIOUS
  <1>2. \A i \in DOMAIN keys : NewRow(keys[i]) \in Row /\ NewRow(keys[i]).id = keys[i]
    BY NewRowFacts
  <1>3. NewRows(keys) = [i \in DOMAIN keys |-> NewRow(keys[i])]
    BY DEF NewRows
  <1>4. NewRows(keys) \in Seq(Row)
    BY <1>1, <1>2, <1>3, IsSeq
  <1> QED BY <1>2, <1>3, <1>4

LEMMA MatchingFacts ==
    ASSUME NEW q, NEW list \in Seq(Row), NEW M, M = {i \in DOMAIN list : Matches(q, list[i])}
    PROVE  /\ Matching(q, list) = Picked(list, M)
           /\ Matching(q, list) \in Seq(Row)
           /\ DOMAIN Matching(q, list) = 1..Len(Matching(q, list))
           /\ Range(Matching(q, list)) = {list[i] : i \in M}
  <1>1. M \in SUBSET DOMAIN list /\ Matching(q, list) = Picked(list, M)
    BY DEF Matching
  <1> QED BY <1>1, PickedFacts

\* A list and what matches of another one behind it.
Gathered(q, old, list, all) ==
    old \in Seq(Row) /\ list \in Seq(Row) /\ all = old \o Matching(q, list)

LEMMA AllFacts ==
    ASSUME NEW q, NEW old, NEW list, NEW all, Gathered(q, old, list, all)
    PROVE  /\ all \in Seq(Row)
           /\ \A i \in DOMAIN old : i \in DOMAIN all /\ all[i] = old[i]
           /\ \A i \in DOMAIN list : Matches(q, list[i]) => \E j \in DOMAIN all : all[j] = list[i]
           /\ \A j \in DOMAIN all : \/ j \in DOMAIN old /\ all[j] = old[j]
                                    \/ \E i \in DOMAIN list : Matches(q, list[i]) /\ all[j] = list[i]
  <1> DEFINE M == {i \in DOMAIN list : Matches(q, list[i])}
             new == Matching(q, list)
  <1>0. old \in Seq(Row) /\ list \in Seq(Row) /\ all = old \o new
    BY DEF Gathered
  <1>1. new \in Seq(Row) /\ DOMAIN new = 1..Len(new) /\ Range(new) = {list[i] : i \in M}
    BY <1>0, MatchingFacts
  <1>2. /\ all \in Seq(Row) /\ Len(all) = Len(old) + Len(new)
        /\ \A i \in 1..Len(old) + Len(new) : all[i] = IF i <= Len(old) THEN old[i] ELSE new[i - Len(old)]
    <2> HIDE DEF new
    <2> QED BY <1>0, <1>1, ConcatProperties DEF new
  <1> HIDE DEF new
  <1>3. Len(old) \in Nat /\ Len(new) \in Nat /\ DOMAIN old = 1..Len(old) /\ DOMAIN all = 1..(Len(old) + Len(new))
    BY <1>0, <1>1, <1>2
  <1>4. \A i \in DOMAIN old : i \in DOMAIN all /\ all[i] = old[i]
    BY <1>2, <1>3
  <1>5. ASSUME NEW i \in DOMAIN list, Matches(q, list[i]) PROVE \E j \in DOMAIN all : all[j] = list[i]
    <2>1. list[i] \in Range(new)
      BY <1>1, <1>5
    <2>2. PICK x \in 1..Len(new) : new[x] = list[i]
      BY <2>1, <1>1 DEF Range
    <2>3. Len(old) + x \in DOMAIN all /\ ~(Len(old) + x <= Len(old)) /\ (Len(old) + x) - Len(old) = x
      BY <1>3
    <2> QED BY <2>2, <2>3, <1>2, <1>3
  <1>6. ASSUME NEW j \in DOMAIN all, j \notin DOMAIN old
        PROVE  \E i \in DOMAIN list : Matches(q, list[i]) /\ all[j] = list[i]
    <2>1. j - Len(old) \in 1..Len(new) /\ ~(j <= Len(old))
      BY <1>3, <1>6
    <2>2. all[j] = new[j - Len(old)]
      BY <1>2, <1>3, <2>1
    <2>3. all[j] \in Range(new)
      BY <2>1, <2>2, <1>1 DEF Range
    <2> QED BY <2>3, <1>1
  <1> QED BY <1>2, <1>4, <1>5, <1>6

LEMMA FillKinds ==
    ASSUME TypeOK, RowsOfTable,
           \/ ReadReportCases \/ ReadCompareCases \/ ReadRunItems \/ ReadRunCases
           \/ ReadRunReport \/ ReadDetailItems \/ ReadDetailReport
           \/ ReadBadCases \/ ReadEvalCaseCases \/ ReadDetailCases
    PROVE  (\E full, next : FillKind(full, next)) \/ (\E full : ConsumeKind(full))
  <1>0. /\ rows \in Seq(Row) /\ k \in Nat \ {0} /\ cases \in Seq(Cases)
        /\ \A i \in DOMAIN rows : rows[i] \in Row
    BY DEF TypeOK, ReaderOK, StoresOK
  <1>a. /\ \A x : SummarizeBySourceEvalReportIDs(cases, x) \in Summaries
        /\ \A x : SummarizeCompareOriginBySourceEvalReportIDs(cases, x) \in Summaries
        /\ \A x : SummarizeBySourceEvalCaseIDs(cases, x) \in Summaries
        /\ \A x : SummarizeBySourceEvalRunIDs(cases, x) \in Summaries
        /\ \A r \in Runs : Cardinality(Uncovered(cases, BadCases[r])) \in Nat
        /\ Cardinality(Uncovered(cases, {})) \in Nat
    BY <1>0, ReadTypes
  <1>b. ask.kind \in {"walk", "reports", "runs", "run"} => \A i \in DOMAIN rows : rows[i].id \in Runs
    BY DEF RowsOfTable, RowKinds, TableOf, Keys
  <1>c. ask.kind = "runs" /\ pc \in PagePcs => k \in DOMAIN rows /\ k \in 1..Len(rows)
    BY <1>0 DEF RowsOfTable
  <1>d. pc = "compare" => ask.kind \in {"walk", "reports"}
    BY DEF TypeOK, ControlOK
  <1>1. CASE ReadReportCases
    <2> DEFINE full == [i \in DOMAIN rows |->
                [rows[i] EXCEPT !.linked = SummarizeBySourceEvalReportIDs(cases, rows[i].id)]]
    <2>1. \A i \in DOMAIN rows : full[i] \in Row /\ full[i].id = rows[i].id
      BY <1>0, <1>a, RowUpdates
    <2>2. SameRows(full, rows)
      BY <1>0, <2>1, SameRowsFill
    <2> HIDE DEF full
    <2> QED BY <1>0, <1>1, <2>2 DEF ReadReportCases, FillKind, Fill, Read, PagePcs, RowKinds, full
  <1>2. CASE ReadCompareCases
    <2> DEFINE full == [i \in DOMAIN rows |->
                [rows[i] EXCEPT !.compare = SummarizeCompareOriginBySourceEvalReportIDs(cases, rows[i].id)]]
    <2>1. \A i \in DOMAIN rows : full[i] \in Row /\ full[i].id = rows[i].id
      BY <1>0, <1>a, RowUpdates
    <2>2. SameRows(full, rows)
      BY <1>0, <2>1, SameRowsFill
    <2> HIDE DEF full
    <2> QED BY <1>0, <1>2, <1>d, <2>2 DEF ReadCompareCases, FillKind, Fill, Read, PagePcs, RowKinds, full
  <1>3. CASE ReadRunItems
    <2> DEFINE row == [rows[k] EXCEPT !.uncovered = Cardinality(Uncovered(cases, FailedItems(rows[k].id)))]
               full == [rows EXCEPT ![k] = row]
    <2>0. k \in DOMAIN rows /\ rows[k].id \in Runs
      BY <1>3, <1>b, <1>c DEF ReadRunItems, PagePcs
    <2>1. row \in Row /\ row.id = rows[k].id
      BY <1>0, <1>a, <2>0, RowUpdates DEF FailedItems
    <2> HIDE DEF row
    <2>2. SameRows(full, rows)
      BY <1>0, <2>0, <2>1 DEF SameRows
    <2> HIDE DEF full
    <2> QED BY <1>0, <1>3, <2>0, <2>2 DEF ReadRunItems, FillKind, Fill, Read, PagePcs, RowKinds, full, row
  <1>4. CASE ReadRunCases
    <2> DEFINE row == [rows[k] EXCEPT !.linked = SummarizeBySourceEvalRunIDs(cases, rows[k].id)]
               full == [rows EXCEPT ![k] = row]
    <2>0. k \in DOMAIN rows
      BY <1>4, <1>b, <1>c DEF ReadRunCases, PagePcs
    <2>1. row \in Row /\ row.id = rows[k].id
      BY <1>0, <1>a, <2>0, RowUpdates
    <2> HIDE DEF row
    <2>2. SameRows(full, rows)
      BY <1>0, <2>0, <2>1 DEF SameRows
    <2> HIDE DEF full
    <2> QED BY <1>0, <1>4, <2>0, <2>2 DEF ReadRunCases, FillKind, Fill, Read, PagePcs, RowKinds, full, row
  <1>5. CASE ReadRunReport
    <2> DEFINE has == rows[k].final /\ Key("reports", rows[k].id)
               row == [rows[k] EXCEPT !.hasReport = has]
               full == [rows EXCEPT ![k] = row]
    <2>0. k \in DOMAIN rows /\ k \in 1..Len(rows)
      BY <1>5, <1>b, <1>c DEF ReadRunReport, PagePcs
    <2>a. has \in BOOLEAN
      BY <1>0, <2>0 DEF Row
    <2>1. row \in Row /\ row.id = rows[k].id
      <3> HIDE DEF has
      <3> QED BY <1>0, <2>0, <2>a, RowUpdates
    <2>f. full = [rows EXCEPT ![k].hasReport = rows[k].final /\ Key("reports", rows[k].id)]
      BY <1>0, <2>0
    <2> HIDE DEF row
    <2>2. SameRows(full, rows)
      BY <1>0, <2>0, <2>1 DEF SameRows
    <2> HIDE DEF full
    <2>3. CASE k < Len(rows)
      <3>1. k + 1 \in DOMAIN rows /\ k + 1 \in Nat \ {0} /\ ~(k >= Len(rows))
        BY <1>0, <2>0, <2>3
      <3>2. /\ rows' = full /\ pc' = "items" /\ k' = k + 1 /\ pc = "report" /\ ask.kind = "runs"
            /\ UNCHANGED <<at, page, matched, latest, ids, resp>> /\ Read
        BY <1>5, <2>f, <3>1 DEF ReadRunReport
      <3>3. FillKind(full, "items")
        BY <2>2, <3>1, <3>2 DEF FillKind, Read, PagePcs, RowKinds
      <3> QED BY <3>3
    <2>4. CASE ~(k < Len(rows))
      <3>1. Consume(full, page) /\ UNCHANGED k /\ pc = "report" /\ ask.kind = "runs"
        BY <1>5, <2>f, <2>4 DEF ReadRunReport
      <3>2. ConsumeKind(full)
        BY <2>2, <3>1 DEF ConsumeKind, PagePcs, RowKinds
      <3> QED BY <3>2
    <2> QED BY <2>3, <2>4
  <1>6. CASE ReadDetailItems
    <2> DEFINE bad(i) == Cardinality(Uncovered(cases, IF rows[i].final THEN BadCases[rows[i].id] ELSE {}))
               full == [i \in DOMAIN rows |-> [rows[i] EXCEPT !.uncovered = bad(i)]]
    <2>a. \A i \in DOMAIN rows : bad(i) \in Nat
      BY <1>6, <1>a, <1>b DEF ReadDetailItems
    <2>1. \A i \in DOMAIN rows : full[i] \in Row /\ full[i].id = rows[i].id
      <3> HIDE DEF bad
      <3> QED BY <1>0, <2>a, RowUpdates
    <2>2. SameRows(full, rows)
      BY <1>0, <2>1, SameRowsFill
    <2>f. Fill(full, "report") /\ pc = "items" /\ ask.kind = "run"
      BY <1>6 DEF ReadDetailItems
    <2> HIDE DEF full
    <2> QED BY <1>0, <2>f, <2>2 DEF FillKind, Fill, Read, PagePcs, RowKinds
  <1>7. CASE ReadDetailReport
    <2> DEFINE has(i) == rows[i].final /\ Key("reports", rows[i].id)
               full == [i \in DOMAIN rows |-> [rows[i] EXCEPT !.hasReport = has(i)]]
    <2>a. \A i \in DOMAIN rows : has(i) \in BOOLEAN
      BY <1>0 DEF Row
    <2>1. \A i \in DOMAIN rows : full[i] \in Row /\ full[i].id = rows[i].id
      <3> HIDE DEF has
      <3> QED BY <1>0, <2>a, RowUpdates
    <2>2. SameRows(full, rows)
      BY <1>0, <2>1, SameRowsFill
    <2>f. Fill(full, "linked") /\ pc = "report" /\ ask.kind = "run"
      BY <1>7 DEF ReadDetailReport
    <2> HIDE DEF full
    <2> QED BY <1>0, <2>f, <2>2 DEF FillKind, Fill, Read, PagePcs, RowKinds
  <1>8. CASE ReadBadCases
    <2> DEFINE full == [i \in DOMAIN rows |->
                [rows[i] EXCEPT !.uncovered = Cardinality(Uncovered(cases, BadCases[rows[i].id]))]]
    <2>1. \A i \in DOMAIN rows : full[i] \in Row /\ full[i].id = rows[i].id
      BY <1>0, <1>8, <1>a, <1>b, RowUpdates DEF ReadBadCases
    <2>2. SameRows(full, rows)
      BY <1>0, <2>1, SameRowsFill
    <2> HIDE DEF full
    <2> QED BY <1>0, <1>8, <2>2 DEF ReadBadCases, ConsumeKind, PagePcs, RowKinds, full
  <1>9. CASE ReadEvalCaseCases
    <2> DEFINE full == [i \in DOMAIN rows |->
                [rows[i] EXCEPT !.linked = SummarizeBySourceEvalCaseIDs(cases, rows[i].id)]]
    <2>1. \A i \in DOMAIN rows : full[i] \in Row /\ full[i].id = rows[i].id
      BY <1>0, <1>a, RowUpdates
    <2>2. SameRows(full, rows)
      BY <1>0, <2>1, SameRowsFill
    <2> HIDE DEF full
    <2> QED BY <1>0, <1>9, <2>2 DEF ReadEvalCaseCases, ConsumeKind, PagePcs, RowKinds, full
  <1>10. CASE ReadDetailCases
    <2> DEFINE full == [i \in DOMAIN rows |->
                [rows[i] EXCEPT !.linked = SummarizeBySourceEvalRunIDs(cases, rows[i].id)]]
    <2>1. \A i \in DOMAIN rows : full[i] \in Row /\ full[i].id = rows[i].id
      BY <1>0, <1>a, RowUpdates
    <2>2. SameRows(full, rows)
      BY <1>0, <2>1, SameRowsFill
    <2> HIDE DEF full
    <2> QED BY <1>0, <1>10, <2>2 DEF ReadDetailCases, ConsumeKind, PagePcs, RowKinds, full
  <1> QED BY <1>1, <1>2, <1>3, <1>4, <1>5, <1>6, <1>7, <1>8, <1>9, <1>10

\* Pairs of a position of a list and a case are finitely many.
LEMMA CountedType ==
    ASSUME TypeOK, NEW d \in Datasets
    PROVE  Counted(d) \in Summaries
  <1> DEFINE P == (DOMAIN ids[d]) \X (DOMAIN cases)
             of == {p \in P : cases[p[2]].report = ids[d][p[1]]}
             open == {p \in of : cases[p[2]].status = "open"}
  <1>1. ids[d] \in Seq(Runs) /\ cases \in Seq(Cases)
    BY DEF TypeOK, ReaderOK, StoresOK
  <1>2. IsFiniteSet(DOMAIN ids[d]) /\ IsFiniteSet(DOMAIN cases)
    <2>1. DOMAIN ids[d] = 1..Len(ids[d]) /\ Len(ids[d]) \in Nat /\ DOMAIN cases = 1..Len(cases) /\ Len(cases) \in Nat
      BY <1>1
    <2> QED BY <2>1, PositionsFinite
  <1>3. IsFiniteSet(P)
    BY <1>2, FS_Product
  <1>4. IsFiniteSet(of) /\ IsFiniteSet(open)
    <2>1. of \subseteq P /\ open \subseteq P
      OBVIOUS
    <2> QED BY <1>3, <2>1, FS_Subset
  <1>5. Cardinality(of) \in Nat /\ Cardinality(open) \in Nat
    BY <1>4, FS_CardinalityType
  <1>6. Counted(d) = [NoSummary EXCEPT !.total = Cardinality(of), !.open = Cardinality(open)]
    BY DEF Counted
  <1>7. PICK m \in Nat, n \in Nat : m = Cardinality(of) /\ n = Cardinality(open)
    BY <1>5
  <1>8. Counted(d) = [NoSummary EXCEPT !.total = m, !.open = n]
    BY <1>6, <1>7
  <1> HIDE DEF of, open, P
  <1>9. Counted(d) = [total |-> m, open |-> n, latest |-> 0, status |-> "none"]
    BY <1>8 DEF NoSummary, NoCase
  <1> QED BY <1>9 DEF Summaries

\* The first of the cases of a list of reports, if there is one.
LEMMA CasesOfFacts ==
    ASSUME cases \in Seq(Cases), NEW reports \in Seq(Runs), NEW newest, newest = Page(CasesOf(reports), 0, 1).rows,
           NEW Q, Q = {i \in DOMAIN cases : cases[i].report \in Range(reports)}
    PROVE  /\ CasesOf(reports) \in Seq(Cases)
           /\ Range(CasesOf(reports)) = {cases[i] : i \in Q}
           /\ newest = <<>> <=> Q = {}
           /\ newest # <<>> => First(Q) \in Q /\ newest[1] = cases[First(Q)] /\ newest[1] \in Cases
  <1>1. Q \in SUBSET DOMAIN cases /\ Q \in SUBSET (1..Len(cases)) /\ Len(cases) \in Nat
    OBVIOUS
  <1>2. CasesOf(reports) = Picked(cases, Q)
    BY DEF CasesOf
  <1>3. /\ Cardinality(Q) \in Nat /\ CasesOf(reports) \in Seq(Cases)
        /\ Len(CasesOf(reports)) = Cardinality(Q) /\ DOMAIN CasesOf(reports) = 1..Cardinality(Q)
        /\ \A m \in 1..Cardinality(Q) : CasesOf(reports)[m] = cases[Nth(Q, m)]
        /\ Range(CasesOf(reports)) = {cases[i] : i \in Q}
    <2>1. Q \in SUBSET DOMAIN cases /\ cases \in Seq(Cases)
      BY <1>1
    <2>2. /\ Cardinality(Q) \in Nat /\ Picked(cases, Q) \in Seq(Cases)
          /\ Len(Picked(cases, Q)) = Cardinality(Q) /\ DOMAIN Picked(cases, Q) = 1..Cardinality(Q)
      BY ONLY <2>1, PickedFacts
    <2>3. \A m \in 1..Cardinality(Q) : Picked(cases, Q)[m] = cases[Nth(Q, m)]
      BY ONLY <2>1, PickedFacts
    <2>4. Range(Picked(cases, Q)) = {cases[i] : i \in Q}
      BY ONLY <2>1, PickedFacts
    <2> QED BY ONLY <1>2, <2>2, <2>3, <2>4
  <1>4. Cardinality(Q) = 0 <=> Q = {}
    BY <1>1, PositionsFinite
  <1>5. Q # {} => Nth(Q, 1) = First(Q) /\ First(Q) \in Q
    <2>1. Q \in SUBSET Nat
      BY <1>1
    <2>2. Q # {} => First(Q) \in Q
      BY <2>1, FirstIsLeast
    <2>3. Q # {} => Nth(Q, 1) = First(Q)
      BY <1>1, NthFirst
    <2> QED BY <2>2, <2>3
  <1>l. PICK list : list = CasesOf(reports)
    OBVIOUS
  <1>a. PICK a \in Nat, l \in Nat : a = 0 /\ l = 1
    OBVIOUS
  <1>6. /\ newest \in Seq(Cases)
        /\ \A i \in DOMAIN newest : a + i \in DOMAIN list /\ newest[i] = list[a + i]
        /\ \A i \in DOMAIN list : a < i /\ (Page(list, a, l).more => i <= a + l) =>
             i - a \in DOMAIN newest /\ newest[i - a] = list[i]
    <2>1. PICK p : p = Page(list, a, l)
      OBVIOUS
    <2>2. PageOf(Cases, list, a, l, p) /\ newest = p.rows
      BY <1>3, <1>l, <1>a, <2>1 DEF PageOf
    <2> QED BY <2>1, <2>2, PageIs
  <1>7. CASE Q = {}
    <2>0. Cardinality(Q) = 0
      BY <1>4, <1>7
    <2>1. DOMAIN list = {}
      <3>1. DOMAIN list = 1..0
        BY <1>3, <1>l, <2>0
      <3> QED BY <3>1
    <2>2. DOMAIN newest = {}
      BY <1>6, <2>1
    <2> QED BY <1>3, <1>6, <1>7, <2>2
  <1>8. CASE Q # {}
    <2>1. 1 \in DOMAIN list /\ list[1] = cases[First(Q)]
      BY <1>3, <1>4, <1>5, <1>8, <1>l
    <2>2. 1 - a = 1 /\ a < 1 /\ 1 <= a + l
      BY <1>a
    <2>3. 1 \in DOMAIN newest /\ newest[1] = cases[First(Q)]
      BY <1>6, <2>1, <2>2
    <2>4. newest[1] \in Cases
      BY <1>6, <2>3
    <2> QED BY <1>3, <1>5, <1>8, <2>3, <2>4
  <1> QED BY <1>7, <1>8

LEMMA CandidateKinds ==
    ASSUME TypeOK, RowsOfTable,
           \/ LookUpReports \/ ReadLatestBadCases \/ ReadLatestReportCases \/ ReadFallbackItems
           \/ CountQueues \/ ReadNewestCase
    PROVE  \E full, next : CandidateKind(full, next)
  <1>0. /\ matched \in Seq(Row) /\ cases \in Seq(Cases)
        /\ \A i \in DOMAIN matched : matched[i] \in Row
        /\ \A d \in Datasets : ids[d] \in Seq(Runs) /\ latest[d] \in RunMet
    BY DEF TypeOK, ReaderOK, StoresOK
  <1>a. /\ \A x : SummarizeBySourceEvalReportIDs(cases, x) \in Summaries
        /\ \A r \in Runs : Cardinality(Uncovered(cases, BadCases[r])) \in Nat
        /\ Cardinality(Uncovered(cases, {})) \in Nat
    BY <1>0, ReadTypes
  <1>b. ask.kind = "datasets" => \A i \in DOMAIN matched : matched[i].id \in Datasets
    BY DEF RowsOfTable
  <1>f. ask.kind = "datasets" => ReportsOfRuns(matched)
    BY DEF RowsOfTable
  <1>h. \A full : SameRows(full, matched) /\ ReportsOfRuns(matched)
            /\ (\A i \in DOMAIN matched : full[i].hasReport = matched[i].hasReport /\ full[i].latest = matched[i].latest)
            => ReportsOfRuns(full)
    BY DEF SameRows, ReportsOfRuns
  <1>c. NoSummary \in Summaries
    BY DEF NoSummary, Summaries, NoCase
  <1>d. pc \in {"counts", "newest"} => ask.kind = "datasets"
    BY DEF TypeOK, ControlOK
  <1>e. finished \in SUBSET Runs
    BY DEF TypeOK, StoresOK
  <1>g. \A full, next : ask.kind = "datasets" /\ pc \in {"report", "bad", "linked", "items", "counts", "newest"}
            /\ (pc = "report" => next = "bad") /\ (pc = "bad" => next = "linked") /\ (pc = "linked" => next = "items")
            /\ (pc = "items" => next = "ids") /\ (pc = "counts" => next = "newest") /\ (pc = "newest" => next = "backed")
            /\ SameRows(full, matched) /\ ReportsOfRuns(full) /\ FillCandidates(full, next)
            /\ (\A i \in DOMAIN matched : CandidateRead(full[i], matched[i])) => CandidateKind(full, next)
    BY DEF FillCandidates, CandidateKind, Read
  <1>1. CASE LookUpReports
    <2> DEFINE has(i) == latest[matched[i].id].final /\ Key("reports", latest[matched[i].id].run)
               full == [i \in DOMAIN matched |->
                            LET run == latest[matched[i].id]
                            IN  [matched[i] EXCEPT !.latest = run.run, !.final = run.final,
                                                   !.hasReport = run.final /\ Key("reports", run.run)]]
    <2>1. pc = "report" /\ ask.kind = "datasets" /\ FillCandidates(full, "bad")
      BY <1>1 DEF LookUpReports
    <2>2. ASSUME NEW i \in DOMAIN matched
          PROVE  full[i] \in Row /\ full[i].id = matched[i].id /\ (full[i].hasReport => full[i].latest \in Runs)
      <3>1. /\ matched[i] \in Row /\ latest[matched[i].id].run \in Runs \cup {"none"}
            /\ latest[matched[i].id].final \in BOOLEAN
        BY <1>0, <1>b, <2>1 DEF RunMet
      <3>2. PICK l \in Runs \cup {"none"} : l = latest[matched[i].id].run
        BY <3>1
      <3>3. PICK f \in BOOLEAN : f = latest[matched[i].id].final
        BY <3>1
      <3>4. PICK h \in BOOLEAN : h = (latest[matched[i].id].final /\ Key("reports", latest[matched[i].id].run))
        BY <3>1
      <3>5. full[i] = [matched[i] EXCEPT !.latest = l, !.final = f, !.hasReport = h]
        BY <3>2, <3>3, <3>4
      <3> HIDE DEF full
      <3>6. [matched[i] EXCEPT !.latest = l, !.final = f, !.hasReport = h] \in Row
        BY <3>1 DEF Row
      <3>7. h => l \in Runs
        <4>1. table.reports \in Seq(Runs)
          BY DEF TypeOK, StoresOK, IsListing, Tables, Keys
        <4>2. Range(table.reports) \subseteq Runs
          BY <4>1 DEF Range
        <4> QED BY <3>2, <3>4, <4>2 DEF Key
      <3> QED BY <3>1, <3>5, <3>6, <3>7 DEF Row
    <2>3. SameRows(full, matched)
      BY <1>0, <2>2, SameRowsFill
    <2>4. ReportsOfRuns(full)
      BY <2>2 DEF ReportsOfRuns
    <2>7. \A i \in DOMAIN matched : CandidateRead(full[i], matched[i])
      BY <1>0, <2>1 DEF Row, CandidateRead
    <2> HIDE DEF full
    <2> QED BY <1>g, <2>1, <2>3, <2>4, <2>7
  <1>2. CASE ReadLatestBadCases
    <2> DEFINE bad(i) == IF matched[i].hasReport THEN Cardinality(Uncovered(cases, BadCases[matched[i].latest]))
                         ELSE 0
               full == [i \in DOMAIN matched |-> [matched[i] EXCEPT !.uncovered = bad(i)]]
    <2>1. pc = "bad" /\ ask.kind = "datasets" /\ FillCandidates(full, "linked")
      BY <1>2 DEF ReadLatestBadCases
    <2>2. \A i \in DOMAIN matched : bad(i) \in Nat
      BY <1>0, <1>a, <1>f, <2>1 DEF ReportsOfRuns
    <2>3. \A i \in DOMAIN matched : full[i] \in Row /\ full[i].id = matched[i].id
      <3> HIDE DEF bad
      <3> QED BY <1>0, <2>2, RowUpdates
    <2>4. SameRows(full, matched)
      BY <1>0, <2>3, SameRowsFill
    <2>5. \A i \in DOMAIN matched : full[i].hasReport = matched[i].hasReport /\ full[i].latest = matched[i].latest
      BY <1>0 DEF Row
    <2>6. ReportsOfRuns(full)
      <3> HIDE DEF full
      <3> QED BY <1>f, <1>h, <2>1, <2>4, <2>5
    <2>7. \A i \in DOMAIN matched : CandidateRead(full[i], matched[i])
      BY <1>0, <2>1 DEF Row, CandidateRead
    <2> HIDE DEF full
    <2> QED BY <1>g, <2>1, <2>4, <2>6, <2>7
  <1>3. CASE ReadLatestReportCases
    <2> DEFINE s(i) == IF matched[i].hasReport THEN SummarizeBySourceEvalReportIDs(cases, matched[i].latest)
                       ELSE NoSummary
               full == [i \in DOMAIN matched |-> [matched[i] EXCEPT !.linked = s(i)]]
    <2>1. pc = "linked" /\ ask.kind = "datasets" /\ FillCandidates(full, "items")
      BY <1>3 DEF ReadLatestReportCases
    <2>2. \A i \in DOMAIN matched : s(i) \in Summaries
      BY <1>0, <1>a, <1>c
    <2>3. \A i \in DOMAIN matched : full[i] \in Row /\ full[i].id = matched[i].id
      <3> HIDE DEF s
      <3> QED BY <1>0, <2>2, RowUpdates
    <2>4. SameRows(full, matched)
      BY <1>0, <2>3, SameRowsFill
    <2>5. \A i \in DOMAIN matched : full[i].hasReport = matched[i].hasReport /\ full[i].latest = matched[i].latest
      BY <1>0 DEF Row
    <2>6. ReportsOfRuns(full)
      <3> HIDE DEF full
      <3> QED BY <1>f, <1>h, <2>1, <2>4, <2>5
    <2>7. \A i \in DOMAIN matched : CandidateRead(full[i], matched[i])
      BY <1>0, <2>1 DEF Row, CandidateRead
    <2> HIDE DEF full
    <2> QED BY <1>g, <2>1, <2>4, <2>6, <2>7
  <1>4. CASE ReadFallbackItems
    <2> DEFINE bad(i) == IF matched[i].final /\ ~matched[i].hasReport
                         THEN Cardinality(Uncovered(cases, FailedItems(matched[i].latest)))
                         ELSE matched[i].uncovered
               full == [i \in DOMAIN matched |-> [matched[i] EXCEPT !.uncovered = bad(i)]]
    <2>1. pc = "items" /\ ask.kind = "datasets" /\ FillCandidates(full, "ids")
      BY <1>4 DEF ReadFallbackItems
    <2>2. \A i \in DOMAIN matched : bad(i) \in Nat
      BY <1>0, <1>a, <1>e DEF Row, FailedItems
    <2>3. \A i \in DOMAIN matched : full[i] \in Row /\ full[i].id = matched[i].id
      <3> HIDE DEF bad
      <3> QED BY <1>0, <2>2, RowUpdates
    <2>4. SameRows(full, matched)
      BY <1>0, <2>3, SameRowsFill
    <2>5. \A i \in DOMAIN matched : full[i].hasReport = matched[i].hasReport /\ full[i].latest = matched[i].latest
      BY <1>0 DEF Row
    <2>6. ReportsOfRuns(full)
      <3> HIDE DEF full
      <3> QED BY <1>f, <1>h, <2>1, <2>4, <2>5
    <2>7. \A i \in DOMAIN matched : CandidateRead(full[i], matched[i])
      BY <1>0, <2>1 DEF Row, CandidateRead
    <2> HIDE DEF full
    <2> QED BY <1>g, <2>1, <2>4, <2>6, <2>7
  <1>5. CASE CountQueues
    <2> DEFINE full == [i \in DOMAIN matched |-> [matched[i] EXCEPT !.queue = Counted(matched[i].id)]]
    <2>1. pc = "counts" /\ ask.kind = "datasets" /\ FillCandidates(full, "newest")
      BY <1>5, <1>d DEF CountQueues
    <2>2. \A i \in DOMAIN matched : Counted(matched[i].id) \in Summaries
      BY <1>b, <2>1, CountedType
    <2>3. \A i \in DOMAIN matched : full[i] \in Row /\ full[i].id = matched[i].id
      BY <1>0, <2>2, RowUpdates
    <2>4. SameRows(full, matched)
      BY <1>0, <2>3, SameRowsFill
    <2>5. \A i \in DOMAIN matched : full[i].hasReport = matched[i].hasReport /\ full[i].latest = matched[i].latest
      BY <1>0 DEF Row
    <2>6. ReportsOfRuns(full)
      <3> HIDE DEF full
      <3> QED BY <1>f, <1>h, <2>1, <2>4, <2>5
    <2>7. \A i \in DOMAIN matched : CandidateRead(full[i], matched[i])
      BY <1>0, <2>1 DEF Row, CandidateRead
    <2> HIDE DEF full
    <2> QED BY <1>g, <2>1, <2>4, <2>6, <2>7
  <1>6. CASE ReadNewestCase
    <2> DEFINE newest(i) == Page(CasesOf(ids[matched[i].id]), 0, 1).rows
               full == [i \in DOMAIN matched |->
                            IF newest(i) = <<>> THEN matched[i]
                            ELSE [matched[i] EXCEPT !.queue.latest = newest(i)[1].id,
                                                    !.queue.status = newest(i)[1].status]]
    <2>1. pc = "newest" /\ ask.kind = "datasets" /\ FillCandidates(full, "backed")
      BY <1>6, <1>d DEF ReadNewestCase
    <2>2. ASSUME NEW i \in DOMAIN matched PROVE full[i] \in Row /\ full[i].id = matched[i].id
      <3>1. CASE newest(i) = <<>>
        BY <1>0, <3>1
      <3>2. CASE newest(i) # <<>>
        <4>1. newest(i)[1] \in Cases
          BY <1>0, <1>b, <2>1, <3>2, CasesOfFacts
        <4>2. newest(i)[1].id \in Nat /\ newest(i)[1].status \in {"open", "closed"}
          BY <4>1, ConstantsAssumption DEF Cases, CaseRow, CaseIds
        <4>3. PICK c, s : c = newest(i)[1].id /\ s = newest(i)[1].status
          OBVIOUS
        <4>4. full[i] = [matched[i] EXCEPT !.queue.latest = c, !.queue.status = s]
          BY <3>2, <4>3
        <4>5. c \in Nat /\ s \in {"open", "closed"} /\ matched[i] \in Row
          BY <1>0, <4>2, <4>3
        <4> HIDE DEF full, newest
        <4>6. PICK u : u = [matched[i].queue EXCEPT !.latest = c, !.status = s]
          OBVIOUS
        <4>7. u \in Summaries
          BY <4>5, <4>6 DEF Row, Summaries
        <4>8. full[i] = [matched[i] EXCEPT !.queue = u]
          BY <4>4, <4>5, <4>6 DEF Row
        <4>9. [matched[i] EXCEPT !.queue = u] \in Row /\ [matched[i] EXCEPT !.queue = u].id = matched[i].id
          BY <4>5, <4>7, RowUpdates
        <4> QED BY <4>8, <4>9
      <3> QED BY <3>1, <3>2
    <2>4. SameRows(full, matched)
      BY <1>0, <2>2, SameRowsFill
    <2>5. \A i \in DOMAIN matched : full[i].hasReport = matched[i].hasReport /\ full[i].latest = matched[i].latest
      BY <1>0 DEF Row
    <2>6. ReportsOfRuns(full)
      <3> HIDE DEF full
      <3> QED BY <1>f, <1>h, <2>1, <2>4, <2>5
    <2>7. \A i \in DOMAIN matched : CandidateRead(full[i], matched[i])
      BY <1>0, <2>1 DEF Row, CandidateRead
    <2> HIDE DEF full
    <2> QED BY <1>g, <2>1, <2>4, <2>6, <2>7
  <1> QED BY <1>1, <1>2, <1>3, <1>4, <1>5, <1>6

\* A page that is complete: the scan goes on behind it, or the request is
\* answered.
ConsumeStep(full, listed) ==
    /\ rows' = full /\ page' = listed /\ matched' = matched \o Matching(ask, full)
    /\ \/ pc' = "list" /\ at' = listed.next /\ listed.more /\ (ask.kind = "walk" \/ Filtered(ask))
       \/ pc' = "done" /\ at' = at
    /\ UNCHANGED <<latest, ids>> /\ UNCHANGED <<stores, ask>>

LEMMA ConsumeIs ==
    ASSUME NEW full, NEW listed, listed.more \in BOOLEAN, Consume(full, listed)
    PROVE  ConsumeStep(full, listed)
  BY DEF Consume, ConsumeStep, NextPage, Respond, Read

LEMMA ReaderKinds ==
    ASSUME TypeOK, RowsOfTable, Reader
    PROVE  \/ \E q \in Requests : Begin(q)
           \/ ListPage \/ GetRows \/ ListDatasets
           \/ \E full, next : FillKind(full, next)
           \/ \E full : ConsumeKind(full)
           \/ \E full, next : CandidateKind(full, next)
           \/ collectLatestEvalRunsByDataset \/ collectEvalReportIDsByDataset \/ ReadRunBackedCases
           \/ collectEvalReportIDsForDataset \/ ListCases
           \/ Leave
  BY FillKinds, CandidateKinds DEF Reader, Deliver, QueryFails

\* A reader writes nothing.
LEMMA ReaderFrame ==
    ASSUME Reader
    PROVE  (\E q \in Requests : Begin(q)) \/ Leave \/ UNCHANGED <<stores, ask>>
  BY DEF Reader, ListPage, GetRows, ReadReportCases, ReadCompareCases, ReadBadCases, ReadEvalCaseCases,
         ReadRunItems, ReadRunCases, ReadRunReport, ReadDetailItems, ReadDetailReport, ReadDetailCases,
         ListDatasets, collectLatestEvalRunsByDataset, LookUpReports, ReadLatestBadCases,
         ReadLatestReportCases, ReadFallbackItems, collectEvalReportIDsByDataset, CountQueues, ReadNewestCase,
         ReadRunBackedCases, collectEvalReportIDsForDataset, ListCases, Deliver, QueryFails,
         Consume, Fill, FillCandidates, Read

\* The types hold with their rows.
TypesOK == TypeOK /\ RowsOfTable

LEMMA TablesTyped ==
    ASSUME StoresOK
    PROVE  /\ table.runs \in Seq(Runs) /\ table.reports \in Seq(Runs)
           /\ table.evalCases \in Seq(EvalCases) /\ table.datasets \in Seq(Datasets)
           /\ ask.kind \in RowKinds => /\ TableOf(ask) \in Tables
                                       /\ table[TableOf(ask)] \in Seq(Keys(TableOf(ask)))
                                       /\ Keys(TableOf(ask)) \subseteq AllKeys
  <1>1. \A t \in Tables : table[t] \in Seq(Keys(t))
    BY DEF StoresOK, IsListing
  <1>2. \A t \in Tables : Keys(t) \subseteq AllKeys
    BY DEF Tables, Keys, AllKeys
  <1>3. ask.kind \in RowKinds => TableOf(ask) \in Tables
    BY DEF RowKinds, TableOf, Tables
  <1>4. /\ table.runs \in Seq(Runs) /\ table.reports \in Seq(Runs)
        /\ table.evalCases \in Seq(EvalCases) /\ table.datasets \in Seq(Datasets)
    BY <1>1 DEF Tables, Keys
  <1> QED BY <1>1, <1>2, <1>3, <1>4

LEMMA SeqSub == ASSUME NEW S, NEW T, S \subseteq T, NEW s \in Seq(S) PROVE s \in Seq(T)
  OBVIOUS

LEMMA ScanLimitNat == ASSUME AskOK(ask) PROVE ScanLimit(ask) \in Nat \ {0}
  BY ConstantsAssumption DEF AskOK, ScanLimit, Greatest

\* The rows that Consume gathers are of the table.
LEMMA TypesConsume ==
    ASSUME TypesOK, NEW full \in Seq(Row), NEW listed \in [rows : Seq(AllKeys), more : BOOLEAN, next : Nat],
           ask.kind \in RowKinds, pc \in {"list"} \cup PagePcs, pc = "list" => full = <<>>,
           \A i \in DOMAIN full : full[i].id \in Keys(TableOf(ask)),
           ConsumeStep(full, listed), k' \in Nat \ {0}
    PROVE  TypesOK'
  <1>1. /\ AskOK(ask) /\ at \in Nat /\ matched \in Seq(Row) /\ latest \in [Datasets -> RunMet]
        /\ ids \in [Datasets -> Seq(Runs)] /\ ControlOK /\ StoresOK
    BY DEF TypesOK, TypeOK, ReaderOK
  <1>2. \A i \in DOMAIN matched : matched[i].id \in Keys(TableOf(ask))
    BY DEF TypesOK, RowsOfTable
  <1>3. PICK all : all = matched \o Matching(ask, full)
    OBVIOUS
  <1>4. /\ all \in Seq(Row)
        /\ \A j \in DOMAIN all : \/ j \in DOMAIN matched /\ all[j] = matched[j]
                                 \/ \E i \in DOMAIN full : Matches(ask, full[i]) /\ all[j] = full[i]
    <2>1. Gathered(ask, matched, full, all)
      BY <1>1, <1>3 DEF Gathered
    <2> QED BY <2>1, AllFacts
  <1>5. \A j \in DOMAIN all : all[j].id \in Keys(TableOf(ask))
    BY <1>2, <1>4
  <1>6. /\ matched' = all /\ rows' = full /\ page' = listed /\ UNCHANGED <<latest, ids>>
        /\ UNCHANGED <<stores, ask>> /\ at' \in Nat
        /\ \/ pc' = "list" /\ (ask.kind = "walk" \/ Filtered(ask))
           \/ pc' = "done"
    BY <1>1, <1>3 DEF ConsumeStep
  <1>7. StoresOK'
    BY <1>1, <1>6 DEF StoresOK, stores
  <1>8. ReaderOK'
    BY <1>1, <1>4, <1>6 DEF ReaderOK
  <1>9. ask.kind # "datasets" /\ ask.kind # "none"
    BY DEF RowKinds
  <1>10. Filtered(ask) => ask.kind # "run" /\ ask.keys = <<>>
    BY <1>1 DEF AskOK
  <1>11. ask.kind = "walk" => ask.keys = <<>>
    BY <1>1 DEF AskOK
  <1>12. ControlOK'
    BY <1>6, <1>9, <1>10, <1>11 DEF ControlOK, RowKinds
  <1>13. RowsOfTable'
    BY <1>5, <1>6, <1>9 DEF RowsOfTable, PagePcs
  <1> QED BY <1>7, <1>8, <1>12, <1>13 DEF TypesOK, TypeOK

\* A request begins or is over: nothing is gathered.
LEMMA TypesCleared ==
    ASSUME TypesOK, AskOK(ask)', at' \in Nat, Cleared, StoresOK', ControlOK', pc' \in {"idle", "list", "get", "ids"}
    PROVE  TypesOK'
  <1>1. /\ page' = NoPage /\ rows' = <<>> /\ k' = 1 /\ matched' = <<>>
        /\ latest' = [d \in Datasets |-> NoRun]
        /\ ids' = [d \in Datasets |-> <<>>]
    BY DEF Cleared
  <1>2. NoRun \in RunMet /\ NoPage \in [rows : Seq(AllKeys), more : BOOLEAN, next : Nat]
    BY DEF NoRun, RunMet, NoPage
  <1>3. ReaderOK'
    BY <1>1, <1>2 DEF ReaderOK
  <1>4. RowsOfTable'
    BY <1>1 DEF RowsOfTable, PagePcs, ReportsOfRuns
  <1> QED BY <1>3, <1>4 DEF TypesOK, TypeOK

LEMMA TypesInit == Init => TypesOK
  <1> SUFFICES ASSUME Init PROVE TypesOK
    OBVIOUS
  <1>1. /\ DOMAIN Start = Tables /\ \A t \in Tables : IsListing(t, Start[t])
        /\ Seeds \subseteq Seq(Cases) /\ \A seed \in Seeds : \A i \in DOMAIN seed : Exists(Start, seed[i])
    BY ConstantsAssumption
  <1>2. Start.reports \in Seq(Runs)
    BY <1>1 DEF Tables, IsListing, Keys
  <1>3. Range(Start.reports) \in SUBSET Runs
    BY <1>2 DEF Range
  <1>4. StoresOK
    BY <1>1, <1>3 DEF Init, StoresOK
  <1>5. NoRun \in RunMet /\ NoPage \in [rows : Seq(AllKeys), more : BOOLEAN, next : Nat]
    BY DEF NoRun, RunMet, NoPage
  <1>6. ReaderOK
    BY <1>5, RequestsOK DEF Init, ReaderOK
  <1>7. ask.kind = "none" /\ ask.keys = <<>>
    BY DEF Init, NoAsk, Ask
  <1>8. ControlOK
    BY <1>7 DEF Init, ControlOK
  <1>9. RowsOfTable
    BY <1>7 DEF Init, RowsOfTable, PagePcs, RowKinds
  <1> QED BY <1>4, <1>6, <1>8, <1>9 DEF TypesOK, TypeOK

LEMMA TypesReader ==
    ASSUME TypesOK, Reader
    PROVE  TypesOK'
  <1>0. TypeOK /\ RowsOfTable /\ StoresOK /\ ReaderOK /\ ControlOK
    BY DEF TypesOK, TypeOK
  <1>1. /\ AskOK(ask) /\ at \in Nat /\ matched \in Seq(Row) /\ rows \in Seq(Row) /\ k \in Nat \ {0}
        /\ page \in [rows : Seq(AllKeys), more : BOOLEAN, next : Nat] /\ page.more \in BOOLEAN
        /\ latest \in [Datasets -> RunMet] /\ ids \in [Datasets -> Seq(Runs)]
    BY <1>0 DEF ReaderOK
  <1>r. TypeOK /\ RowsOfTable /\ Reader
    BY <1>0
  <1>t. /\ table.runs \in Seq(Runs) /\ table.reports \in Seq(Runs)
        /\ table.evalCases \in Seq(EvalCases) /\ table.datasets \in Seq(Datasets)
        /\ ask.kind \in RowKinds => /\ TableOf(ask) \in Tables
                                    /\ table[TableOf(ask)] \in Seq(Keys(TableOf(ask)))
                                    /\ Keys(TableOf(ask)) \subseteq AllKeys
    BY <1>0, TablesTyped
  <1>u. stores' = stores => StoresOK'
    BY <1>0 DEF StoresOK, stores
  <1>l. ScanLimit(ask) \in Nat \ {0} /\ BulkLimit \in Nat \ {0}
    BY <1>1, ScanLimitNat, ConstantsAssumption
  <1>2. ASSUME NEW q \in Requests, Begin(q) PROVE TypesOK'
    <2>1. AskOK(q) /\ q.kind # "none"
      BY RequestsOK
    <2>2. ask' = q /\ at' = ScanStart(q) /\ Cleared
      BY <1>2 DEF Begin
    <2>3. at' \in Nat
      BY <2>1, <2>2 DEF ScanStart, AskOK
    <2>4. pc' = IF q.keys # <<>> THEN "get" ELSE IF q.kind = "caseQueue" THEN "ids" ELSE "list"
      BY <1>2 DEF Begin
    <2>5. ControlOK'
      BY <2>1, <2>2, <2>4 DEF ControlOK, AskOK
    <2>6. StoresOK'
      <3>1. UNCHANGED <<table, finished, cases, changes>> /\ touched' = [t \in Tables |-> {}] /\ stale' = FALSE
        BY <1>2 DEF Begin
      <3> QED BY <1>0, <3>1 DEF StoresOK
    <2>7. AskOK(ask)'
      BY <2>1, <2>2 DEF AskOK, Filtered, TableOf
    <2> QED BY <2>2, <2>3, <2>4, <2>5, <2>6, <2>7, TypesCleared
  <1>3. CASE Leave
    <2>1. ask' = NoAsk /\ pc' = "idle" /\ at' = 0 /\ Cleared /\ StoresOK'
      BY <1>3, <1>u DEF Leave
    <2>2. AskOK(NoAsk) /\ NoAsk.kind = "none" /\ NoAsk.keys = <<>>
      BY RequestsOK DEF NoAsk, Ask
    <2>3. AskOK(ask)'
      BY <2>1, <2>2 DEF AskOK, Filtered, TableOf
    <2>4. ControlOK'
      BY <2>1, <2>2 DEF ControlOK
    <2> QED BY <2>1, <2>3, <2>4, TypesCleared
  <1>4. CASE ListPage
    <2> DEFINE listed == Page(table[TableOf(ask)], at, ScanLimit(ask))
    <2>1. pc = "list" /\ ask.kind # "datasets" /\ k' = 1
      BY <1>4 DEF ListPage
    <2>2. ask.kind \in RowKinds /\ ask.kind # "run" /\ ask.keys = <<>>
      BY <1>0, <2>1 DEF ControlOK, RowKinds
    <2>3. PageOf(Keys(TableOf(ask)), table[TableOf(ask)], at, ScanLimit(ask), listed)
      BY <1>1, <1>t, <1>l, <2>2 DEF PageOf
    <2>4. listed \in [rows : Seq(Keys(TableOf(ask))), more : BOOLEAN, next : Nat]
      BY <2>3, PageIs
    <2>5. CASE listed.rows = <<>> /\ Consume(<<>>, listed)
      <3> HIDE DEF listed
      <3>1. listed.rows \in Seq(AllKeys) /\ listed.more \in BOOLEAN /\ listed.next \in Nat
        BY <2>4, <2>5
      <3>2. listed \in [rows : Seq(AllKeys), more : BOOLEAN, next : Nat]
        BY <2>4, <3>1
      <3>3. ConsumeStep(<<>>, listed)
        BY <2>5, <3>1, ConsumeIs
      <3>4. <<>> \in Seq(Row) /\ \A i \in DOMAIN <<>> : <<>>[i].id \in Keys(TableOf(ask))
        OBVIOUS
      <3>5. k' \in Nat \ {0} /\ pc \in {"list"} \cup PagePcs
        BY <2>1
      <3> QED BY <2>2, <3>2, <3>3, <3>4, <3>5, TypesConsume
    <2>6. CASE listed.rows # <<>> /\ rows' = NewRows(listed.rows) /\ page' = listed
               /\ pc' = (IF ask.kind = "runs" THEN "items" ELSE "linked")
               /\ UNCHANGED <<at, matched, latest, ids, resp>> /\ Read
      <3> HIDE DEF listed
      <3>1. listed.rows \in Seq(AllKeys) /\ listed.rows \in Seq(Keys(TableOf(ask))) /\ listed.rows # <<>>
        BY <1>t, <2>2, <2>4, <2>6
      <3>2. listed \in [rows : Seq(AllKeys), more : BOOLEAN, next : Nat]
        BY <2>4, <3>1
      <3>3. /\ NewRows(listed.rows) \in Seq(Row) /\ DOMAIN NewRows(listed.rows) = DOMAIN listed.rows
            /\ \A i \in DOMAIN listed.rows : NewRows(listed.rows)[i].id = listed.rows[i]
        BY <3>1, NewRowsFacts
      <3>4. UNCHANGED <<stores, ask>>
        BY <2>6 DEF Read
      <3>5. ReaderOK'
        BY <1>1, <2>1, <2>6, <3>2, <3>3, <3>4 DEF ReaderOK
      <3>6. ControlOK'
        BY <1>0, <2>1, <2>2, <2>6, <3>4 DEF ControlOK, RowKinds
      <3>7. 1 \in DOMAIN listed.rows
        BY <3>1
      <3>8. \A i \in DOMAIN rows' : rows'[i].id \in Keys(TableOf(ask))
        BY <2>6, <3>1, <3>3
      <3>9. \A i \in DOMAIN matched : matched[i].id \in Keys(TableOf(ask))
        BY <1>0, <2>2 DEF RowsOfTable
      <3>10. RowsOfTable'
        BY <2>1, <2>2, <2>6, <3>3, <3>4, <3>7, <3>8, <3>9 DEF RowsOfTable, RowKinds
      <3> QED BY <1>u, <3>4, <3>5, <3>6, <3>10 DEF TypesOK, TypeOK
    <2> QED BY <1>4, <2>5, <2>6 DEF ListPage
  <1>5. CASE GetRows
    <2>1. pc = "get" /\ UNCHANGED <<page, k, latest, ids>> /\ UNCHANGED <<stores, ask>>
      BY <1>5 DEF GetRows, Read
    <2>2. /\ ask.keys # <<>> /\ ask.keys \in Seq(Keys(TableOf(ask)))
          /\ ask.kind \in {"reports", "run", "evalCases", "datasets"}
      BY <1>0, <1>1, <2>1 DEF ControlOK, AskOK
    <2>3. ask.keys \in Seq(AllKeys)
      BY <2>2 DEF Keys, TableOf, AllKeys
    <2>4. /\ NewRows(ask.keys) \in Seq(Row) /\ DOMAIN NewRows(ask.keys) = DOMAIN ask.keys
          /\ \A i \in DOMAIN ask.keys : NewRows(ask.keys)[i].id = ask.keys[i] /\ NewRows(ask.keys)[i] = NewRow(ask.keys[i])
      BY <2>3, NewRowsFacts
    <2>5. \A i \in DOMAIN NewRows(ask.keys) : NewRows(ask.keys)[i].id \in Keys(TableOf(ask))
                                             /\ NewRows(ask.keys)[i].hasReport = FALSE
      <3>1. \A i \in DOMAIN ask.keys : NewRows(ask.keys)[i].hasReport = FALSE
        BY <2>4, NewRowEmpty
      <3>2. \A i \in DOMAIN ask.keys : NewRows(ask.keys)[i].id \in Keys(TableOf(ask))
        BY <2>2, <2>4
      <3> QED BY <2>4, <3>1, <3>2, Zenon
    <2>6. CASE pc' = "done" /\ UNCHANGED <<at, rows, matched>>
      <3>1. ReaderOK'
        BY <1>1, <2>1, <2>6 DEF ReaderOK
      <3>2. ControlOK'
        BY <1>0, <2>1, <2>2, <2>6 DEF ControlOK
      <3>3. RowsOfTable'
        BY <1>0, <2>1, <2>2, <2>6 DEF RowsOfTable, PagePcs, RowKinds
      <3> QED BY <1>u, <2>1, <3>1, <3>2, <3>3 DEF TypesOK, TypeOK
    <2>7. CASE ask.kind = "datasets" /\ matched' = NewRows(ask.keys) /\ pc' = "latest" /\ UNCHANGED <<at, rows, resp>>
      <3>1. ReaderOK'
        BY <1>1, <2>1, <2>4, <2>7 DEF ReaderOK
      <3>2. ControlOK'
        BY <1>0, <2>1, <2>2, <2>7 DEF ControlOK
      <3>3. Keys(TableOf(ask)) = Datasets
        BY <2>7 DEF TableOf, Keys
      <3>4. RowsOfTable'
        BY <2>1, <2>5, <2>7, <3>3 DEF RowsOfTable, RowKinds, ReportsOfRuns
      <3> QED BY <1>u, <2>1, <3>1, <3>2, <3>4 DEF TypesOK, TypeOK
    <2>8. CASE ask.kind # "datasets" /\ rows' = NewRows(ask.keys)
               /\ pc' = (IF ask.kind = "run" THEN "items" ELSE "linked") /\ UNCHANGED <<at, matched, resp>>
      <3>1. ReaderOK'
        BY <1>1, <2>1, <2>4, <2>8 DEF ReaderOK
      <3>2. ControlOK'
        BY <1>0, <2>1, <2>2, <2>8 DEF ControlOK
      <3>3. RowsOfTable'
        BY <1>0, <2>1, <2>2, <2>5, <2>8 DEF RowsOfTable, RowKinds
      <3> QED BY <1>u, <2>1, <3>1, <3>2, <3>3 DEF TypesOK, TypeOK
    <2> QED BY <1>5, <2>6, <2>7, <2>8 DEF GetRows, Respond
  <1>6. ASSUME NEW full, NEW next, FillKind(full, next) PROVE TypesOK'
    <2>1. /\ full \in Seq(Row) /\ DOMAIN full = DOMAIN rows /\ (\A i \in DOMAIN rows : full[i].id = rows[i].id)
          /\ rows' = full /\ pc' = next /\ k' \in Nat \ {0} /\ (ask.kind = "runs" => k' \in DOMAIN rows)
          /\ UNCHANGED <<at, page, matched, latest, ids, resp>> /\ UNCHANGED <<stores, ask>>
      BY <1>6 DEF FillKind, SameRows
    <2>2. ReaderOK'
      BY <1>1, <2>1 DEF ReaderOK
    <2>3. ControlOK'
      BY <1>0, <1>6, <2>1 DEF ControlOK, FillKind, PagePcs, RowKinds
    <2>4. RowsOfTable'
      BY <1>0, <1>6, <2>1 DEF RowsOfTable, FillKind, RowKinds
    <2> QED BY <1>u, <2>1, <2>2, <2>3, <2>4 DEF TypesOK, TypeOK
  <1>7. ASSUME NEW full, ConsumeKind(full) PROVE TypesOK'
    <2>1. /\ full \in Seq(Row) /\ DOMAIN full = DOMAIN rows /\ (\A i \in DOMAIN rows : full[i].id = rows[i].id)
          /\ pc \in PagePcs /\ ask.kind \in RowKinds /\ Consume(full, page) /\ k' = k
      BY <1>7 DEF ConsumeKind, SameRows
    <2>2. ConsumeStep(full, page)
      BY <1>1, <2>1, ConsumeIs
    <2>3. \A i \in DOMAIN full : full[i].id \in Keys(TableOf(ask))
      BY <1>0, <2>1 DEF RowsOfTable
    <2>4. pc # "list" /\ pc \in {"list"} \cup PagePcs /\ k' \in Nat \ {0}
      BY <1>1, <2>1 DEF PagePcs
    <2> QED BY <1>1, <2>1, <2>2, <2>3, <2>4, TypesConsume
  <1>8. CASE ListDatasets
    <2> DEFINE listed == Page(table.datasets, at, ScanLimit(ask))
               all == matched \o NewRows(listed.rows)
    <2>1. pc = "list" /\ ask.kind = "datasets" /\ UNCHANGED <<rows, k, latest, ids>> /\ UNCHANGED <<stores, ask>>
      BY <1>8 DEF ListDatasets, Read
    <2>2. PageOf(Datasets, table.datasets, at, ScanLimit(ask), listed)
      BY <1>1, <1>t, <1>l DEF PageOf
    <2>3. listed \in [rows : Seq(Datasets), more : BOOLEAN, next : Nat]
      BY <2>2, PageIs
    <2>4. page' = listed /\ matched' = all /\ at' \in Nat /\ pc' \in {"list", "latest", "done"}
      <3>1. /\ page' = listed /\ matched' = all
            /\ \/ pc' = "list" /\ at' = listed.next
               \/ pc' \in {"latest", "done"} /\ at' = 0
        <4> HIDE DEF listed, all
        <4> QED BY <1>8 DEF ListDatasets, NextPage, listed, all
      <3> HIDE DEF listed, all
      <3> QED BY <2>3, <3>1
    <2> HIDE DEF listed
    <2>5. listed.rows \in Seq(Datasets) /\ listed.rows \in Seq(AllKeys)
      BY <2>3 DEF AllKeys
    <2>6. listed \in [rows : Seq(AllKeys), more : BOOLEAN, next : Nat]
      BY <2>3, <2>5
    <2>7. PICK new : new = NewRows(listed.rows)
      OBVIOUS
    <2>8. /\ new \in Seq(Row) /\ DOMAIN new = DOMAIN listed.rows
          /\ \A i \in DOMAIN listed.rows : new[i] = NewRow(listed.rows[i]) /\ new[i].id = listed.rows[i]
      BY <2>5, <2>7, NewRowsFacts
    <2>9. \A i \in DOMAIN new : new[i].id \in Datasets /\ new[i].hasReport = FALSE
      <3>1. \A i \in DOMAIN listed.rows : new[i].hasReport = FALSE
        BY <2>8, NewRowEmpty
      <3>2. \A i \in DOMAIN listed.rows : new[i].id \in Datasets
        BY <2>5, <2>8
      <3> QED BY <2>8, <3>1, <3>2, Zenon
    <2>10. /\ all \in Seq(Row) /\ Len(all) = Len(matched) + Len(new)
           /\ \A i \in 1..Len(matched) + Len(new) : all[i] = IF i <= Len(matched) THEN matched[i] ELSE new[i - Len(matched)]
      BY <1>1, <2>7, <2>8, ConcatProperties
    <2> HIDE DEF all
    <2>11. \A j \in DOMAIN all : (j \in DOMAIN matched /\ all[j] = matched[j]) \/ (\E i \in DOMAIN new : all[j] = new[i])
      <3> SUFFICES ASSUME NEW j \in DOMAIN all
                   PROVE  (j \in DOMAIN matched /\ all[j] = matched[j]) \/ (\E i \in DOMAIN new : all[j] = new[i])
        OBVIOUS
      <3>1. Len(matched) \in Nat /\ Len(new) \in Nat /\ j \in 1..Len(matched) + Len(new)
        BY <1>1, <2>8, <2>10
      <3>2. CASE j <= Len(matched)
        BY <1>1, <2>10, <3>1, <3>2
      <3>3. CASE ~(j <= Len(matched))
        <4>1. j - Len(matched) \in 1..Len(new)
          BY <3>1, <3>3
        <4> QED BY <2>8, <2>10, <3>1, <3>3, <4>1
      <3> QED BY <3>2, <3>3
    <2>12. ReaderOK'
      BY <1>1, <2>1, <2>4, <2>6, <2>10 DEF ReaderOK
    <2>13. ControlOK'
      BY <1>0, <2>1, <2>4 DEF ControlOK
    <2>14. RowsOfTable'
      BY <1>0, <2>1, <2>4, <2>9, <2>11 DEF RowsOfTable, RowKinds, ReportsOfRuns
    <2> QED BY <1>u, <2>1, <2>12, <2>13, <2>14 DEF TypesOK, TypeOK
  <1>9. ASSUME NEW full, NEW next, CandidateKind(full, next) PROVE TypesOK'
    <2>1. /\ full \in Seq(Row) /\ DOMAIN full = DOMAIN matched /\ (\A i \in DOMAIN matched : full[i].id = matched[i].id)
          /\ matched' = full /\ pc' = next /\ ReportsOfRuns(full)
          /\ UNCHANGED <<at, page, rows, k, latest, ids, resp>> /\ UNCHANGED <<stores, ask>>
          /\ ask.kind = "datasets" /\ next \in {"bad", "linked", "items", "ids", "newest", "backed"}
      BY <1>9 DEF CandidateKind, SameRows
    <2>2. ReaderOK'
      BY <1>1, <2>1 DEF ReaderOK
    <2>3. ControlOK'
      BY <1>0, <2>1 DEF ControlOK
    <2>4. RowsOfTable'
      BY <1>0, <2>1 DEF RowsOfTable, RowKinds, ReportsOfRuns
    <2> QED BY <1>u, <2>1, <2>2, <2>3, <2>4 DEF TypesOK, TypeOK
  <1>10. CASE collectLatestEvalRunsByDataset
    <2> DEFINE listed == Page(table.runs, at, BulkLimit)
    <2>1. pc = "latest" /\ UNCHANGED <<page, rows, k, matched, ids, resp>> /\ UNCHANGED <<stores, ask>>
          /\ latest' = LatestRuns(listed.rows) /\ at' \in {0, listed.next} /\ pc' \in {"report", "latest"}
      BY <1>10 DEF collectLatestEvalRunsByDataset, Read
    <2>2. PageOf(Runs, table.runs, at, BulkLimit, listed)
      BY <1>1, <1>t, <1>l DEF PageOf
    <2>3. listed.rows \in Seq(Runs) /\ listed.next \in Nat
      BY <1>1, <1>l, <2>2, PageIs
    <2> HIDE DEF listed
    <2>4. LatestRuns(listed.rows) \in [Datasets -> RunMet]
      <3>1. ASSUME NEW d \in Datasets, RunsOf(listed.rows, d) # {} PROVE NewestRun(listed.rows, d) \in RunMet
        <4>1. RunsOf(listed.rows, d) \in SUBSET Nat /\ RunsOf(listed.rows, d) \subseteq DOMAIN listed.rows
          BY <2>3 DEF RunsOf
        <4>2. First(RunsOf(listed.rows, d)) \in RunsOf(listed.rows, d)
          BY <3>1, <4>1, FirstIsLeast
        <4>3. listed.rows[First(RunsOf(listed.rows, d))] \in Runs
          BY <2>3, <4>1, <4>2
        <4> QED BY <4>3 DEF NewestRun, RunMet
      <3>2. \A d \in Datasets : LatestRuns(listed.rows)[d] \in RunMet
        BY <1>1, <3>1 DEF LatestRuns
      <3> QED BY <3>2 DEF LatestRuns
    <2>5. ReaderOK'
      BY <1>1, <2>1, <2>3, <2>4 DEF ReaderOK
    <2>6. ask.kind = "datasets"
      BY <1>0, <2>1 DEF ControlOK
    <2>7. ControlOK'
      BY <1>0, <2>1, <2>6 DEF ControlOK
    <2>8. RowsOfTable'
      BY <1>0, <2>1, <2>6 DEF RowsOfTable, RowKinds
    <2> QED BY <1>u, <2>1, <2>5, <2>7, <2>8 DEF TypesOK, TypeOK
  <1>11. CASE collectEvalReportIDsByDataset
    <2> DEFINE listed == Page(table.reports, at, BulkLimit)
    <2>1. /\ pc = "ids" /\ ask.kind = "datasets" /\ UNCHANGED <<page, rows, k, matched, latest, resp>>
          /\ UNCHANGED <<stores, ask>> /\ at' \in {0, listed.next} /\ pc' \in {"ids", "counts"}
          /\ ids' = [d \in Datasets |->
                        IF d \in Targets THEN ids[d] \o Picked(listed.rows, RunsOf(listed.rows, d)) ELSE <<>>]
      BY <1>11 DEF collectEvalReportIDsByDataset, Read
    <2>2. PageOf(Runs, table.reports, at, BulkLimit, listed)
      BY <1>1, <1>t, <1>l DEF PageOf
    <2>3. listed.rows \in Seq(Runs) /\ listed.next \in Nat
      BY <1>1, <1>l, <2>2, PageIs
    <2> HIDE DEF listed
    <2>4. \A d \in Datasets : ids[d] \o Picked(listed.rows, RunsOf(listed.rows, d)) \in Seq(Runs)
      <3> SUFFICES ASSUME NEW d \in Datasets PROVE ids[d] \o Picked(listed.rows, RunsOf(listed.rows, d)) \in Seq(Runs)
        OBVIOUS
      <3>1. RunsOf(listed.rows, d) \in SUBSET DOMAIN listed.rows
        BY DEF RunsOf
      <3>2. Picked(listed.rows, RunsOf(listed.rows, d)) \in Seq(Runs)
        BY <2>3, <3>1, PickedFacts
      <3> QED BY <1>1, <3>2
    <2>5. ids' \in [Datasets -> Seq(Runs)]
      BY <2>1, <2>4
    <2>6. ReaderOK'
      BY <1>1, <2>1, <2>3, <2>5 DEF ReaderOK
    <2>7. ControlOK'
      BY <1>0, <2>1 DEF ControlOK
    <2>8. RowsOfTable'
      BY <1>0, <2>1 DEF RowsOfTable, RowKinds
    <2> QED BY <1>u, <2>1, <2>6, <2>7, <2>8 DEF TypesOK, TypeOK
  <1>12. CASE ReadRunBackedCases
    <2> DEFINE s(i) == IF matched[i].latest = "none" THEN NoSummary
                       ELSE SummarizeBySourceEvalRunIDs(cases, matched[i].latest)
               full == [i \in DOMAIN matched |-> [matched[i] EXCEPT !.backed = s(i)]]
    <2>1. pc = "backed" /\ UNCHANGED <<page, rows, k, latest, ids>> /\ UNCHANGED <<stores, ask>>
          /\ matched' = full /\ pc' = "done" /\ at' = at
      BY <1>12 DEF ReadRunBackedCases, Respond, Read
    <2>2. NoSummary \in Summaries /\ \A x : SummarizeBySourceEvalRunIDs(cases, x) \in Summaries
      <3>1. cases \in Seq(Cases)
        BY <1>0 DEF StoresOK
      <3> QED BY <3>1, ReadTypes DEF NoSummary, Summaries, NoCase
    <2>3. \A i \in DOMAIN matched : s(i) \in Summaries
      BY <2>2
    <2>m. \A i \in DOMAIN matched : matched[i] \in Row
      BY <1>1
    <2>4. \A i \in DOMAIN matched : full[i] \in Row /\ full[i].id = matched[i].id
      <3> HIDE DEF s
      <3> QED BY <2>m, <2>3, RowUpdates
    <2>5. SameRows(full, matched)
      BY <1>1, <2>4, SameRowsFill
    <2>6. \A i \in DOMAIN matched : full[i].hasReport = matched[i].hasReport /\ full[i].latest = matched[i].latest
      BY <2>m DEF Row
    <2> HIDE DEF full
    <2>7. ReaderOK'
      BY <1>1, <2>1, <2>5 DEF ReaderOK, SameRows
    <2>8. ask.kind = "datasets"
      BY <1>0, <2>1 DEF ControlOK
    <2>9. ControlOK'
      BY <1>0, <2>1, <2>8 DEF ControlOK
    <2>10. RowsOfTable'
      BY <1>0, <2>1, <2>5, <2>6, <2>8 DEF RowsOfTable, RowKinds, ReportsOfRuns, SameRows
    <2> QED BY <1>u, <2>1, <2>7, <2>9, <2>10 DEF TypesOK, TypeOK
  <1>13. CASE collectEvalReportIDsForDataset
    <2> DEFINE own == Picked(table.reports, RunsOf(table.reports, ask.dataset))
               listed == Page(own, at, BulkLimit)
               old == ids[ask.dataset]
               fresh == {i \in DOMAIN listed.rows : listed.rows[i] \notin Range(old)}
               new == old \o Picked(listed.rows, fresh)
    <2>1. /\ pc = "ids" /\ ask.kind = "caseQueue" /\ UNCHANGED <<page, rows, k, matched, latest, resp>>
          /\ UNCHANGED <<stores, ask>> /\ at' \in {at, listed.next} /\ pc' \in {"ids", "cases", "done"}
          /\ ids' = [ids EXCEPT ![ask.dataset] = new]
      BY <1>13 DEF collectEvalReportIDsForDataset, Read
    <2>2. ask.dataset \in Datasets
      BY <1>1, <2>1 DEF AskOK
    <2>3. own \in Seq(Runs)
      BY <1>t, PickedFacts DEF RunsOf
    <2> HIDE DEF own
    <2>4. PageOf(Runs, own, at, BulkLimit, listed)
      BY <1>1, <1>l, <2>3 DEF PageOf
    <2>5. listed.rows \in Seq(Runs) /\ listed.next \in Nat
      BY <1>1, <1>l, <2>4, PageIs
    <2> HIDE DEF listed
    <2>6. Picked(listed.rows, fresh) \in Seq(Runs)
      BY <2>5, PickedFacts
    <2> HIDE DEF fresh
    <2>7. new \in Seq(Runs)
      BY <1>1, <2>2, <2>6
    <2> HIDE DEF new
    <2>8. ReaderOK'
      BY <1>1, <2>1, <2>2, <2>5, <2>7 DEF ReaderOK
    <2>9. ControlOK'
      BY <1>0, <2>1 DEF ControlOK
    <2>10. RowsOfTable'
      BY <1>0, <2>1 DEF RowsOfTable, RowKinds
    <2> QED BY <1>u, <2>1, <2>8, <2>9, <2>10 DEF TypesOK, TypeOK
  <1>14. CASE ListCases
    <2>1. pc = "cases" /\ UNCHANGED <<page, rows, k, matched, latest, ids>> /\ UNCHANGED <<stores, ask>>
          /\ pc' = "done" /\ at' = at
      BY <1>14 DEF ListCases, Respond, Read
    <2>2. ask.kind = "caseQueue"
      BY <1>0, <2>1 DEF ControlOK
    <2>3. ReaderOK'
      BY <1>1, <2>1 DEF ReaderOK
    <2>4. ControlOK'
      BY <1>0, <2>1, <2>2 DEF ControlOK
    <2>5. RowsOfTable'
      BY <1>0, <2>1, <2>2 DEF RowsOfTable, RowKinds
    <2> QED BY <1>u, <2>1, <2>3, <2>4, <2>5 DEF TypesOK, TypeOK
  <1> QED BY <1>r, <1>2, <1>3, <1>4, <1>5, <1>6, <1>7, <1>8, <1>9, <1>10, <1>11, <1>12, <1>13, <1>14, ReaderKinds

LEMMA TypesStep == TypesOK /\ [Next]_vars => TypesOK'
  <1>1. ASSUME TypesOK, Others PROVE TypesOK'
    <2>1. StoresOK'
      BY <1>1, StoresWrites DEF TypesOK, TypeOK
    <2>2. UNCHANGED readerVars
      BY <1>1, OthersKinds DEF TypesOK, TypeOK, CaseWrite, RowWrite
    <2>3. ReaderOK'
      BY <1>1, <2>2 DEF TypesOK, TypeOK, ReaderOK, readerVars
    <2>4. ControlOK' /\ RowsOfTable'
      BY <1>1, <2>2 DEF TypesOK, TypeOK, ControlOK, RowsOfTable, readerVars
    <2> QED BY <2>1, <2>3, <2>4 DEF TypesOK, TypeOK
  <1>2. ASSUME TypesOK, UNCHANGED vars PROVE TypesOK'
    BY <1>2 DEF TypesOK, TypeOK, StoresOK, ReaderOK, ControlOK, RowsOfTable, vars, stores
  <1> QED BY <1>1, <1>2, TypesReader DEF Next

\* The tables keep their rows and the reader its rows, runs and reports.
THEOREM TypeCorrect == Spec => []TypeOK
  <1>1. TypesOK => TypeOK
    BY DEF TypesOK
  <1> QED BY <1>1, TypesInit, TypesStep, PTL DEF Spec

(***************************************************************************)
(* The latest run of a dataset.                                            *)
(***************************************************************************)

\* Position i of table t holds a row that was not written since the request began.
StillAt(t, i) == i \in DOMAIN table[t] /\ table[t][i] \notin touched[t]

StillRun(d, i) == StillAt("runs", i) /\ DatasetOf[table.runs[i]] = d

\* r was written during the request, or no such run of d is in front of it.
IsNewest(d, r) ==
    \/ r \in touched.runs
    \/ \E j \in DOMAIN table.runs :
          /\ table.runs[j] = r /\ DatasetOf[r] = d
          /\ \A i \in DOMAIN table.runs : StillRun(d, i) => j <= i

AfterScan == {"report", "bad", "linked", "items", "ids", "counts", "newest", "backed", "done"}

\* Until a dataset has a run, its runs that nobody wrote are still in front of
\* the scan.
NewestInv ==
    ask.kind = "datasets" =>
        /\ pc \in {"list", "get"} => \A d \in Datasets : latest[d] = NoRun
        /\ pc = "get" => at = 0 /\ matched = <<>>
        /\ \A d \in Targets :
              /\ pc \in {"latest"} \cup AfterScan /\ latest[d] # NoRun => IsNewest(d, latest[d].run)
              /\ pc = "latest" /\ latest[d] = NoRun => \A i \in DOMAIN table.runs : StillRun(d, i) => at < i
              /\ pc \in AfterScan /\ latest[d] = NoRun => \A i \in DOMAIN table.runs : ~StillRun(d, i)
        /\ pc \in AfterScan \ {"report"} => \A i \in DOMAIN matched : matched[i].latest = latest[matched[i].id].run

\* Where a row of table u was before a write moved the one at n of table t to l.
Origin(t, n, l, u, i) == IF u = t THEN Was(n, l, i) ELSE i

\* A write moves the rows of table u that nobody wrote backwards, if at all, and
\* leaves them in their order.
StillMoves(t, key, n, l, u) ==
    /\ touched[u] \subseteq touched'[u]
    /\ u = t => touched'[u] = touched[u] \cup {key}
    /\ u # t => table'[u] = table[u] /\ touched'[u] = touched[u]
    /\ Range(table'[u]) = IF u = t THEN Range(table[u]) \cup {key} ELSE Range(table[u])
    /\ \A i \in DOMAIN table'[u] : table'[u][i] \notin touched'[u] =>
          /\ Origin(t, n, l, u, i) \in DOMAIN table[u] /\ Origin(t, n, l, u, i) <= i
          /\ table[u][Origin(t, n, l, u, i)] = table'[u][i]
          /\ table'[u][i] \notin touched[u]
    /\ \A j \in DOMAIN table[u] : table[u][j] \notin touched'[u] =>
          \E i \in DOMAIN table'[u] : table'[u][i] = table[u][j] /\ Origin(t, n, l, u, i) = j
    /\ \A i, j \in DOMAIN table'[u] :
          i < j /\ table'[u][i] \notin touched'[u] => Origin(t, n, l, u, i) < Origin(t, n, l, u, j)

LEMMA RowMoves ==
    ASSUME StoresOK, pc # "idle", NEW t, NEW key, NEW n, NEW l, RowWrite(t, key, n, l), NEW u \in Tables
    PROVE  StillMoves(t, key, n, l, u)
  <1>1. /\ t \in Tables /\ key \in Keys(t) /\ PlaceOf(key, n, table[t]) /\ l \in 1..n
        /\ table' = [table EXCEPT ![t] = Move(key, n, l, table[t])]
        /\ touched' = [touched EXCEPT ![t] = touched[t] \cup {key}]
    BY DEF RowWrite
  <1>2. DOMAIN table = Tables /\ DOMAIN touched = Tables
    BY DEF StoresOK
  <1>3. /\ table'[t] = Move(key, n, l, table[t]) /\ touched'[t] = touched[t] \cup {key}
        /\ u # t => table'[u] = table[u] /\ touched'[u] = touched[u]
    BY <1>1, <1>2
  <1>4. /\ table[t] \in Seq(Keys(t)) /\ \A i, j \in DOMAIN table[t] : table[t][i] = table[t][j] => i = j
        /\ table[u] \in Seq(Keys(u))
    BY <1>1 DEF StoresOK, IsListing
  <1>5. PICK list, new : list = table[t] /\ new = table'[t]
    OBVIOUS
  <1>6. /\ new \in Seq(Keys(t)) /\ Range(new) = Range(list) \cup {key}
        /\ \A i, j \in DOMAIN new : new[i] = new[j] => i = j
        /\ \A i \in DOMAIN new : new[i] # key =>
             \E j \in DOMAIN list : list[j] = new[i] /\ j <= i /\ j = Was(n, l, i) /\ i # l
        /\ \A j \in DOMAIN list : list[j] # key =>
             \E i \in DOMAIN new : list[j] = new[i] /\ j <= i /\ j = Was(n, l, i) /\ i # l
        /\ \A i, j \in Int : i < j /\ i # l => Was(n, l, i) < Was(n, l, j)
    BY <1>1, <1>3, <1>4, <1>5, MoveListing
  <1>7. CASE u = t
    <2>1. /\ \A i \in DOMAIN new : new[i] \notin touched'[t] =>
                Was(n, l, i) \in DOMAIN list /\ Was(n, l, i) <= i /\ list[Was(n, l, i)] = new[i] /\ new[i] \notin touched[t] /\ i # l
          /\ \A j \in DOMAIN list : list[j] \notin touched'[t] => \E i \in DOMAIN new : new[i] = list[j] /\ Was(n, l, i) = j
      BY <1>3, <1>6
    <2>2. \A i \in DOMAIN new : i \in Int
      BY <1>6
    <2>3. \A i, j \in DOMAIN new : i < j /\ new[i] \notin touched'[t] => Was(n, l, i) < Was(n, l, j)
      BY <1>6, <2>1, <2>2
    <2> QED BY <1>3, <1>5, <1>6, <1>7, <2>1, <2>3 DEF Origin, StillMoves
  <1>8. CASE u # t
    <2>1. table'[u] = table[u] /\ touched'[u] = touched[u] /\ \A i : Origin(t, n, l, u, i) = i
      BY <1>3, <1>8 DEF Origin
    <2>2. \A i \in DOMAIN table[u] : i \in Int
      BY <1>4
    <2>3. \A i \in DOMAIN table[u] : i <= i
      BY <2>2
    <2> QED BY <1>8, <2>1, <2>3 DEF StillMoves
  <1> QED BY <1>7, <1>8

\* Outside a request nothing is remembered of a write.
LEMMA WritesOf ==
    ASSUME TypesOK, Others
    PROVE  /\ UNCHANGED readerVars /\ StoresOK
           /\ \/ CaseWrite
              \/ \E t \in Tables : \E key \in Keys(t) : \E n, l \in Nat : RowWrite(t, key, n, l)
  <1>1. StoresOK
    BY DEF TypesOK, TypeOK
  <1> QED BY <1>1, OthersKinds DEF CaseWrite, RowWrite

LEMMA NewestWrites ==
    ASSUME TypesOK, NewestInv, Others
    PROVE  NewestInv'
  <1>1. UNCHANGED readerVars /\ StoresOK
    BY WritesOf
  <1>2. ask' = ask /\ pc' = pc /\ at' = at /\ matched' = matched /\ latest' = latest
    BY <1>1 DEF readerVars
  <1>3. Targets' = Targets
    BY <1>2 DEF Targets
  <1>4. CASE CaseWrite
    <2>1. table' = table /\ touched' = touched
      BY <1>4 DEF CaseWrite
    <2> QED BY <1>2, <1>3, <2>1 DEF NewestInv, IsNewest, StillRun, StillAt
  <1>5. ASSUME NEW t \in Tables, NEW key \in Keys(t), NEW n \in Nat, NEW l \in Nat, RowWrite(t, key, n, l), ask.kind = "datasets"
        PROVE  NewestInv'
    <2>1. pc # "idle" /\ "runs" \in Tables
      BY <1>5 DEF TypesOK, TypeOK, ControlOK, Tables
    <2> DEFINE W(i) == Origin(t, n, l, "runs", i)
    <2>2. /\ touched.runs \subseteq touched'.runs
          /\ \A i \in DOMAIN table'.runs : table'.runs[i] \notin touched'.runs =>
                 /\ W(i) \in DOMAIN table.runs /\ W(i) <= i
                 /\ table.runs[W(i)] = table'.runs[i] /\ table'.runs[i] \notin touched.runs
          /\ \A j \in DOMAIN table.runs : table.runs[j] \notin touched'.runs =>
                 \E i \in DOMAIN table'.runs : table'.runs[i] = table.runs[j] /\ W(i) = j
          /\ \A i, j \in DOMAIN table'.runs :
                 i < j /\ table'.runs[i] \notin touched'.runs => W(i) < W(j)
      <3>1. StillMoves(t, key, n, l, "runs")
        BY <1>1, <1>5, <2>1, RowMoves
      <3> QED BY <3>1 DEF StillMoves
    <2> HIDE DEF W
    <2>3. /\ table.runs \in Seq(Runs) /\ table'.runs \in Seq(Runs)
      <3>1. StoresOK'
        BY <1>1, StoresWrites
      <3> QED BY <1>1, <3>1 DEF StoresOK, IsListing, Tables, Keys
    <2>4. (\A i \in DOMAIN table.runs : i \in Int) /\ (\A i \in DOMAIN table'.runs : i \in Int)
      BY <2>3
    <2>5. \A d : \A i \in DOMAIN table'.runs : StillRun(d, i)' =>
                 W(i) \in DOMAIN table.runs /\ W(i) <= i /\ StillRun(d, W(i))
      BY <2>2 DEF StillRun, StillAt
    <2>6. ASSUME NEW d, NEW r, IsNewest(d, r) PROVE IsNewest(d, r)'
      <3>1. CASE r \in touched'.runs
        BY <3>1 DEF IsNewest
      <3>2. CASE r \notin touched'.runs
        <4>1. r \notin touched.runs
          BY <2>2, <3>2
        <4>2. PICK j \in DOMAIN table.runs : table.runs[j] = r /\ DatasetOf[r] = d
                        /\ \A i \in DOMAIN table.runs : StillRun(d, i) => j <= i
          BY <2>6, <4>1 DEF IsNewest
        <4>3. PICK m \in DOMAIN table'.runs : table'.runs[m] = r /\ W(m) = j
          BY <2>2, <3>2, <4>2
        <4>4. ASSUME NEW i \in DOMAIN table'.runs, StillRun(d, i)' PROVE m <= i
          <5>1. W(i) \in DOMAIN table.runs /\ StillRun(d, W(i))
            BY <2>5, <4>4
          <5>2. j <= W(i)
            BY <4>2, <5>1
          <5>3. table'.runs[i] \notin touched'.runs
            BY <4>4 DEF StillRun, StillAt
          <5>4. ~(i < m)
            <6> SUFFICES ASSUME i < m PROVE FALSE
              OBVIOUS
            <6>1. W(i) < j
              BY <2>2, <4>3, <5>3
            <6>2. j \in Int /\ W(i) \in Int
              BY <2>4, <5>1
            <6> QED BY <5>2, <6>1, <6>2
          <5>5. i \in Int /\ m \in Int
            BY <2>4
          <5> QED BY <5>4, <5>5
        <4> QED BY <4>2, <4>3, <4>4 DEF IsNewest
      <3> QED BY <3>1, <3>2
    <2>7. ASSUME NEW d \in Targets', pc = "latest", latest[d] = NoRun, NEW i \in DOMAIN table'.runs, StillRun(d, i)'
          PROVE  at < i
      <3>1. W(i) \in DOMAIN table.runs /\ W(i) <= i /\ StillRun(d, W(i))
        BY <2>5, <2>7
      <3>2. at < W(i)
        BY <1>3, <1>5, <2>7, <3>1 DEF NewestInv
      <3>3. at \in Int /\ W(i) \in Int /\ i \in Int
        BY <2>4, <3>1 DEF TypesOK, TypeOK, ReaderOK
      <3> QED BY <3>1, <3>2, <3>3
    <2>8. ASSUME NEW d \in Targets', pc \in AfterScan, latest[d] = NoRun, NEW i \in DOMAIN table'.runs, StillRun(d, i)'
          PROVE  FALSE
      BY <1>3, <1>5, <2>5, <2>8 DEF NewestInv
    <2> QED BY <1>2, <1>3, <1>5, <2>6, <2>7, <2>8 DEF NewestInv
  <1>6. ask.kind # "datasets" => NewestInv'
    BY <1>2 DEF NewestInv
  <1> QED BY <1>4, <1>5, <1>6, WritesOf

\* A reader's step on the dataset board.
LEMMA DatasetSteps ==
    ASSUME TypesOK, Reader, ask.kind = "datasets"
    PROVE  \/ Leave \/ GetRows \/ ListDatasets \/ collectLatestEvalRunsByDataset
           \/ \E full, next : CandidateKind(full, next)
           \/ collectEvalReportIDsByDataset \/ ReadRunBackedCases
  <1>1. TypeOK /\ RowsOfTable /\ ControlOK
    BY DEF TypesOK, TypeOK
  <1>2. pc # "idle" /\ pc # "cases"
    BY <1>1 DEF ControlOK
  <1> QED BY <1>1, <1>2, ReaderKinds DEF Begin, ListPage, FillKind, ConsumeKind, RowKinds,
                collectEvalReportIDsForDataset, ListCases

LEMMA NewestScan ==
    ASSUME TypesOK, NewestInv, collectLatestEvalRunsByDataset
    PROVE  NewestInv'
  <1> DEFINE listed == Page(table.runs, at, BulkLimit)
  <1>1. /\ pc = "latest" /\ UNCHANGED <<page, rows, k, matched, ids, resp>> /\ UNCHANGED <<stores, ask>>
        /\ latest' = LatestRuns(listed.rows)
        /\ \/ pc' = "latest" /\ listed.more /\ at' = listed.next
           \/ pc' = "report" /\ (~listed.more \/ \A d \in Targets : LatestRuns(listed.rows)[d] # NoRun)
    BY DEF collectLatestEvalRunsByDataset, Read
  <1>2. /\ ask.kind = "datasets" /\ at \in Nat /\ table.runs \in Seq(Runs) /\ BulkLimit \in Nat
        /\ \A i \in DOMAIN matched : matched[i].id \in Datasets
    <2>1. StoresOK /\ ControlOK /\ ReaderOK /\ RowsOfTable
      BY DEF TypesOK, TypeOK
    <2> QED BY <1>1, <2>1, TablesTyped, ConstantsAssumption DEF ControlOK, ReaderOK, RowsOfTable
  <1>3. PageOf(Runs, table.runs, at, BulkLimit, listed)
    BY <1>2 DEF PageOf
  <1>4. /\ listed.rows \in Seq(Runs) /\ (listed.more <=> Len(table.runs) > at + BulkLimit) /\ listed.next = at + BulkLimit
        /\ \A i \in DOMAIN listed.rows : at + i \in DOMAIN table.runs /\ listed.rows[i] = table.runs[at + i]
        /\ \A i \in DOMAIN table.runs : at < i /\ (listed.more => i <= at + BulkLimit) =>
                 i - at \in DOMAIN listed.rows /\ listed.rows[i - at] = table.runs[i]
    BY <1>3, PageIs
  <1> HIDE DEF listed
  <1>5. table' = table /\ touched' = touched /\ ask' = ask /\ matched' = matched /\ Targets' = Targets /\ Targets \subseteq Datasets
    BY <1>1, <1>2 DEF stores, Targets
  <1>6. /\ \A d, r : IsNewest(d, r)' <=> IsNewest(d, r)
        /\ \A d, i : StillRun(d, i)' <=> StillRun(d, i)
    BY <1>5 DEF IsNewest, StillRun, StillAt
  <1>7. \A d \in Targets : latest[d] # NoRun => latest'[d] = latest[d] /\ IsNewest(d, latest[d].run)
    BY <1>1, <1>2, <1>5 DEF LatestRuns, NewestInv
  <1>8. ASSUME NEW d \in Targets, latest[d] = NoRun, RunsOf(listed.rows, d) # {}
        PROVE  IsNewest(d, latest'[d].run) /\ latest'[d] # NoRun
    <2>1. latest'[d].run = listed.rows[First(RunsOf(listed.rows, d))]
      BY <1>1, <1>5, <1>8 DEF LatestRuns, NewestRun
    <2>2. RunsOf(listed.rows, d) \in SUBSET Nat /\ RunsOf(listed.rows, d) \subseteq DOMAIN listed.rows
      BY <1>4 DEF RunsOf
    <2>3. PICK f : f = First(RunsOf(listed.rows, d))
      OBVIOUS
    <2>4. f \in RunsOf(listed.rows, d) /\ \A j \in RunsOf(listed.rows, d) : f <= j
      BY <1>8, <2>2, <2>3, FirstIsLeast
    <2>5. at + f \in DOMAIN table.runs /\ table.runs[at + f] = latest'[d].run /\ DatasetOf[latest'[d].run] = d /\ f \in Nat
      BY <1>4, <2>1, <2>2, <2>3, <2>4 DEF RunsOf
    <2>6. ASSUME NEW i \in DOMAIN table.runs, StillRun(d, i) PROVE at + f <= i
      <3>1. at < i /\ i \in Nat
        BY <1>1, <1>2, <1>8, <2>6 DEF NewestInv
      <3>2. CASE i - at \in DOMAIN listed.rows /\ listed.rows[i - at] = table.runs[i]
        <4>1. i - at \in RunsOf(listed.rows, d)
          BY <2>6, <3>2 DEF RunsOf, StillRun
        <4>2. f <= i - at
          BY <2>4, <4>1
        <4> QED BY <1>2, <2>5, <3>1, <4>2
      <3>3. CASE ~(i - at \in DOMAIN listed.rows /\ listed.rows[i - at] = table.runs[i])
        <4>1. i > at + BulkLimit
          BY <1>2, <1>4, <3>1, <3>3
        <4>2. f <= BulkLimit
          <5>1. f \in DOMAIN listed.rows /\ listed.rows = SubSeq(table.runs, at + 1, Least(Len(table.runs), at + BulkLimit))
            BY <1>3, <2>2, <2>4, PageIs
          <5>2. at + f <= Len(table.runs) /\ f <= Len(listed.rows)
            BY <1>2, <1>4, <2>5, <5>1
          <5>3. Len(listed.rows) <= BulkLimit
            BY <1>2, <5>1 DEF Least
          <5> QED BY <1>2, <1>4, <2>5, <5>2, <5>3
        <4> QED BY <1>2, <2>5, <3>1, <4>1, <4>2
      <3> QED BY <3>2, <3>3
    <2>7. latest'[d].run \in Runs
      BY <1>2, <2>5
    <2>8. latest'[d] # NoRun
      BY <2>7, ConstantsAssumption DEF NoRun
    <2> QED BY <2>5, <2>6, <2>8 DEF IsNewest
  <1>9. ASSUME NEW d \in Targets, latest'[d] = NoRun, NEW i \in DOMAIN table.runs, StillRun(d, i)
        PROVE  listed.more /\ at + BulkLimit < i
    <2>1. latest[d] = NoRun
      BY <1>7, <1>9
    <2>2. RunsOf(listed.rows, d) = {}
      BY <1>8, <1>9, <2>1
    <2>3. at < i /\ i \in Nat
      BY <1>1, <1>2, <1>9, <2>1 DEF NewestInv
    <2>4. ~(i - at \in DOMAIN listed.rows /\ listed.rows[i - at] = table.runs[i])
      BY <1>9, <2>2 DEF RunsOf, StillRun
    <2> QED BY <1>2, <1>4, <2>3, <2>4
  <1>10. \A d \in Targets : latest'[d] # NoRun => IsNewest(d, latest'[d].run)
    <2> SUFFICES ASSUME NEW d \in Targets, latest'[d] # NoRun PROVE IsNewest(d, latest'[d].run)
      OBVIOUS
    <2>1. CASE latest[d] # NoRun
      BY <1>7, <2>1
    <2>2. CASE latest[d] = NoRun /\ RunsOf(listed.rows, d) # {}
      BY <1>8, <2>2
    <2>3. CASE latest[d] = NoRun /\ RunsOf(listed.rows, d) = {}
      BY <1>1, <1>5, <2>3 DEF LatestRuns
    <2> QED BY <2>1, <2>2, <2>3
  <1>11. CASE pc' = "latest" /\ listed.more /\ at' = listed.next
    BY <1>2, <1>4, <1>5, <1>6, <1>9, <1>10, <1>11 DEF NewestInv, AfterScan
  <1>12. CASE pc' = "report" /\ (~listed.more \/ \A d \in Targets : LatestRuns(listed.rows)[d] # NoRun)
    BY <1>1, <1>5, <1>6, <1>9, <1>10, <1>12 DEF NewestInv, AfterScan
  <1> QED BY <1>1, <1>11, <1>12

LEMMA NewestReader ==
    ASSUME TypesOK, NewestInv, Reader
    PROVE  NewestInv'
  <1>0. StoresOK /\ ReaderOK /\ ControlOK /\ RowsOfTable
    BY DEF TypesOK, TypeOK
  <1>1. ASSUME ask' = ask, ask.kind # "datasets" PROVE NewestInv'
    BY <1>1 DEF NewestInv
  <1>2. ASSUME NEW q \in Requests, Begin(q) PROVE NewestInv'
    <2>1. AskOK(q) /\ ask' = q /\ at' = ScanStart(q) /\ matched' = <<>> /\ latest' = [d \in Datasets |-> NoRun]
          /\ pc' = IF q.keys # <<>> THEN "get" ELSE IF q.kind = "caseQueue" THEN "ids" ELSE "list"
      BY <1>2, RequestsOK DEF Begin, Cleared
    <2>2. Targets' = {}
      BY <2>1 DEF Targets
    <2>3. q.keys # <<>> => ~Filtered(q) /\ q.offset = 0
      BY <2>1 DEF AskOK
    <2>4. pc' = "get" => at' = 0
      BY <2>1, <2>3 DEF ScanStart
    <2> QED BY <2>1, <2>2, <2>4 DEF NewestInv, AfterScan
  <1>3. CASE Leave
    BY <1>3 DEF Leave, NoAsk, Ask, NewestInv
  <1>u. ASSUME UNCHANGED stores
        PROVE  /\ \A d, r : IsNewest(d, r)' <=> IsNewest(d, r)
               /\ \A d, i : StillRun(d, i)' <=> StillRun(d, i)
               /\ table' = table
    BY <1>u DEF IsNewest, StillRun, StillAt, stores
  <1>4. CASE ask.kind = "datasets" /\ GetRows
    <2>1. pc = "get" /\ UNCHANGED <<page, k, latest, ids>> /\ UNCHANGED stores /\ ask' = ask
      BY <1>4 DEF GetRows, Read
    <2>2. at = 0 /\ matched = <<>> /\ \A d \in Datasets : latest[d] = NoRun
      BY <1>4, <2>1 DEF NewestInv
    <2>3. CASE pc' = "done" /\ matched' = matched
      <3>1. Targets' = {}
        BY <2>2, <2>3 DEF Targets
      <3> QED BY <2>1, <2>2, <2>3, <3>1 DEF NewestInv
    <2>4. CASE pc' = "latest" /\ at' = at
      <3>1. RowsOfTable' /\ StoresOK'
        BY TypesReader DEF TypesOK, TypeOK
      <3>2. Targets' \subseteq Datasets
        BY <1>4, <2>1, <3>1 DEF RowsOfTable, Targets
      <3>3. table'.runs \in Seq(Runs)
        BY <3>1 DEF StoresOK, IsListing, Tables, Keys
      <3>4. \A i \in DOMAIN table'.runs : 0 < i
        BY <3>3
      <3> QED BY <2>1, <2>2, <2>4, <3>2, <3>4 DEF NewestInv, AfterScan
    <2> QED BY <1>4, <2>3, <2>4 DEF GetRows, Respond
  <1>5. CASE ListDatasets
    <2>1. /\ pc = "list" /\ ask.kind = "datasets" /\ UNCHANGED <<latest, ids>> /\ UNCHANGED stores /\ ask' = ask
          /\ \/ pc' = "list"
             \/ pc' = "latest" /\ at' = 0
             \/ pc' = "done" /\ matched' = <<>>
      BY <1>5 DEF ListDatasets, Read, NextPage
    <2>2. \A d \in Datasets : latest[d] = NoRun
      BY <2>1 DEF NewestInv
    <2>3. RowsOfTable' /\ StoresOK'
      BY TypesReader DEF TypesOK, TypeOK
    <2>4. Targets' \subseteq Datasets
      BY <2>1, <2>3 DEF RowsOfTable, Targets
    <2>5. table'.runs \in Seq(Runs)
      BY <2>3 DEF StoresOK, IsListing, Tables, Keys
    <2>6. \A i \in DOMAIN table'.runs : 0 < i
      BY <2>5
    <2>7. CASE pc' = "done" /\ matched' = <<>>
      <3>1. Targets' = {}
        BY <2>7 DEF Targets
      <3> QED BY <2>1, <2>7, <3>1 DEF NewestInv
    <2>8. CASE pc' = "list"
      BY <2>1, <2>2, <2>8 DEF NewestInv, AfterScan
    <2>9. CASE pc' = "latest" /\ at' = 0
      BY <2>1, <2>2, <2>4, <2>6, <2>9 DEF NewestInv, AfterScan
    <2> QED BY <2>1, <2>7, <2>8, <2>9
  <1>6. ASSUME NEW full, NEW next, CandidateKind(full, next) PROVE NewestInv'
    <2>1. /\ ask.kind = "datasets" /\ pc \in AfterScan /\ pc # "done" /\ pc' \in AfterScan \ {"report"}
          /\ matched' = full /\ DOMAIN full = DOMAIN matched
          /\ \A i \in DOMAIN matched : full[i].id = matched[i].id /\ CandidateRead(full[i], matched[i])
          /\ latest' = latest /\ ask' = ask /\ UNCHANGED stores
      BY <1>6 DEF CandidateKind, SameRows, AfterScan
    <2>2. Targets' = Targets
      BY <2>1 DEF Targets
    <2>3. \A i \in DOMAIN full : full[i].latest = latest[full[i].id].run
      BY <2>1 DEF NewestInv, CandidateRead
    <2> QED BY <1>u, <2>1, <2>2, <2>3 DEF NewestInv, AfterScan
  <1>7. CASE collectEvalReportIDsByDataset
    <2>1. /\ ask.kind = "datasets" /\ pc = "ids" /\ pc' \in {"ids", "counts"} /\ UNCHANGED <<matched, latest, ask>> /\ UNCHANGED stores
      BY <1>7 DEF collectEvalReportIDsByDataset, Read
    <2>2. Targets' = Targets
      BY <2>1 DEF Targets
    <2> QED BY <1>u, <2>1, <2>2 DEF NewestInv, AfterScan
  <1>8. CASE ask.kind = "datasets" /\ ReadRunBackedCases
    <2> DEFINE s(i) == IF matched[i].latest = "none" THEN NoSummary
                       ELSE SummarizeBySourceEvalRunIDs(cases, matched[i].latest)
               full == [i \in DOMAIN matched |-> [matched[i] EXCEPT !.backed = s(i)]]
    <2>1. /\ pc = "backed" /\ pc' = "done" /\ matched' = full /\ UNCHANGED <<latest, ask>> /\ UNCHANGED stores
      BY <1>8 DEF ReadRunBackedCases, Read, Respond
    <2>2. \A i \in DOMAIN matched : full[i].id = matched[i].id /\ full[i].latest = matched[i].latest
      <3>1. \A i \in DOMAIN matched : matched[i] \in Row
        BY <1>0 DEF ReaderOK
      <3> HIDE DEF s
      <3> QED BY <3>1 DEF Row
    <2>3. DOMAIN full = DOMAIN matched
      OBVIOUS
    <2> HIDE DEF full
    <2>4. Targets' = Targets
      BY <2>1, <2>2, <2>3 DEF Targets
    <2> QED BY <1>8, <1>u, <2>1, <2>2, <2>3, <2>4 DEF NewestInv, AfterScan
  <1>9. CASE ask.kind = "datasets"
    BY <1>3, <1>4, <1>5, <1>6, <1>7, <1>8, <1>9, DatasetSteps, NewestScan
  <1>10. CASE ask.kind # "datasets" /\ ~Leave /\ ~(\E q \in Requests : Begin(q))
    <2>1. ask' = ask
      BY <1>10, ReaderFrame
    <2> QED BY <1>1, <1>10, <2>1
  <1> QED BY <1>2, <1>3, <1>9, <1>10

LEMMA NewestStep == TypesOK /\ NewestInv /\ [Next]_vars => NewestInv'
  <1>1. ASSUME NewestInv, UNCHANGED vars PROVE NewestInv'
    BY <1>1 DEF vars, stores, NewestInv, IsNewest, StillRun, StillAt, Targets
  <1> QED BY <1>1, NewestWrites, NewestReader DEF Next

\* The dataset board shows the newest run of a dataset, or one that was written
\* while the board was read: the pages of the scan, its early stop and the runs
\* that move forward leave no older one.
THEOREM LatestRunShown == Spec => []LatestRunIsNewest
  <1>1. Init => NewestInv
    BY DEF Init, NoAsk, Ask, NewestInv
  <1>2. TypesOK /\ NewestInv => LatestRunIsNewest
    <2> SUFFICES ASSUME TypesOK, NewestInv, pc = "done", ask.kind = "datasets", NEW i \in DOMAIN matched,
                        matched[i].latest \notin touched.runs,
                        NEW untouched,
                        untouched = {j \in RunsOf(table.runs, matched[i].id) : table.runs[j] \notin touched.runs}
                 PROVE  matched[i].latest = IF untouched = {} THEN "none" ELSE table.runs[First(untouched)]
      BY DEF LatestRunIsNewest, Done
    <2> DEFINE d == matched[i].id
    <2>1. matched[i].latest = latest[d].run /\ d \in Targets
      BY DEF NewestInv, AfterScan, Targets
    <2>2. \A j : j \in untouched <=> j \in DOMAIN table.runs /\ StillRun(d, j)
      BY DEF StillRun, StillAt, RunsOf
    <2>3. untouched \in SUBSET Nat
      <3>1. table.runs \in Seq(Runs)
        BY TablesTyped DEF TypesOK, TypeOK
      <3> QED BY <2>2, <3>1
    <2> HIDE DEF d
    <2>4. CASE latest[d] = NoRun
      <3>1. untouched = {}
        BY <2>1, <2>2, <2>4 DEF NewestInv, AfterScan
      <3> QED BY <2>1, <2>4, <3>1 DEF NoRun
    <2>5. CASE latest[d] # NoRun
      <3>1. IsNewest(d, latest[d].run)
        BY <2>1, <2>5 DEF NewestInv, AfterScan
      <3>2. PICK j \in DOMAIN table.runs : /\ table.runs[j] = latest[d].run /\ DatasetOf[table.runs[j]] = d
                                           /\ \A m \in DOMAIN table.runs : StillRun(d, m) => j <= m
        BY <2>1, <3>1 DEF IsNewest
      <3>3. j \in untouched
        BY <2>1, <2>2, <3>2 DEF StillRun, StillAt
      <3>4. \A m \in untouched : j <= m
        BY <2>2, <3>2
      <3>5. First(untouched) \in untouched /\ First(untouched) <= j
        BY <2>3, <3>3, FirstIsLeast
      <3>6. First(untouched) \in Nat /\ j \in Nat /\ j <= First(untouched)
        BY <2>3, <3>3, <3>4, <3>5
      <3>7. First(untouched) = j
        BY <3>5, <3>6
      <3> QED BY <2>1, <3>2, <3>3, <3>7
    <2> QED BY <2>4, <2>5
  <1> QED BY <1>1, <1>2, TypesInit, TypesStep, NewestStep, PTL DEF Spec

(***************************************************************************)
(* What was read of a row is true as long as no case, and nothing of the   *)
(* row itself, is written.                                                 *)
(***************************************************************************)

TruthKinds == {"reports", "runs", "run", "evalCases"}

\* The fields of TrueRow.
LinkedOf(key) ==
    IF ask.kind = "reports" THEN SummarizeBySourceEvalReportIDs(cases, key)
    ELSE IF ask.kind = "evalCases" THEN SummarizeBySourceEvalCaseIDs(cases, key)
    ELSE SummarizeBySourceEvalRunIDs(cases, key)

CompareOf(key) ==
    IF ask.kind = "reports" THEN SummarizeCompareOriginBySourceEvalReportIDs(cases, key) ELSE NoSummary

UncoveredOf(key) ==
    IF ask.kind = "reports" THEN Cardinality(Uncovered(cases, BadCases[key]))
    ELSE IF ask.kind = "evalCases" THEN 0
    ELSE Cardinality(Uncovered(cases, FailedItems(key)))

LinkedTrue(row) == row.linked = LinkedOf(row.id)

CompareTrue(row) == row.compare = CompareOf(row.id)

UncoveredTrue(row) ==
    (ask.kind \in {"runs", "run"} => row.id \notin touched.runs) => row.uncovered = UncoveredOf(row.id)

FinalTrue(row) == row.id \notin touched.runs => (row.final <=> row.id \in finished)

ReportTrue(row) ==
    row.id \notin touched.runs /\ row.id \notin touched.reports =>
        (row.hasReport <=> ask.kind \in {"runs", "run"} /\ row.id \in finished /\ Key("reports", row.id))

PlainRow(row) == row.queue = NoSummary /\ row.backed = NoSummary /\ row.latest = "none"

\* What the queries so far have read of the row at j.
LinkedRead(j) == \/ ask.kind = "reports" /\ pc \in {"compare", "bad"}
                 \/ ask.kind = "runs" /\ (j < k \/ (j = k /\ pc = "report"))

CompareRead == ask.kind = "reports" => pc = "bad"

UncoveredRead(j) == \/ ask.kind = "evalCases"
                    \/ ask.kind = "runs" /\ (j < k \/ (j = k /\ pc \in {"linked", "report"}))
                    \/ ask.kind = "run" /\ pc \in {"report", "linked"}

ReportRead(j) == \/ ask.kind \in {"reports", "evalCases"}
                 \/ ask.kind = "runs" /\ j < k
                 \/ ask.kind = "run" /\ pc = "linked"

\* The row at j of a page.
PageRowTrue(j) ==
    /\ LinkedRead(j) => LinkedTrue(rows[j])
    /\ CompareRead => CompareTrue(rows[j])
    /\ UncoveredRead(j) => UncoveredTrue(rows[j])
    /\ ReportRead(j) => ReportTrue(rows[j])
    /\ FinalTrue(rows[j]) /\ PlainRow(rows[j])

RowTrue(row) ==
    /\ LinkedTrue(row) /\ CompareTrue(row) /\ UncoveredTrue(row)
    /\ ReportTrue(row) /\ FinalTrue(row) /\ PlainRow(row)

TruthInv ==
    ask.kind \in TruthKinds /\ ~stale =>
        /\ pc \in PagePcs => \A j \in DOMAIN rows : PageRowTrue(j)
        /\ pc \notin PagePcs => \A j \in DOMAIN rows : RowTrue(rows[j])
        /\ \A j \in DOMAIN matched : RowTrue(matched[j])

\* A reader's step changes no truth.
LEMMA TruthFrame ==
    ASSUME UNCHANGED <<stores, ask>>
    PROVE  \A row : /\ LinkedTrue(row)' <=> LinkedTrue(row)
                    /\ CompareTrue(row)' <=> CompareTrue(row)
                    /\ UncoveredTrue(row)' <=> UncoveredTrue(row)
                    /\ ReportTrue(row)' <=> ReportTrue(row)
                    /\ FinalTrue(row)' <=> FinalTrue(row)
                    /\ PlainRow(row)' <=> PlainRow(row)
                    /\ RowTrue(row)' <=> RowTrue(row)
  BY DEF stores, LinkedTrue, CompareTrue, UncoveredTrue, ReportTrue, FinalTrue, PlainRow, RowTrue,
         LinkedOf, CompareOf, UncoveredOf, FailedItems, Key

\* Neither does the write of a row, for the rows that nobody wrote.
LEMMA TruthWrites ==
    ASSUME TypesOK, TruthInv, Others
    PROVE  TruthInv'
  <1>1. UNCHANGED readerVars /\ StoresOK
    BY WritesOf
  <1>2. ask' = ask /\ pc' = pc /\ k' = k /\ rows' = rows /\ matched' = matched
    BY <1>1 DEF readerVars
  <1>3. ask.kind \in TruthKinds => pc # "idle"
    BY DEF TypesOK, TypeOK, ControlOK, TruthKinds
  <1>4. CASE CaseWrite
    BY <1>2, <1>3, <1>4 DEF CaseWrite, TruthInv
  <1>5. ASSUME NEW t \in Tables, NEW key \in Keys(t), NEW n \in Nat, NEW l \in Nat, RowWrite(t, key, n, l),
               ask.kind \in TruthKinds, ~stale
        PROVE  TruthInv'
    <2>1. cases' = cases /\ stale' = stale /\ \A r : (r \in finished' <=> r \in finished) \/ (t = "runs" /\ r = key)
      BY <1>5 DEF RowWrite
    <2>2. StillMoves(t, key, n, l, "runs") /\ StillMoves(t, key, n, l, "reports")
      BY <1>1, <1>3, <1>5, RowMoves DEF Tables
    <2>3. /\ \A r : r \notin touched'.runs => r \notin touched.runs /\ (r \in finished' <=> r \in finished)
          /\ \A r : r \notin touched'.reports => r \notin touched.reports /\ (Key("reports", r)' <=> Key("reports", r))
      BY <2>1, <2>2 DEF StillMoves, Key
    <2>4. \A row : /\ LinkedTrue(row) => LinkedTrue(row)'
                   /\ CompareTrue(row) => CompareTrue(row)'
      BY <1>2, <2>1 DEF LinkedTrue, CompareTrue, LinkedOf, CompareOf
    <2>5. \A row : UncoveredTrue(row) => UncoveredTrue(row)'
      BY <1>2, <1>5, <2>1, <2>3 DEF UncoveredTrue, UncoveredOf, FailedItems, TruthKinds
    <2>6. \A row : /\ ReportTrue(row) => ReportTrue(row)'
                   /\ FinalTrue(row) => FinalTrue(row)'
                   /\ PlainRow(row) => PlainRow(row)'
      BY <1>2, <2>3 DEF ReportTrue, FinalTrue, PlainRow
    <2>7. \A row : RowTrue(row) => RowTrue(row)'
      BY <2>4, <2>5, <2>6 DEF RowTrue
    <2>8. pc \in PagePcs => \A j \in DOMAIN rows : PageRowTrue(j)'
      <3> SUFFICES ASSUME pc \in PagePcs, NEW j \in DOMAIN rows PROVE PageRowTrue(j)'
        OBVIOUS
      <3>1. PageRowTrue(j)
        BY <1>5 DEF TruthInv
      <3>2. /\ LinkedRead(j)' <=> LinkedRead(j)
            /\ CompareRead' <=> CompareRead
            /\ UncoveredRead(j)' <=> UncoveredRead(j)
            /\ ReportRead(j)' <=> ReportRead(j)
        BY <1>2 DEF LinkedRead, CompareRead, UncoveredRead, ReportRead
      <3> QED BY <1>2, <2>4, <2>5, <2>6, <3>1, <3>2 DEF PageRowTrue
    <2> QED BY <1>2, <1>5, <2>1, <2>7, <2>8 DEF TruthInv
  <1>6. ASSUME NEW t \in Tables, NEW key \in Keys(t), NEW n \in Nat, NEW l \in Nat, RowWrite(t, key, n, l),
               ~(ask.kind \in TruthKinds /\ ~stale)
        PROVE  TruthInv'
    BY <1>2, <1>6 DEF RowWrite, TruthInv
  <1> QED BY <1>4, <1>5, <1>6, WritesOf

\* The fields of two rows of one id that decide which of their fields are true.
LEMMA SameField ==
    ASSUME NEW r, NEW s, r.id = s.id
    PROVE  /\ r.linked = s.linked => (LinkedTrue(r) <=> LinkedTrue(s))
           /\ r.compare = s.compare => (CompareTrue(r) <=> CompareTrue(s))
           /\ r.uncovered = s.uncovered => (UncoveredTrue(r) <=> UncoveredTrue(s))
           /\ (r.hasReport <=> s.hasReport) => (ReportTrue(r) <=> ReportTrue(s))
           /\ (r.final <=> s.final) => (FinalTrue(r) <=> FinalTrue(s))
           /\ r.queue = s.queue /\ r.backed = s.backed /\ r.latest = s.latest => (PlainRow(r) <=> PlainRow(s))
  BY DEF LinkedTrue, CompareTrue, UncoveredTrue, ReportTrue, FinalTrue, PlainRow

\* r is s but for one field.
SameBut(field, r, s) ==
    /\ r.id = s.id
    /\ r.linked = s.linked \/ field = "linked"
    /\ r.compare = s.compare \/ field = "compare"
    /\ r.uncovered = s.uncovered \/ field = "uncovered"
    /\ (r.hasReport <=> s.hasReport) \/ field = "hasReport"
    /\ r.final <=> s.final
    /\ r.queue = s.queue /\ r.backed = s.backed /\ r.latest = s.latest

LEMMA SameButFacts ==
    ASSUME NEW field, NEW r, NEW s, SameBut(field, r, s)
    PROVE  /\ field # "linked" => (LinkedTrue(r) <=> LinkedTrue(s))
           /\ field # "compare" => (CompareTrue(r) <=> CompareTrue(s))
           /\ field # "uncovered" => (UncoveredTrue(r) <=> UncoveredTrue(s))
           /\ field # "hasReport" => (ReportTrue(r) <=> ReportTrue(s))
           /\ FinalTrue(r) <=> FinalTrue(s)
           /\ PlainRow(r) <=> PlainRow(s)
           /\ r.id = s.id
  BY SameField DEF SameBut

LEMMA OneField ==
    ASSUME NEW row \in Row, NEW x
    PROVE  /\ SameBut("linked", [row EXCEPT !.linked = x], row) /\ [row EXCEPT !.linked = x].linked = x
           /\ SameBut("compare", [row EXCEPT !.compare = x], row) /\ [row EXCEPT !.compare = x].compare = x
           /\ SameBut("uncovered", [row EXCEPT !.uncovered = x], row) /\ [row EXCEPT !.uncovered = x].uncovered = x
           /\ SameBut("hasReport", [row EXCEPT !.hasReport = x], row) /\ [row EXCEPT !.hasReport = x].hasReport = x
  <1>1. SameBut("linked", [row EXCEPT !.linked = x], row) /\ [row EXCEPT !.linked = x].linked = x
    BY DEF Row, SameBut
  <1>2. SameBut("compare", [row EXCEPT !.compare = x], row) /\ [row EXCEPT !.compare = x].compare = x
    BY DEF Row, SameBut
  <1>3. SameBut("uncovered", [row EXCEPT !.uncovered = x], row) /\ [row EXCEPT !.uncovered = x].uncovered = x
    BY DEF Row, SameBut
  <1>4. SameBut("hasReport", [row EXCEPT !.hasReport = x], row) /\ [row EXCEPT !.hasReport = x].hasReport = x
    BY DEF Row, SameBut
  <1> QED BY <1>1, <1>2, <1>3, <1>4

LEMMA TruthFill ==
    ASSUME TruthInv, UNCHANGED <<stores, ask>>, matched' = matched, pc' \in PagePcs,
           ask.kind \in TruthKinds /\ ~stale => \A j \in DOMAIN rows' : PageRowTrue(j)'
    PROVE  TruthInv'
  <1>1. stale' = stale /\ ask' = ask
    BY DEF stores
  <1>2. \A row : RowTrue(row)' <=> RowTrue(row)
    BY TruthFrame
  <1> QED BY <1>1, <1>2 DEF TruthInv

LEMMA TruthConsume ==
    ASSUME TruthInv, matched \in Seq(Row), NEW full \in Seq(Row), NEW listed, ConsumeStep(full, listed),
           ask.kind \in TruthKinds /\ ~stale => \A i \in DOMAIN full : RowTrue(full[i])
    PROVE  TruthInv'
  <1>1. /\ UNCHANGED <<stores, ask>> /\ matched' = matched \o Matching(ask, full) /\ pc' \notin PagePcs /\ rows' = full
    BY DEF ConsumeStep, PagePcs
  <1>2. Gathered(ask, matched, full, matched')
    BY <1>1 DEF Gathered
  <1>3. \A j \in DOMAIN matched' : \/ j \in DOMAIN matched /\ matched'[j] = matched[j]
                                   \/ \E i \in DOMAIN full : matched'[j] = full[i]
    BY <1>2, AllFacts
  <1>4. stale' = stale /\ ask' = ask
    BY <1>1 DEF stores
  <1>5. \A row : RowTrue(row)' <=> RowTrue(row)
    BY <1>1, TruthFrame
  <1> QED BY <1>1, <1>3, <1>4, <1>5 DEF TruthInv

\* A row of the page after a reader's step.
LEMMA PageRowNext ==
    ASSUME UNCHANGED <<stores, ask>>, NEW j,
           LinkedRead(j)' => LinkedTrue(rows'[j]),
           CompareRead' => CompareTrue(rows'[j]),
           UncoveredRead(j)' => UncoveredTrue(rows'[j]),
           ReportRead(j)' => ReportTrue(rows'[j]),
           FinalTrue(rows'[j]), PlainRow(rows'[j])
    PROVE  PageRowTrue(j)'
  <1>1. ask' = ask /\ cases' = cases /\ table' = table /\ finished' = finished /\ touched' = touched
    BY DEF stores
  <1>2. LinkedTrue(rows'[j]) <=> LinkedTrue(rows[j])'
    BY <1>1 DEF LinkedTrue, LinkedOf
  <1>3. CompareTrue(rows'[j]) <=> CompareTrue(rows[j])'
    BY <1>1 DEF CompareTrue, CompareOf
  <1>4. UncoveredTrue(rows'[j]) <=> UncoveredTrue(rows[j])'
    BY <1>1 DEF UncoveredTrue, UncoveredOf, FailedItems
  <1>5. ReportTrue(rows'[j]) <=> ReportTrue(rows[j])'
    BY <1>1 DEF ReportTrue, Key
  <1>6. (FinalTrue(rows'[j]) <=> FinalTrue(rows[j])') /\ (PlainRow(rows'[j]) <=> PlainRow(rows[j])')
    BY <1>1 DEF FinalTrue, PlainRow
  <1> QED BY <1>2, <1>3, <1>4, <1>5, <1>6 DEF PageRowTrue

LEMMA TruthReads ==
    ASSUME TypesOK, TruthInv,
           \/ ReadReportCases \/ ReadCompareCases \/ ReadRunItems \/ ReadRunCases
           \/ ReadRunReport \/ ReadDetailItems \/ ReadDetailReport
           \/ ReadBadCases \/ ReadEvalCaseCases \/ ReadDetailCases
    PROVE  TruthInv'
  <1>0. /\ rows \in Seq(Row) /\ matched \in Seq(Row) /\ k \in Nat \ {0} /\ \A i \in DOMAIN rows : rows[i] \in Row
        /\ page.more \in BOOLEAN /\ \A i \in DOMAIN rows : i \in Int
    BY DEF TypesOK, TypeOK, ReaderOK
  <1>a. pc \in PagePcs /\ ask.kind \in TruthKinds /\ ~stale => \A j \in DOMAIN rows : PageRowTrue(j)
    BY DEF TruthInv
  <1>c. ask.kind = "runs" /\ pc \in PagePcs => k \in DOMAIN rows
    BY DEF TypesOK, RowsOfTable
  <1>d. pc = "compare" => ask.kind \in {"walk", "reports"}
    BY DEF TypesOK, TypeOK, ControlOK
  <1>m. \A full : SameRows(full, rows) => full \in Seq(Row) /\ DOMAIN full = DOMAIN rows
    BY DEF SameRows
  <1>k. (\E full, next : FillKind(full, next)) \/ (\E full : ConsumeKind(full))
    BY FillKinds DEF TypesOK
  <1>p. rows' \in Seq(Row) /\ DOMAIN rows' = DOMAIN rows
    BY <1>k, <1>m DEF FillKind, ConsumeKind, Consume
  <1>1. CASE ReadReportCases
    <2>1. /\ pc = "linked" /\ pc' = "compare" /\ ask.kind \in {"reports", "walk"} /\ matched' = matched /\ k' = k
          /\ UNCHANGED <<stores, ask>>
          /\ rows' = [i \in DOMAIN rows |->
                [rows[i] EXCEPT !.linked = SummarizeBySourceEvalReportIDs(cases, rows[i].id)]]
      BY <1>1 DEF ReadReportCases, Fill, Read
    <2>2. \A j \in DOMAIN rows : SameBut("linked", rows'[j], rows[j])
                                 /\ rows'[j].linked = SummarizeBySourceEvalReportIDs(cases, rows[j].id)
      BY <1>0, <2>1, OneField
    <2>3. ASSUME ask.kind \in TruthKinds, ~stale, NEW j \in DOMAIN rows PROVE PageRowTrue(j)'
      <3>1. ask.kind = "reports"
        BY <2>1, <2>3 DEF TruthKinds
      <3>2. PageRowTrue(j)
        BY <1>a, <2>1, <2>3 DEF PagePcs
      <3>3. LinkedTrue(rows'[j])
        BY <2>2, <3>1 DEF LinkedTrue, LinkedOf, SameBut
      <3>4. ReportTrue(rows'[j]) /\ FinalTrue(rows'[j]) /\ PlainRow(rows'[j])
        BY <2>2, <3>1, <3>2, SameButFacts DEF PageRowTrue, ReportRead
      <3> QED BY <2>1, <3>1, <3>3, <3>4, PageRowNext DEF LinkedRead, CompareRead, UncoveredRead, ReportRead
    <2> QED BY <1>p, <2>1, <2>3, TruthFill DEF PagePcs
  <1>2. CASE ReadCompareCases
    <2>1. /\ pc = "compare" /\ pc' = "bad" /\ ask.kind \in {"reports", "walk"} /\ matched' = matched /\ k' = k
          /\ UNCHANGED <<stores, ask>>
          /\ rows' = [i \in DOMAIN rows |->
                [rows[i] EXCEPT !.compare = SummarizeCompareOriginBySourceEvalReportIDs(cases, rows[i].id)]]
      BY <1>2, <1>d DEF ReadCompareCases, Fill, Read
    <2>2. \A j \in DOMAIN rows : SameBut("compare", rows'[j], rows[j])
                                 /\ rows'[j].compare = SummarizeCompareOriginBySourceEvalReportIDs(cases, rows[j].id)
      BY <1>0, <2>1, OneField
    <2>3. ASSUME ask.kind \in TruthKinds, ~stale, NEW j \in DOMAIN rows PROVE PageRowTrue(j)'
      <3>1. ask.kind = "reports"
        BY <2>1, <2>3 DEF TruthKinds
      <3>2. PageRowTrue(j)
        BY <1>a, <2>1, <2>3 DEF PagePcs
      <3>3. CompareTrue(rows'[j])
        BY <2>2, <3>1 DEF CompareTrue, CompareOf, SameBut
      <3>4. LinkedTrue(rows'[j]) /\ ReportTrue(rows'[j]) /\ FinalTrue(rows'[j]) /\ PlainRow(rows'[j])
        BY <2>1, <2>2, <3>1, <3>2, SameButFacts DEF PageRowTrue, ReportRead, LinkedRead
      <3> QED BY <2>1, <3>1, <3>3, <3>4, PageRowNext DEF LinkedRead, CompareRead, UncoveredRead, ReportRead
    <2> QED BY <1>p, <2>1, <2>3, TruthFill DEF PagePcs
  <1>3. CASE ReadRunItems
    <2>1. /\ pc = "items" /\ pc' = "linked" /\ ask.kind = "runs" /\ matched' = matched /\ k' = k
          /\ UNCHANGED <<stores, ask>>
          /\ rows' = [rows EXCEPT ![k] = [rows[k] EXCEPT !.uncovered = Cardinality(Uncovered(cases, FailedItems(rows[k].id)))]]
      BY <1>3 DEF ReadRunItems, Fill, Read
    <2>2. k \in DOMAIN rows
      BY <1>c, <2>1 DEF PagePcs
    <2>3. /\ SameBut("uncovered", rows'[k], rows[k])
          /\ rows'[k].uncovered = Cardinality(Uncovered(cases, FailedItems(rows[k].id)))
          /\ \A j \in DOMAIN rows : j # k => rows'[j] = rows[j]
      <3>0. PICK x : x = Cardinality(Uncovered(cases, FailedItems(rows[k].id)))
        OBVIOUS
      <3>1. rows'[k] = [rows[k] EXCEPT !.uncovered = x] /\ rows[k] \in Row
        BY <1>0, <2>1, <2>2, <3>0
      <3>2. \A j \in DOMAIN rows : j # k => rows'[j] = rows[j]
        BY <1>0, <2>1, <2>2
      <3>3. PICK row : row = [rows[k] EXCEPT !.uncovered = x]
        OBVIOUS
      <3>4. SameBut("uncovered", row, rows[k]) /\ row.uncovered = x
        BY <3>1, <3>3, OneField
      <3> QED BY <3>0, <3>1, <3>2, <3>3, <3>4
    <2>4. ASSUME ask.kind \in TruthKinds, ~stale, NEW j \in DOMAIN rows PROVE PageRowTrue(j)'
      <3>1. PageRowTrue(j)
        BY <1>a, <2>1, <2>4 DEF PagePcs
      <3>2. CASE j # k
        BY <2>1, <2>3, <3>1, <3>2, PageRowNext DEF PageRowTrue, LinkedRead, CompareRead, UncoveredRead, ReportRead
      <3>3. CASE j = k
        <4>1. UncoveredTrue(rows'[k])
          BY <2>1, <2>3 DEF UncoveredTrue, UncoveredOf, SameBut
        <4>2. CompareTrue(rows'[k]) /\ FinalTrue(rows'[k]) /\ PlainRow(rows'[k])
          BY <2>1, <2>3, <3>1, <3>3, SameButFacts DEF PageRowTrue, CompareRead
        <4>3. k \in Int /\ ~(k < k)
          BY <1>0
        <4> QED BY <2>1, <3>3, <4>1, <4>2, <4>3, PageRowNext DEF LinkedRead, CompareRead, UncoveredRead, ReportRead
      <3> QED BY <3>2, <3>3
    <2> QED BY <1>p, <2>1, <2>4, TruthFill DEF PagePcs
  <1>4. CASE ReadRunCases
    <2>1. /\ pc = "linked" /\ pc' = "report" /\ ask.kind = "runs" /\ matched' = matched /\ k' = k
          /\ UNCHANGED <<stores, ask>>
          /\ rows' = [rows EXCEPT ![k] = [rows[k] EXCEPT !.linked = SummarizeBySourceEvalRunIDs(cases, rows[k].id)]]
      BY <1>4 DEF ReadRunCases, Fill, Read
    <2>2. k \in DOMAIN rows
      BY <1>c, <2>1 DEF PagePcs
    <2>3. /\ SameBut("linked", rows'[k], rows[k])
          /\ rows'[k].linked = SummarizeBySourceEvalRunIDs(cases, rows[k].id)
          /\ \A j \in DOMAIN rows : j # k => rows'[j] = rows[j]
      <3>0. PICK x : x = SummarizeBySourceEvalRunIDs(cases, rows[k].id)
        OBVIOUS
      <3>1. rows'[k] = [rows[k] EXCEPT !.linked = x] /\ rows[k] \in Row
        BY <1>0, <2>1, <2>2, <3>0
      <3>2. \A j \in DOMAIN rows : j # k => rows'[j] = rows[j]
        BY <1>0, <2>1, <2>2
      <3>3. PICK row : row = [rows[k] EXCEPT !.linked = x]
        OBVIOUS
      <3>4. SameBut("linked", row, rows[k]) /\ row.linked = x
        BY <3>1, <3>3, OneField
      <3> QED BY <3>0, <3>1, <3>2, <3>3, <3>4
    <2>4. ASSUME ask.kind \in TruthKinds, ~stale, NEW j \in DOMAIN rows PROVE PageRowTrue(j)'
      <3>1. PageRowTrue(j)
        BY <1>a, <2>1, <2>4 DEF PagePcs
      <3>2. CASE j # k
        BY <2>1, <2>3, <3>1, <3>2, PageRowNext DEF PageRowTrue, LinkedRead, CompareRead, UncoveredRead, ReportRead
      <3>3. CASE j = k
        <4>1. LinkedTrue(rows'[k])
          BY <2>1, <2>3 DEF LinkedTrue, LinkedOf, SameBut
        <4>2. UncoveredTrue(rows'[k]) /\ CompareTrue(rows'[k]) /\ FinalTrue(rows'[k]) /\ PlainRow(rows'[k])
          BY <2>1, <2>3, <3>1, <3>3, SameButFacts DEF PageRowTrue, CompareRead, UncoveredRead
        <4>3. k \in Int /\ ~(k < k)
          BY <1>0
        <4> QED BY <2>1, <3>3, <4>1, <4>2, <4>3, PageRowNext DEF LinkedRead, CompareRead, UncoveredRead, ReportRead
      <3> QED BY <3>2, <3>3
    <2> QED BY <1>p, <2>1, <2>4, TruthFill DEF PagePcs
  <1>5. CASE ReadRunReport
    <2> DEFINE has == rows[k].final /\ Key("reports", rows[k].id)
               full == [rows EXCEPT ![k].hasReport = has]
    <2>1. /\ pc = "report" /\ ask.kind = "runs" /\ UNCHANGED <<stores, ask>>
          /\ \/ k < Len(rows) /\ rows' = full /\ pc' = "items" /\ k' = k + 1 /\ matched' = matched
             \/ k >= Len(rows) /\ Consume(full, page) /\ rows' = full
      BY <1>5 DEF ReadRunReport, Read, Consume
    <2>2. k \in DOMAIN rows
      BY <1>c, <2>1 DEF PagePcs
    <2>3. PICK row : row = [rows[k] EXCEPT !.hasReport = has]
      OBVIOUS
    <2>4. SameBut("hasReport", row, rows[k]) /\ row.hasReport = has
      <3> HIDE DEF has
      <3> QED BY <1>0, <2>2, <2>3, OneField
    <2>5. full = [rows EXCEPT ![k] = row]
      <3> HIDE DEF has
      <3> QED BY <1>0, <2>2, <2>3
    <2> HIDE DEF full
    <2>6. full[k] = row /\ DOMAIN full = DOMAIN rows /\ \A j \in DOMAIN rows : j # k => full[j] = rows[j]
      BY <1>0, <2>2, <2>5
    <2>7. ASSUME ask.kind \in TruthKinds, ~stale, NEW j \in DOMAIN rows
          PROVE  /\ j <= k => RowTrue(full[j])
                 /\ ~(j <= k) => PageRowTrue(j) /\ full[j] = rows[j]
      <3>1. PageRowTrue(j)
        BY <1>a, <2>1, <2>7 DEF PagePcs
      <3>2. CASE j < k
        <4>1. j # k /\ j <= k
          BY <1>0, <3>2
        <4> QED BY <2>1, <2>6, <3>1, <3>2, <4>1 DEF PageRowTrue, RowTrue, LinkedRead, CompareRead, UncoveredRead, ReportRead
      <3>3. CASE j = k
        <4>1. LinkedTrue(row) /\ UncoveredTrue(row) /\ CompareTrue(row) /\ FinalTrue(row) /\ PlainRow(row)
          BY <2>1, <2>4, <3>1, <3>3, SameButFacts DEF PageRowTrue, CompareRead, UncoveredRead, LinkedRead
        <4>2. FinalTrue(rows[k]) /\ row.id = rows[k].id
          BY <2>4, <3>1, <3>3, SameButFacts DEF PageRowTrue
        <4>3. ReportTrue(row)
          BY <2>1, <2>4, <4>2 DEF ReportTrue, FinalTrue
        <4>4. k <= k
          BY <1>0
        <4> QED BY <2>6, <3>3, <4>1, <4>3, <4>4 DEF RowTrue
      <3>4. CASE ~(j <= k)
        <4>1. j # k
          BY <1>0, <3>4
        <4> QED BY <2>6, <3>1, <3>4, <4>1
      <3> QED BY <1>0, <3>2, <3>3, <3>4
    <2>8. CASE k < Len(rows) /\ rows' = full /\ pc' = "items" /\ k' = k + 1 /\ matched' = matched
      <3>1. ASSUME ask.kind \in TruthKinds, ~stale, NEW j \in DOMAIN rows PROVE PageRowTrue(j)'
        <4>1. CASE j <= k
          <5>1. RowTrue(full[j])
            BY <2>7, <3>1, <4>1
          <5> QED BY <2>1, <2>8, <5>1, PageRowNext DEF RowTrue
        <4>2. CASE ~(j <= k)
          <5>1. PageRowTrue(j) /\ full[j] = rows[j]
            BY <2>7, <3>1, <4>2
          <5>2. ~(j < k') /\ ~(j < k) /\ j # k
            BY <1>0, <2>8, <4>2
          <5> QED BY <2>1, <2>8, <5>1, <5>2, PageRowNext DEF PageRowTrue, LinkedRead, CompareRead, UncoveredRead, ReportRead
        <4> QED BY <4>1, <4>2
      <3> QED BY <1>p, <2>1, <2>8, <3>1, TruthFill DEF PagePcs
    <2>9. CASE k >= Len(rows) /\ Consume(full, page) /\ rows' = full
      <3>1. \A j \in DOMAIN rows : j <= k
        BY <1>0, <2>9
      <3>2. ask.kind \in TruthKinds /\ ~stale => \A j \in DOMAIN full : RowTrue(full[j])
        BY <2>6, <2>7, <3>1
      <3>3. full \in Seq(Row) /\ ConsumeStep(full, page)
        BY <1>0, <1>p, <2>9, ConsumeIs
      <3> QED BY <1>0, <3>2, <3>3, TruthConsume
    <2> QED BY <2>1, <2>8, <2>9
  <1>6. CASE ReadDetailItems
    <2> DEFINE bad(i) == Cardinality(Uncovered(cases, IF rows[i].final THEN BadCases[rows[i].id] ELSE {}))
    <2>1. /\ pc = "items" /\ pc' = "report" /\ ask.kind = "run" /\ matched' = matched /\ k' = k
          /\ UNCHANGED <<stores, ask>>
          /\ rows' = [i \in DOMAIN rows |-> [rows[i] EXCEPT !.uncovered = bad(i)]]
      BY <1>6 DEF ReadDetailItems, Fill, Read
    <2>2. \A j \in DOMAIN rows : SameBut("uncovered", rows'[j], rows[j]) /\ rows'[j].uncovered = bad(j)
      <3> HIDE DEF bad
      <3> QED BY <1>0, <2>1, OneField
    <2>3. ASSUME ask.kind \in TruthKinds, ~stale, NEW j \in DOMAIN rows PROVE PageRowTrue(j)'
      <3>1. PageRowTrue(j)
        BY <1>a, <2>1, <2>3 DEF PagePcs
      <3>2. UncoveredTrue(rows'[j])
        <4>1. FinalTrue(rows[j]) /\ rows'[j].id = rows[j].id
          BY <2>2, <3>1, SameButFacts DEF PageRowTrue
        <4>2. rows[j].id \notin touched.runs => bad(j) = Cardinality(Uncovered(cases, FailedItems(rows[j].id)))
          BY <4>1 DEF FinalTrue, FailedItems
        <4> QED BY <2>1, <2>2, <4>1, <4>2 DEF UncoveredTrue, UncoveredOf
      <3>3. CompareTrue(rows'[j]) /\ FinalTrue(rows'[j]) /\ PlainRow(rows'[j])
        BY <2>1, <2>2, <3>1, SameButFacts DEF PageRowTrue, CompareRead
      <3> HIDE DEF bad
      <3> QED BY <2>1, <3>2, <3>3, PageRowNext DEF LinkedRead, CompareRead, UncoveredRead, ReportRead
    <2> QED BY <1>p, <2>1, <2>3, TruthFill DEF PagePcs
  <1>7. CASE ReadDetailReport
    <2> DEFINE has(i) == rows[i].final /\ Key("reports", rows[i].id)
    <2>1. /\ pc = "report" /\ pc' = "linked" /\ ask.kind = "run" /\ matched' = matched /\ k' = k
          /\ UNCHANGED <<stores, ask>>
          /\ rows' = [i \in DOMAIN rows |-> [rows[i] EXCEPT !.hasReport = has(i)]]
      BY <1>7 DEF ReadDetailReport, Fill, Read
    <2>2. \A j \in DOMAIN rows : SameBut("hasReport", rows'[j], rows[j]) /\ rows'[j].hasReport = has(j)
      <3> HIDE DEF has
      <3> QED BY <1>0, <2>1, OneField
    <2>3. ASSUME ask.kind \in TruthKinds, ~stale, NEW j \in DOMAIN rows PROVE PageRowTrue(j)'
      <3>1. PageRowTrue(j)
        BY <1>a, <2>1, <2>3 DEF PagePcs
      <3>2. ReportTrue(rows'[j])
        <4>1. FinalTrue(rows[j]) /\ rows'[j].id = rows[j].id
          BY <2>2, <3>1, SameButFacts DEF PageRowTrue
        <4> QED BY <2>1, <2>2, <4>1 DEF ReportTrue, FinalTrue
      <3>3. UncoveredTrue(rows'[j]) /\ CompareTrue(rows'[j]) /\ FinalTrue(rows'[j]) /\ PlainRow(rows'[j])
        BY <2>1, <2>2, <3>1, SameButFacts DEF PageRowTrue, CompareRead, UncoveredRead
      <3> HIDE DEF has
      <3> QED BY <2>1, <3>2, <3>3, PageRowNext DEF LinkedRead, CompareRead, UncoveredRead, ReportRead
    <2> QED BY <1>p, <2>1, <2>3, TruthFill DEF PagePcs
  <1>8. CASE ReadBadCases
    <2>1. /\ pc = "bad" /\ ask.kind \in {"reports", "walk"} /\ Consume(rows', page)
          /\ rows' = [i \in DOMAIN rows |->
                [rows[i] EXCEPT !.uncovered = Cardinality(Uncovered(cases, BadCases[rows[i].id]))]]
      BY <1>8 DEF ReadBadCases, Consume
    <2>2. \A j \in DOMAIN rows : SameBut("uncovered", rows'[j], rows[j])
                                 /\ rows'[j].uncovered = Cardinality(Uncovered(cases, BadCases[rows[j].id]))
      BY <1>0, <2>1, OneField
    <2>3. ASSUME ask.kind \in TruthKinds, ~stale, NEW j \in DOMAIN rows PROVE RowTrue(rows'[j])
      <3>1. ask.kind = "reports"
        BY <2>1, <2>3 DEF TruthKinds
      <3>2. PageRowTrue(j)
        BY <1>a, <2>1, <2>3 DEF PagePcs
      <3>3. UncoveredTrue(rows'[j])
        BY <2>2, <3>1 DEF UncoveredTrue, UncoveredOf, SameBut
      <3>4. LinkedTrue(rows'[j]) /\ CompareTrue(rows'[j]) /\ ReportTrue(rows'[j]) /\ FinalTrue(rows'[j]) /\ PlainRow(rows'[j])
        BY <2>1, <2>2, <3>1, <3>2, SameButFacts DEF PageRowTrue, ReportRead, LinkedRead, CompareRead
      <3> QED BY <3>3, <3>4 DEF RowTrue
    <2>4. ConsumeStep(rows', page)
      BY <1>0, <2>1, ConsumeIs
    <2> QED BY <1>0, <1>p, <2>3, <2>4, TruthConsume
  <1>9. CASE ReadEvalCaseCases
    <2>1. /\ pc = "linked" /\ ask.kind = "evalCases" /\ Consume(rows', page)
          /\ rows' = [i \in DOMAIN rows |->
                [rows[i] EXCEPT !.linked = SummarizeBySourceEvalCaseIDs(cases, rows[i].id)]]
      BY <1>9 DEF ReadEvalCaseCases, Consume
    <2>2. \A j \in DOMAIN rows : SameBut("linked", rows'[j], rows[j])
                                 /\ rows'[j].linked = SummarizeBySourceEvalCaseIDs(cases, rows[j].id)
      BY <1>0, <2>1, OneField
    <2>3. ASSUME ask.kind \in TruthKinds, ~stale, NEW j \in DOMAIN rows PROVE RowTrue(rows'[j])
      <3>1. PageRowTrue(j)
        BY <1>a, <2>1, <2>3 DEF PagePcs
      <3>2. LinkedTrue(rows'[j])
        BY <2>1, <2>2 DEF LinkedTrue, LinkedOf, SameBut
      <3>3. UncoveredTrue(rows'[j]) /\ CompareTrue(rows'[j]) /\ ReportTrue(rows'[j]) /\ FinalTrue(rows'[j]) /\ PlainRow(rows'[j])
        BY <2>1, <2>2, <3>1, SameButFacts DEF PageRowTrue, ReportRead, UncoveredRead, CompareRead
      <3> QED BY <3>2, <3>3 DEF RowTrue
    <2>4. ConsumeStep(rows', page)
      BY <1>0, <2>1, ConsumeIs
    <2> QED BY <1>0, <1>p, <2>3, <2>4, TruthConsume
  <1>10. CASE ReadDetailCases
    <2>1. /\ pc = "linked" /\ ask.kind = "run" /\ Consume(rows', page)
          /\ rows' = [i \in DOMAIN rows |->
                [rows[i] EXCEPT !.linked = SummarizeBySourceEvalRunIDs(cases, rows[i].id)]]
      BY <1>10 DEF ReadDetailCases, Consume
    <2>2. \A j \in DOMAIN rows : SameBut("linked", rows'[j], rows[j])
                                 /\ rows'[j].linked = SummarizeBySourceEvalRunIDs(cases, rows[j].id)
      BY <1>0, <2>1, OneField
    <2>3. ASSUME ask.kind \in TruthKinds, ~stale, NEW j \in DOMAIN rows PROVE RowTrue(rows'[j])
      <3>1. PageRowTrue(j)
        BY <1>a, <2>1, <2>3 DEF PagePcs
      <3>2. LinkedTrue(rows'[j])
        BY <2>1, <2>2 DEF LinkedTrue, LinkedOf, SameBut
      <3>3. UncoveredTrue(rows'[j]) /\ CompareTrue(rows'[j]) /\ ReportTrue(rows'[j]) /\ FinalTrue(rows'[j]) /\ PlainRow(rows'[j])
        BY <2>1, <2>2, <3>1, SameButFacts DEF PageRowTrue, ReportRead, UncoveredRead, CompareRead
      <3> QED BY <3>2, <3>3 DEF RowTrue
    <2>4. ConsumeStep(rows', page)
      BY <1>0, <2>1, ConsumeIs
    <2> QED BY <1>0, <1>p, <2>3, <2>4, TruthConsume
  <1> QED BY <1>1, <1>2, <1>3, <1>4, <1>5, <1>6, <1>7, <1>8, <1>9, <1>10

LEMMA TruthNewRows ==
    ASSUME TypesOK, TruthInv, UNCHANGED <<stores, ask>>, NEW keys \in Seq(AllKeys), rows' = NewRows(keys),
           matched' = matched, pc' = (IF ask.kind \in {"runs", "run"} THEN "items" ELSE "linked"),
           ask.kind = "runs" => k' = 1
    PROVE  TruthInv'
  <1>1. /\ DOMAIN rows' = DOMAIN keys /\ \A j \in DOMAIN keys : j \in Int /\ j >= 1
        /\ \A j \in DOMAIN keys : rows'[j] = NewRow(keys[j])
    BY NewRowsFacts
  <1>2. ASSUME ask.kind \in TruthKinds, NEW j \in DOMAIN keys PROVE PageRowTrue(j)'
    <2>1. PICK row : row = rows'[j]
      OBVIOUS
    <2>2. /\ row.id = keys[j] /\ row.latest = "none"
          /\ row.linked = NoSummary /\ row.compare = NoSummary
          /\ row.queue = NoSummary /\ row.backed = NoSummary
          /\ row.uncovered = 0
      BY <1>1, <2>1 DEF NewRow
    <2>3. (row.final <=> keys[j] \in finished) /\ ~row.hasReport
      <3>1. row = NewRow(keys[j])
        BY <1>1, <2>1
      <3>2. row.final <=> keys[j] \in finished
        BY <3>1, NewRowFinal
      <3>3. row.hasReport = FALSE
        BY <3>1, NewRowEmpty
      <3> QED BY <3>2, <3>3
    <2>4. FinalTrue(row) /\ PlainRow(row)
      BY <2>2, <2>3 DEF FinalTrue, PlainRow
    <2>5. ask.kind # "reports" => CompareTrue(row)
      BY <2>2 DEF CompareTrue, CompareOf
    <2>6. ask.kind = "evalCases" => UncoveredTrue(row)
      BY <2>2 DEF UncoveredTrue, UncoveredOf
    <2>7. ask.kind \in {"reports", "evalCases"} => ReportTrue(row)
      BY <2>3 DEF ReportTrue
    <2>8. ask' = ask /\ (ask.kind = "runs" => ~(j < k'))
      BY <1>1
    <2>9. ~LinkedRead(j)'
      BY <2>8 DEF LinkedRead
    <2>10. CompareRead' => ask.kind # "reports"
      BY <2>8 DEF CompareRead
    <2>11. UncoveredRead(j)' => ask.kind = "evalCases"
      BY <2>8 DEF UncoveredRead
    <2>12. ReportRead(j)' => ask.kind \in {"reports", "evalCases"}
      BY <2>8 DEF ReportRead
    <2> QED BY <2>1, <2>4, <2>5, <2>6, <2>7, <2>9, <2>10, <2>11, <2>12, PageRowNext
  <1> QED BY <1>1, <1>2, TruthFill DEF PagePcs

LEMMA TruthReader ==
    ASSUME TypesOK, TruthInv, Reader
    PROVE  TruthInv'
  <1>0. StoresOK /\ ReaderOK /\ ControlOK /\ RowsOfTable
    BY DEF TypesOK, TypeOK
  <1>1. ASSUME NEW q \in Requests, Begin(q) PROVE TruthInv'
    <2>1. matched' = <<>> /\ rows' = <<>> /\ pc' \notin PagePcs
      BY <1>1 DEF Begin, Cleared, PagePcs
    <2> QED BY <2>1 DEF TruthInv
  <1>2. CASE Leave
    BY <1>2 DEF Leave, NoAsk, Ask, TruthInv, TruthKinds
  <1>3. CASE UNCHANGED <<stores, ask>> /\ ask.kind \notin TruthKinds
    BY <1>3 DEF TruthInv, stores
  <1>4. CASE ask.kind \in TruthKinds /\ ListPage
    <2> DEFINE listed == Page(table[TableOf(ask)], at, ScanLimit(ask))
    <2>1. /\ pc = "list" /\ k' = 1 /\ UNCHANGED <<stores, ask>>
          /\ \/ listed.rows = <<>> /\ Consume(<<>>, listed)
             \/ rows' = NewRows(listed.rows) /\ matched' = matched /\ pc' = IF ask.kind = "runs" THEN "items" ELSE "linked"
      BY <1>4 DEF ListPage, Read, Consume
    <2>2. ask.kind # "run" /\ ask.kind \in RowKinds
      BY <1>0, <1>4, <2>1 DEF ControlOK, TruthKinds, RowKinds
    <2>3. PageOf(Keys(TableOf(ask)), table[TableOf(ask)], at, ScanLimit(ask), listed) /\ Keys(TableOf(ask)) \subseteq AllKeys
      <3>1. AskOK(ask) /\ at \in Nat
        BY <1>0 DEF ReaderOK
      <3> QED BY <1>0, <2>2, <3>1, TablesTyped, ScanLimitNat DEF PageOf
    <2>4. listed.rows \in Seq(Keys(TableOf(ask))) /\ listed.more \in BOOLEAN
      BY <2>3, PageIs
    <2>5. listed.rows \in Seq(AllKeys)
      BY <2>3, <2>4, SeqSub
    <2> HIDE DEF listed
    <2>6. CASE listed.rows = <<>> /\ Consume(<<>>, listed)
      <3>1. ConsumeStep(<<>>, listed) /\ matched \in Seq(Row) /\ <<>> \in Seq(Row) /\ \A i \in DOMAIN <<>> : RowTrue(<<>>[i])
        BY <1>0, <2>4, <2>6, ConsumeIs DEF ReaderOK
      <3> QED BY <3>1, TruthConsume
    <2>7. CASE rows' = NewRows(listed.rows) /\ matched' = matched /\ pc' = (IF ask.kind = "runs" THEN "items" ELSE "linked")
      <3>1. pc' = (IF ask.kind \in {"runs", "run"} THEN "items" ELSE "linked")
        BY <2>2, <2>7
      <3> QED BY <2>1, <2>5, <2>7, <3>1, TruthNewRows
    <2> QED BY <2>1, <2>6, <2>7
  <1>5. CASE ask.kind \in TruthKinds /\ GetRows
    <2>1. /\ pc = "get" /\ UNCHANGED <<stores, ask>>
          /\ \/ pc' = "done" /\ matched' = matched /\ rows' = rows
             \/ rows' = NewRows(ask.keys) /\ matched' = matched /\ pc' = IF ask.kind = "run" THEN "items" ELSE "linked"
      BY <1>5 DEF GetRows, Read, Respond, TruthKinds
    <2>2. ask.kind # "runs" /\ ask.keys \in Seq(AllKeys)
      <3>1. ask.keys # <<>> /\ AskOK(ask)
        BY <1>0, <2>1 DEF ControlOK, ReaderOK
      <3>2. ask.keys \in Seq(Keys(TableOf(ask))) /\ ask.kind # "runs"
        BY <3>1 DEF AskOK
      <3>3. ask.kind \in RowKinds
        BY <1>5 DEF TruthKinds, RowKinds
      <3> QED BY <1>0, <3>2, <3>3, TablesTyped, SeqSub
    <2>3. CASE pc' = "done" /\ matched' = matched /\ rows' = rows
      <3>1. \A row : RowTrue(row)' <=> RowTrue(row)
        BY <2>1, TruthFrame
      <3>2. stale' = stale
        BY <2>1 DEF stores
      <3> QED BY <2>1, <2>3, <3>1, <3>2 DEF TruthInv, PagePcs
    <2>4. CASE rows' = NewRows(ask.keys) /\ matched' = matched /\ pc' = IF ask.kind = "run" THEN "items" ELSE "linked"
      <3>1. pc' = (IF ask.kind \in {"runs", "run"} THEN "items" ELSE "linked")
        BY <2>2, <2>4
      <3> QED BY <2>1, <2>2, <2>4, <3>1, TruthNewRows
    <2> QED BY <2>1, <2>3, <2>4
  <1>6. CASE /\ ask.kind \in TruthKinds
             /\ ~(\/ ReadReportCases \/ ReadCompareCases \/ ReadRunItems \/ ReadRunCases
                  \/ ReadRunReport \/ ReadDetailItems \/ ReadDetailReport
                  \/ ReadBadCases \/ ReadEvalCaseCases \/ ReadDetailCases)
             /\ ~ListPage /\ ~GetRows /\ ~Leave /\ ~(\E q \in Requests : Begin(q))
    <2>1. ask.kind # "datasets" /\ ask.kind # "caseQueue"
      BY <1>6 DEF TruthKinds
    <2>2. pc \notin {"latest", "counts", "newest", "backed", "cases"}
      BY <1>0, <2>1 DEF ControlOK
    <2> QED BY <1>6, <2>1, <2>2 DEF Reader, ListDatasets, collectLatestEvalRunsByDataset, LookUpReports, ReadLatestBadCases,
                ReadLatestReportCases, ReadFallbackItems, collectEvalReportIDsByDataset, CountQueues, ReadNewestCase,
                ReadRunBackedCases, collectEvalReportIDsForDataset, ListCases, Deliver, QueryFails
  <1> QED BY <1>1, <1>2, <1>3, <1>4, <1>5, <1>6, TruthReads, ReaderFrame

LEMMA TruthStep == TypesOK /\ TruthInv /\ [Next]_vars => TruthInv'
  <1>1. ASSUME TruthInv, UNCHANGED vars PROVE TruthInv'
    <2>1. UNCHANGED <<stores, ask>> /\ rows' = rows /\ matched' = matched /\ pc' = pc /\ k' = k
      BY <1>1 DEF vars
    <2>2. ASSUME ask.kind \in TruthKinds, ~stale, pc \in PagePcs, NEW j \in DOMAIN rows PROVE PageRowTrue(j)'
      <3>1. PageRowTrue(j)
        BY <1>1, <2>2 DEF TruthInv
      <3>2. /\ LinkedRead(j)' <=> LinkedRead(j)
            /\ CompareRead' <=> CompareRead
            /\ UncoveredRead(j)' <=> UncoveredRead(j)
            /\ ReportRead(j)' <=> ReportRead(j)
        BY <2>1 DEF LinkedRead, CompareRead, UncoveredRead, ReportRead
      <3> QED BY <2>1, <3>1, <3>2, PageRowNext DEF PageRowTrue
    <2>3. \A row : RowTrue(row)' <=> RowTrue(row)
      BY <2>1, TruthFrame
    <2>4. stale' = stale
      BY <2>1 DEF stores
    <2> QED BY <1>1, <2>1, <2>2, <2>3, <2>4 DEF TruthInv
  <1> QED BY <1>1, TruthWrites, TruthReader DEF Next

LEMMA TruthInit == Init => TruthInv
  BY DEF Init, NoAsk, Ask, TruthInv, TruthKinds

(***************************************************************************)
(* Answers.                                                                *)
(***************************************************************************)

Listed == [rows : Seq(AllKeys), more : BOOLEAN, next : Nat]

\* What is answered of the rows that were gathered.
Answered(all, listed) ==
    \/ ask.kind = "walk" /\ ~listed.more /\ resp'.rows = all
    \/ /\ ask.kind # "walk" /\ ~Filtered(ask)
       /\ resp'.rows = all /\ (resp'.more <=> listed.more) /\ resp'.next = listed.next
    \/ /\ ask.kind # "walk" /\ Filtered(ask)
       /\ Len(all) > ask.offset + Limit \/ ~listed.more
       /\ resp' = Page(all, ask.offset, Limit)

LEMMA ConsumeAnswers ==
    ASSUME NEW full, NEW listed \in Listed, Consume(full, listed), pc' = "done"
    PROVE  Answered(matched \o Matching(ask, full), listed)
  <1> DEFINE all == matched \o Matching(ask, full)
  <1>0. PICK a : a = all
    OBVIOUS
  <1>1. \/ ask.kind = "walk" /\ ~listed.more /\ resp' = [NoPage EXCEPT !.rows = a]
        \/ ask.kind # "walk" /\ ~Filtered(ask) /\ resp' = [listed EXCEPT !.rows = a]
        \/ /\ ask.kind # "walk" /\ Filtered(ask)
           /\ Len(a) > ask.offset + Limit \/ ~listed.more
           /\ resp' = MatchedPage(a, ask.offset)
    BY <1>0 DEF Consume, Respond, NextPage
  <1>2. CASE ask.kind = "walk" /\ ~listed.more /\ resp' = [NoPage EXCEPT !.rows = a]
    BY <1>0, <1>2 DEF Answered, NoPage
  <1>3. CASE ask.kind # "walk" /\ ~Filtered(ask) /\ resp' = [listed EXCEPT !.rows = a]
    <2>1. resp'.rows = a /\ (resp'.more <=> listed.more) /\ resp'.next = listed.next
      BY <1>3 DEF Listed
    <2> QED BY <1>0, <1>3, <2>1 DEF Answered
  <1>4. CASE /\ ask.kind # "walk" /\ Filtered(ask)
             /\ Len(a) > ask.offset + Limit \/ ~listed.more
             /\ resp' = MatchedPage(a, ask.offset)
    BY <1>0, <1>4 DEF Answered, MatchedPage
  <1> QED BY <1>1, <1>2, <1>3, <1>4

\* A page of a list holds elements of the list.
LEMMA PageWithin ==
    ASSUME NEW S, NEW list \in Seq(S), NEW a \in Nat, NEW p, p = Page(list, a, Limit)
    PROVE  /\ \A i \in DOMAIN p.rows : \E j \in DOMAIN list : p.rows[i] = list[j]
           /\ p.more <=> Len(list) > a + Limit
           /\ \A j \in DOMAIN list : a = 0 /\ ~p.more => \E i \in DOMAIN p.rows : p.rows[i] = list[j]
  <1>1. PageOf(S, list, a, Limit, p)
    BY ConstantsAssumption DEF PageOf
  <1>2. /\ \A i \in DOMAIN p.rows : a + i \in DOMAIN list /\ p.rows[i] = list[a + i]
        /\ p.more <=> Len(list) > a + Limit
        /\ \A i \in DOMAIN list : a < i /\ (p.more => i <= a + Limit) =>
                 i - a \in DOMAIN p.rows /\ p.rows[i - a] = list[i]
    BY <1>1, PageIs
  <1>3. ASSUME NEW j \in DOMAIN list, a = 0, ~p.more PROVE \E i \in DOMAIN p.rows : p.rows[i] = list[j]
    <2>1. j \in Nat /\ a < j
      BY <1>3
    <2> QED BY <1>2, <1>3, <2>1
  <1> QED BY <1>2, <1>3

\* The response holds rows that were gathered.
RespInv ==
    pc = "done" /\ ask.kind # "caseQueue" =>
        \A i \in DOMAIN resp.rows : \E j \in DOMAIN matched : resp.rows[i] = matched[j]

LEMMA RespConsume ==
    ASSUME TypesOK, NEW full \in Seq(Row), NEW listed \in Listed, Consume(full, listed)
    PROVE  RespInv'
  <1> SUFFICES ASSUME pc' = "done" PROVE \A i \in DOMAIN resp'.rows : \E j \in DOMAIN matched' : resp'.rows[i] = matched'[j]
    BY DEF RespInv
  <1>1. matched' = matched \o Matching(ask, full)
    BY DEF Consume
  <1>2. Gathered(ask, matched, full, matched')
    BY <1>1 DEF Gathered, TypesOK, TypeOK, ReaderOK
  <1>3. matched' \in Seq(Row)
    BY <1>2, AllFacts
  <1>4. Answered(matched', listed)
    BY <1>1, ConsumeAnswers
  <1>5. ask.offset \in Nat
    BY DEF TypesOK, TypeOK, ReaderOK, AskOK
  <1>6. CASE resp'.rows = matched'
    BY <1>6
  <1>7. CASE resp' = Page(matched', ask.offset, Limit)
    BY <1>3, <1>5, <1>7, PageWithin
  <1> QED BY <1>4, <1>6, <1>7 DEF Answered

LEMMA RespStep == TypesOK /\ RespInv /\ [Next]_vars => RespInv'
  <1> SUFFICES ASSUME TypesOK, RespInv, [Next]_vars PROVE RespInv'
    OBVIOUS
  <1>0. StoresOK /\ ReaderOK /\ ControlOK /\ RowsOfTable
    BY DEF TypesOK, TypeOK
  <1>1. CASE UNCHANGED vars
    BY <1>1 DEF vars, RespInv
  <1>2. CASE Others
    <2>1. pc' = pc /\ pc # "done"
      BY <1>2, WritesOf DEF CaseWrite, RowWrite, readerVars
    <2> QED BY <2>1 DEF RespInv
  <1>3. CASE Reader
    <2>r. TypeOK /\ RowsOfTable /\ Reader
      BY <1>3 DEF TypesOK
    <2>1. ASSUME NEW full, ConsumeKind(full) PROVE RespInv'
      <3>1. full \in Seq(Row) /\ page \in Listed /\ Consume(full, page)
        BY <1>0, <2>1 DEF ConsumeKind, SameRows, ReaderOK, Listed
      <3> QED BY <3>1, RespConsume
    <2>2. CASE ListPage
      <3> DEFINE listed == Page(table[TableOf(ask)], at, ScanLimit(ask))
      <3>1. CASE pc' # "done"
        BY <3>1 DEF RespInv
      <3>2. CASE pc' = "done"
        <4>1. pc = "list" /\ Consume(<<>>, listed) /\ ask.kind \in RowKinds
          BY <1>0, <2>2, <3>2 DEF ListPage, ControlOK, RowKinds
        <4>2. PageOf(Keys(TableOf(ask)), table[TableOf(ask)], at, ScanLimit(ask), listed) /\ Keys(TableOf(ask)) \subseteq AllKeys
          <5>1. AskOK(ask) /\ at \in Nat
            BY <1>0 DEF ReaderOK
          <5> QED BY <1>0, <4>1, <5>1, TablesTyped, ScanLimitNat DEF PageOf
        <4>3. listed \in [rows : Seq(Keys(TableOf(ask))), more : BOOLEAN, next : Nat]
          BY <4>2, PageIs
        <4> HIDE DEF listed
        <4>4. listed \in Listed
          BY <4>2, <4>3 DEF Listed
        <4>5. <<>> \in Seq(Row)
          OBVIOUS
        <4> QED BY <4>1, <4>4, <4>5, RespConsume
      <3> QED BY <3>1, <3>2
    <2>3. CASE GetRows
      <3>1. pc' = "done" => resp' = NoPage
        BY <2>3 DEF GetRows, Respond
      <3> QED BY <3>1 DEF RespInv, NoPage
    <2>4. CASE ListDatasets
      <3> DEFINE listed == Page(table.datasets, at, ScanLimit(ask))
                 all == matched \o NewRows(listed.rows)
      <3>1. pc' = "done" => resp' = listed /\ all = <<>>
        <4> HIDE DEF listed, all
        <4> QED BY <2>4 DEF ListDatasets, NextPage, listed, all
      <3>2. listed.rows \in Seq(AllKeys)
        <4>1. at \in Nat /\ AskOK(ask) /\ table.datasets \in Seq(Datasets)
          BY <1>0, TablesTyped DEF ReaderOK
        <4>2. PageOf(Datasets, table.datasets, at, ScanLimit(ask), listed)
          BY <4>1, ScanLimitNat DEF PageOf
        <4>3. listed.rows \in Seq(Datasets)
          BY <4>2, PageIs
        <4> QED BY <4>3, SeqSub DEF AllKeys
      <3> HIDE DEF listed
      <3>3. NewRows(listed.rows) \in Seq(Row) /\ DOMAIN NewRows(listed.rows) = DOMAIN listed.rows /\ matched \in Seq(Row)
        BY <1>0, <3>2, NewRowsFacts DEF ReaderOK
      <3>4. all = <<>> => NewRows(listed.rows) = <<>>
        BY <3>3
      <3>5. pc' = "done" => DOMAIN resp'.rows = {}
        BY <3>1, <3>2, <3>3, <3>4
      <3> QED BY <3>5 DEF RespInv
    <2>5. CASE ReadRunBackedCases
      <3>1. /\ pc = "backed" /\ resp' = IF Filtered(ask) THEN MatchedPage(Matching(ask, matched'), ask.offset)
                                        ELSE [page EXCEPT !.rows = matched']
        BY <2>5 DEF ReadRunBackedCases, Respond
      <3>2. matched' \in Seq(Row) /\ ask.offset \in Nat /\ page \in Listed
        BY <1>0, <1>3, TypesReader DEF TypesOK, TypeOK, ReaderOK, AskOK, Listed
      <3>3. CASE ~Filtered(ask)
        <4>1. resp'.rows = matched'
          BY <3>1, <3>2, <3>3 DEF Listed
        <4> QED BY <4>1 DEF RespInv
      <3>4. CASE Filtered(ask)
        <4>1. PICK all : all = Matching(ask, matched')
          OBVIOUS
        <4>2. all \in Seq(Row) /\ Range(all) \subseteq Range(matched')
          <5>1. PICK M : M = {i \in DOMAIN matched' : Matches(ask, matched'[i])}
            OBVIOUS
          <5>2. all \in Seq(Row) /\ Range(all) = {matched'[i] : i \in M}
            BY <3>2, <4>1, <5>1, MatchingFacts
          <5> QED BY <5>1, <5>2 DEF Range
        <4>3. resp' = Page(all, ask.offset, Limit)
          BY <3>1, <3>4, <4>1 DEF MatchedPage
        <4>4. \A i \in DOMAIN resp'.rows : \E j \in DOMAIN all : resp'.rows[i] = all[j]
          BY <3>2, <4>2, <4>3, PageWithin
        <4>5. \A j \in DOMAIN all : \E m \in DOMAIN matched' : all[j] = matched'[m]
          BY <4>2 DEF Range
        <4> QED BY <4>4, <4>5 DEF RespInv
      <3> QED BY <3>3, <3>4
    <2>6. CASE collectEvalReportIDsForDataset \/ ListCases
      <3>1. ask' = ask /\ ask.kind = "caseQueue"
        BY <1>0, <2>6 DEF collectEvalReportIDsForDataset, ListCases, Read, ControlOK
      <3> QED BY <3>1 DEF RespInv
    <2>7. CASE \/ \E q \in Requests : Begin(q)
               \/ \E full, next : FillKind(full, next)
               \/ \E full, next : CandidateKind(full, next)
               \/ collectLatestEvalRunsByDataset \/ collectEvalReportIDsByDataset \/ Leave
      <3>1. pc' # "done"
        BY <2>7 DEF Begin, FillKind, CandidateKind, collectLatestEvalRunsByDataset, collectEvalReportIDsByDataset, Leave, PagePcs
      <3> QED BY <3>1 DEF RespInv
    <2> QED BY <2>r, <2>1, <2>2, <2>3, <2>4, <2>5, <2>6, <2>7, ReaderKinds
  <1> QED BY <1>1, <1>2, <1>3 DEF Next

(***************************************************************************)
(* A scan meets every row that nobody writes.                              *)
(***************************************************************************)

\* The listing should hold a row that nobody wrote.
Hit(key) == ask.kind = "walk" \/ (~stale /\ Matches(ask, TrueRow(ask.kind, key)))

Holds(list, key) == \E m \in DOMAIN list : list[m].id = key

StillHit(i) == StillAt(TableOf(ask), i) /\ Hit(table[TableOf(ask)][i])

\* A listing from its first row.
Scanned == ask.kind \in Listings \cup {"walk"} /\ ask.keys = <<>> /\ ask.offset = 0

\* Such a row is behind the scan only when it was gathered.
SeenInv ==
    Scanned =>
        \A i \in DOMAIN table[TableOf(ask)] : StillHit(i) =>
            LET key == table[TableOf(ask)][i] IN
            /\ pc = "list" /\ i <= at => Holds(matched, key)
            /\ pc \in PagePcs /\ (page.more => i <= page.next) => Holds(matched, key) \/ Holds(rows, key)
            /\ pc = "done" /\ (ask.kind = "walk" \/ ~resp.more) => Holds(resp.rows, key)

LEMMA TrueFields ==
    ASSUME ask.kind \in Listings, NEW key
    PROVE  TrueRow(ask.kind, key).linked = LinkedOf(key) /\ TrueRow(ask.kind, key).uncovered = UncoveredOf(key)
  <1>1. CASE ask.kind = "reports"
    BY <1>1 DEF TrueRow, ReportRow, NewRow, LinkedOf, UncoveredOf
  <1>2. CASE ask.kind = "evalCases"
    BY <1>2 DEF TrueRow, EvalCaseRow, NewRow, LinkedOf, UncoveredOf
  <1>3. CASE ask.kind = "runs"
    BY <1>3 DEF TrueRow, RunRow, NewRow, LinkedOf, UncoveredOf
  <1> QED BY <1>1, <1>2, <1>3 DEF Listings

\* The fields that a filter tests.
LEMMA MatchesSame ==
    ASSUME NEW q, NEW r, NEW s, r.linked = s.linked, r.uncovered = s.uncovered
    PROVE  Matches(q, r) <=> Matches(q, s)
  BY DEF Matches

\* A row matches as it was read if and only if it matches in truth.
LEMMA MatchesTrue ==
    ASSUME NEW row, RowTrue(row), ask.kind \in Listings, row.id \notin touched[TableOf(ask)]
    PROVE  Matches(ask, row) <=> Matches(ask, TrueRow(ask.kind, row.id))
  <1>1. row.linked = LinkedOf(row.id) /\ row.uncovered = UncoveredOf(row.id)
    BY DEF RowTrue, LinkedTrue, UncoveredTrue, Listings, TableOf
  <1> QED BY <1>1, TrueFields, MatchesSame

\* Whether a row that nobody wrote is to be listed does not change.
LEMMA HitKept ==
    ASSUME ask.kind \in Listings \cup {"walk"}, ask' = ask, NEW key,
           \/ UNCHANGED stores
           \/ cases' = cases /\ stale' = stale /\ (ask.kind = "runs" => (key \in finished' <=> key \in finished)),
           Hit(key)'
    PROVE  Hit(key)
  <1>1. CASE ask.kind = "walk"
    BY <1>1 DEF Hit
  <1>2. CASE ask.kind \in Listings
    <2>1. cases' = cases /\ stale' = stale /\ (ask.kind = "runs" => (key \in finished' <=> key \in finished))
      BY DEF stores
    <2>2. ask.kind # "run" /\ ask'.kind \in Listings
      BY <1>2 DEF Listings
    <2>3. LinkedOf(key)' = LinkedOf(key) /\ UncoveredOf(key)' = UncoveredOf(key)
      BY <1>2, <2>1 DEF LinkedOf, UncoveredOf, FailedItems, Listings
    <2>4. TrueRow(ask.kind, key).linked = LinkedOf(key) /\ TrueRow(ask.kind, key).uncovered = UncoveredOf(key)
      BY <1>2, TrueFields
    <2>5. TrueRow(ask.kind, key).linked' = LinkedOf(key)' /\ TrueRow(ask.kind, key).uncovered' = UncoveredOf(key)'
      <3>1. CASE ask.kind = "reports"
        BY <3>1 DEF TrueRow, ReportRow, NewRow, LinkedOf, UncoveredOf
      <3>2. CASE ask.kind = "evalCases"
        BY <3>2 DEF TrueRow, EvalCaseRow, NewRow, LinkedOf, UncoveredOf
      <3>3. CASE ask.kind = "runs"
        BY <3>3 DEF TrueRow, RunRow, NewRow, LinkedOf, UncoveredOf
      <3> QED BY <1>2, <3>1, <3>2, <3>3 DEF Listings
    <2>6. PICK r, s : r = TrueRow(ask.kind, key) /\ s = TrueRow(ask.kind, key)'
      OBVIOUS
    <2>7. Matches(ask, s)
      <3>1. Matches(ask, TrueRow(ask.kind, key))'
        BY <1>2, <2>2 DEF Hit, Listings
      <3> QED BY <2>6, <3>1 DEF Matches
    <2>8. Matches(ask, r)
      BY <2>3, <2>4, <2>5, <2>6, <2>7, MatchesSame
    <2>9. ~stale
      BY <1>2, <2>1 DEF Hit, Listings
    <2> QED BY <2>6, <2>8, <2>9 DEF Hit
  <1> QED BY <1>1, <1>2

\* A write moves a row that nobody wrote only further away from the front.
LEMMA SeenWrites ==
    ASSUME TypesOK, SeenInv, Others
    PROVE  SeenInv'
  <1> USE DEF StillHit, StillAt
  <1>1. UNCHANGED readerVars /\ StoresOK
    BY WritesOf
  <1>2. ask' = ask /\ pc' = pc /\ at' = at /\ page' = page /\ matched' = matched /\ rows' = rows /\ resp' = resp
    BY <1>1 DEF readerVars
  <1>3. SUFFICES ASSUME Scanned, NEW i \in DOMAIN table'[TableOf(ask)], StillHit(i)', NEW key, key = table'[TableOf(ask)][i]
                 PROVE  /\ pc = "list" /\ i <= at => Holds(matched, key)
                        /\ pc \in PagePcs /\ (page.more => i <= page.next) => Holds(matched, key) \/ Holds(rows, key)
                        /\ pc = "done" /\ (ask.kind = "walk" \/ ~resp.more) => Holds(resp.rows, key)
    BY <1>2 DEF SeenInv, Scanned, Holds, TableOf, PagePcs
  <1> DEFINE u == TableOf(ask)
  <1>4. pc # "idle" /\ u \in Tables /\ at \in Nat /\ page.next \in Nat
    <2>1. ControlOK /\ ReaderOK
      BY DEF TypesOK, TypeOK
    <2>2. page \in [rows : Seq(AllKeys), more : BOOLEAN, next : Nat]
      BY <2>1 DEF ReaderOK
    <2> QED BY <1>3, <2>1, <2>2 DEF ControlOK, ReaderOK, Scanned, Listings, TableOf, Tables
  <1>5. TableOf(ask)' = u
    BY <1>2 DEF TableOf
  <1>6. key \notin touched'[u] /\ Hit(key)'
    BY <1>2, <1>3, <1>5 DEF Hit
  <1>7. CASE CaseWrite
    <2>1. stale' /\ table' = table /\ touched' = touched
      BY <1>4, <1>7 DEF CaseWrite
    <2>2. ask.kind = "walk"
      BY <1>2, <1>6, <2>1 DEF Hit
    <2>3. StillHit(i)
      BY <1>3, <1>5, <1>6, <2>1, <2>2 DEF Hit
    <2> QED BY <1>3, <2>1, <2>3 DEF SeenInv
  <1>8. ASSUME NEW t \in Tables, NEW x \in Keys(t), NEW n \in Nat, NEW l \in Nat, RowWrite(t, x, n, l)
        PROVE  /\ pc = "list" /\ i <= at => Holds(matched, key)
               /\ pc \in PagePcs /\ (page.more => i <= page.next) => Holds(matched, key) \/ Holds(rows, key)
               /\ pc = "done" /\ (ask.kind = "walk" \/ ~resp.more) => Holds(resp.rows, key)
    <2>1. StillMoves(t, x, n, l, u)
      BY <1>1, <1>4, <1>8, RowMoves
    <2>2. PICK j : j = Origin(t, n, l, u, i)
      OBVIOUS
    <2>3. j \in DOMAIN table[u] /\ j <= i /\ table[u][j] = key /\ key \notin touched[u] /\ (u = t => key # x)
      BY <1>3, <1>6, <2>1, <2>2 DEF StillMoves
    <2>4. cases' = cases /\ stale' = stale /\ (ask.kind = "runs" => (key \in finished' <=> key \in finished))
      BY <1>8, <2>3 DEF RowWrite, TableOf
    <2>5. Hit(key)
      BY <1>2, <1>3, <1>6, <2>4, HitKept DEF Scanned
    <2>6. StillHit(j)
      BY <2>3, <2>5
    <2>7. j \in Int /\ i \in Int
      <3>1. StoresOK'
        BY <1>1, StoresWrites
      <3> QED BY <1>1, <1>3, <1>4, <2>3, <3>1 DEF StoresOK, IsListing
    <2>8. (i <= at => j <= at) /\ (i <= page.next => j <= page.next)
      BY <1>4, <2>3, <2>7
    <2> QED BY <1>3, <2>3, <2>6, <2>8 DEF SeenInv
  <1> QED BY <1>7, <1>8, WritesOf

\* The rows of a page that is complete.
LEMMA CompleteRowsTrue ==
    ASSUME TruthInv', UNCHANGED <<stores, ask>>, pc' \notin PagePcs, NEW full, rows' = full
    PROVE  ask.kind \in TruthKinds /\ ~stale => \A m \in DOMAIN full : RowTrue(full[m])
  <1> SUFFICES ASSUME ask.kind \in TruthKinds, ~stale, NEW m \in DOMAIN full PROVE RowTrue(full[m])
    OBVIOUS
  <1>1. ask' = ask /\ cases' = cases /\ table' = table /\ finished' = finished /\ touched' = touched /\ stale' = stale
    BY DEF stores
  <1>2. RowTrue(rows[m])'
    BY <1>1 DEF TruthInv, TruthKinds, PagePcs
  <1>3. LinkedTrue(rows'[m]) <=> LinkedTrue(rows[m])'
    BY <1>1 DEF LinkedTrue, LinkedOf
  <1>4. CompareTrue(rows'[m]) <=> CompareTrue(rows[m])'
    BY <1>1 DEF CompareTrue, CompareOf
  <1>5. UncoveredTrue(rows'[m]) <=> UncoveredTrue(rows[m])'
    BY <1>1 DEF UncoveredTrue, UncoveredOf, FailedItems
  <1>6. ReportTrue(rows'[m]) <=> ReportTrue(rows[m])'
    BY <1>1 DEF ReportTrue, Key
  <1>7. (FinalTrue(rows'[m]) <=> FinalTrue(rows[m])') /\ (PlainRow(rows'[m]) <=> PlainRow(rows[m])')
    BY <1>1 DEF FinalTrue, PlainRow
  <1> QED BY <1>2, <1>3, <1>4, <1>5, <1>6, <1>7 DEF RowTrue

LEMMA StillHitFrame ==
    ASSUME Scanned, UNCHANGED <<stores, ask>>
    PROVE  \A i : StillHit(i)' => StillHit(i)
  <1> SUFFICES ASSUME NEW i, StillHit(i)' PROVE StillHit(i)
    OBVIOUS
  <1>1. ask' = ask /\ UNCHANGED stores /\ table' = table /\ touched' = touched /\ TableOf(ask)' = TableOf(ask)
    BY DEF stores, TableOf
  <1>2. PICK x : x = table[TableOf(ask)][i]
    OBVIOUS
  <1>3. StillAt(TableOf(ask), i) /\ Hit(x)'
    BY <1>1, <1>2 DEF StillHit, StillAt, Hit
  <1>4. Hit(x)
    BY <1>1, <1>3, HitKept DEF Scanned
  <1> QED BY <1>2, <1>3, <1>4 DEF StillHit

\* What is gathered from a complete page are its rows that match in truth.
LEMMA SeenConsume ==
    ASSUME TypesOK, Scanned, NEW full \in Seq(Row), NEW listed \in Listed, Consume(full, listed), TruthInv',
           \A i \in DOMAIN table[TableOf(ask)] : StillHit(i) /\ (listed.more => i <= listed.next) =>
               Holds(matched, table[TableOf(ask)][i]) \/ Holds(full, table[TableOf(ask)][i])
    PROVE  SeenInv'
  <1> DEFINE u == TableOf(ask)
  <1>1. /\ UNCHANGED <<stores, ask>> /\ matched' = matched \o Matching(ask, full) /\ rows' = full
        /\ \/ pc' = "list" /\ at' = listed.next /\ listed.more
           \/ pc' = "done"
    BY ConsumeIs DEF ConsumeStep, Listed
  <1>2. ask' = ask /\ table' = table /\ touched' = touched /\ cases' = cases /\ finished' = finished /\ stale' = stale
    BY <1>1 DEF stores
  <1>3. Gathered(ask, matched, full, matched') /\ matched' \in Seq(Row)
    <2>1. Gathered(ask, matched, full, matched')
      BY <1>1 DEF Gathered, TypesOK, TypeOK, ReaderOK
    <2> QED BY <2>1, AllFacts
  <1>4. /\ \A i \in DOMAIN matched : i \in DOMAIN matched' /\ matched'[i] = matched[i]
        /\ \A i \in DOMAIN full : Matches(ask, full[i]) => \E j \in DOMAIN matched' : matched'[j] = full[i]
    BY <1>3, AllFacts
  <1>5. ask.kind \in Listings /\ ~stale => \A m \in DOMAIN full : RowTrue(full[m])
    BY <1>1, CompleteRowsTrue DEF Listings, TruthKinds, PagePcs
  <1>6. SUFFICES ASSUME NEW i \in DOMAIN table[u], StillHit(i), NEW key, key = table[u][i]
                 PROVE  /\ pc' = "list" /\ i <= at' => Holds(matched', key)
                        /\ pc' = "done" /\ (ask.kind = "walk" \/ ~resp'.more) => Holds(resp'.rows, key)
    <2>1. \A j : StillHit(j)' => StillHit(j)
      BY <1>1, StillHitFrame
    <2>2. TableOf(ask)' = u /\ (Scanned' <=> Scanned)
      BY <1>2 DEF TableOf, Scanned
    <2>3. pc' \notin PagePcs
      BY <1>1 DEF PagePcs
    <2> QED BY <1>2, <1>6, <2>1, <2>2, <2>3 DEF SeenInv, Holds
  <1>7. ASSUME listed.more => i <= listed.next PROVE Holds(matched', key)
    <2>1. Holds(matched, key) \/ Holds(full, key)
      BY <1>6, <1>7
    <2>2. CASE Holds(matched, key)
      BY <1>4, <2>2 DEF Holds
    <2>3. CASE Holds(full, key)
      <3>1. PICK m \in DOMAIN full : full[m].id = key
        BY <2>3 DEF Holds
      <3>2. Matches(ask, full[m])
        <4>1. CASE ask.kind = "walk"
          BY <4>1 DEF Matches
        <4>2. CASE ask.kind # "walk"
          <5>1. ask.kind \in Listings /\ ~stale /\ Matches(ask, TrueRow(ask.kind, key)) /\ key \notin touched[u]
            BY <1>6, <4>2 DEF StillHit, StillAt, Hit, Scanned
          <5>2. RowTrue(full[m])
            BY <1>5, <5>1
          <5> QED BY <3>1, <5>1, <5>2, MatchesTrue
        <4> QED BY <4>1, <4>2
      <3> QED BY <1>4, <3>1, <3>2 DEF Holds
    <2> QED BY <2>1, <2>2, <2>3
  <1>8. CASE pc' = "list"
    BY <1>1, <1>7, <1>8
  <1>9. CASE pc' = "done"
    <2>1. Answered(matched', listed)
      BY <1>1, <1>9, ConsumeAnswers
    <2>2. ask.offset = 0
      BY DEF Scanned
    <2>3. CASE ask.kind = "walk" /\ ~listed.more /\ resp'.rows = matched'
      BY <1>7, <1>9, <2>3
    <2>4. CASE resp'.rows = matched' /\ (resp'.more <=> listed.more) /\ ask.kind # "walk"
      BY <1>7, <1>9, <2>4
    <2>5. CASE /\ ask.kind # "walk"
               /\ Len(matched') > ask.offset + Limit \/ ~listed.more
               /\ resp' = Page(matched', ask.offset, Limit)
      <3>1. ASSUME ~resp'.more PROVE Holds(resp'.rows, key)
        <4>1. /\ resp'.more <=> Len(matched') > ask.offset + Limit
              /\ \A j \in DOMAIN matched' : \E m \in DOMAIN resp'.rows : resp'.rows[m] = matched'[j]
          BY <1>3, <2>2, <2>5, <3>1, PageWithin
        <4>2. Holds(matched', key)
          BY <1>7, <2>5, <3>1, <4>1
        <4> QED BY <4>1, <4>2 DEF Holds
      <3> QED BY <1>9, <2>5, <3>1
    <2> QED BY <2>1, <2>3, <2>4, <2>5 DEF Answered
  <1> QED BY <1>1, <1>8, <1>9

LEMMA SeenListPage ==
    ASSUME TypesOK, SeenInv, Scanned, ListPage, TruthInv'
    PROVE  SeenInv'
  <1>0. StoresOK /\ ReaderOK /\ ControlOK /\ RowsOfTable
    BY DEF TypesOK, TypeOK
  <1> DEFINE u == TableOf(ask)
             listed == Page(table[u], at, ScanLimit(ask))
  <1>1. /\ pc = "list" /\ UNCHANGED <<stores, ask>>
        /\ \/ listed.rows = <<>> /\ Consume(<<>>, listed)
           \/ /\ rows' = NewRows(listed.rows) /\ page' = listed /\ UNCHANGED matched
              /\ pc' \in {"items", "linked"}
    BY DEF ListPage, Read, Consume
  <1>2. ask.kind \in RowKinds /\ at \in Nat
    BY <1>0 DEF Scanned, Listings, RowKinds, ReaderOK
  <1>3. PageOf(Keys(u), table[u], at, ScanLimit(ask), listed) /\ Keys(u) \subseteq AllKeys
    <2>1. AskOK(ask)
      BY <1>0 DEF ReaderOK
    <2> QED BY <1>0, <1>2, <2>1, TablesTyped, ScanLimitNat DEF PageOf
  <1>4. /\ listed.rows \in Seq(Keys(u)) /\ listed \in [rows : Seq(Keys(u)), more : BOOLEAN, next : Nat]
        /\ listed.next = at + ScanLimit(ask)
        /\ \A i \in DOMAIN table[u] : at < i /\ (listed.more => i <= at + ScanLimit(ask)) =>
                 i - at \in DOMAIN listed.rows /\ listed.rows[i - at] = table[u][i]
    BY <1>3, PageIs
  <1>5. table[u] \in Seq(Keys(u))
    BY <1>3 DEF PageOf
  <1> HIDE DEF listed
  <1>6. listed \in Listed /\ listed.rows \in Seq(AllKeys)
    BY <1>3, <1>4 DEF Listed
  <1>7. \A i \in DOMAIN table[u] : StillHit(i) /\ i <= at => Holds(matched, table[u][i])
    BY <1>1 DEF SeenInv
  <1>8. \A i \in DOMAIN table[u] : i \in Int
    BY <1>5
  <1>9. ASSUME NEW i \in DOMAIN table[u], StillHit(i), listed.more => i <= listed.next
        PROVE  Holds(matched, table[u][i]) \/ \E m \in DOMAIN listed.rows : listed.rows[m] = table[u][i]
    <2>1. CASE i <= at
      BY <1>7, <1>9, <2>1
    <2>2. CASE at < i
      BY <1>4, <1>9, <2>2
    <2> QED BY <1>2, <1>8, <2>1, <2>2
  <1>10. CASE listed.rows = <<>> /\ Consume(<<>>, listed)
    <2>1. <<>> \in Seq(Row)
      OBVIOUS
    <2>2. \A i \in DOMAIN table[u] : StillHit(i) /\ (listed.more => i <= listed.next) =>
               Holds(matched, table[u][i]) \/ Holds(<<>>, table[u][i])
      BY <1>9, <1>10
    <2> QED BY <1>6, <1>10, <2>1, <2>2, SeenConsume
  <1>11. CASE rows' = NewRows(listed.rows) /\ page' = listed /\ UNCHANGED matched /\ pc' \in {"items", "linked"}
    <2>1. \A i : StillHit(i)' => StillHit(i)
      BY <1>1, StillHitFrame
    <2>2. TableOf(ask)' = u /\ table' = table
      BY <1>1 DEF TableOf, stores
    <2>3. DOMAIN rows' = DOMAIN listed.rows /\ \A i \in DOMAIN listed.rows : rows'[i].id = listed.rows[i]
      BY <1>6, <1>11, NewRowsFacts
    <2>4. ASSUME NEW i \in DOMAIN table[u], StillHit(i), page'.more => i <= page'.next
          PROVE  Holds(matched', table[u][i]) \/ Holds(rows', table[u][i])
      BY <1>9, <1>11, <2>3, <2>4 DEF Holds
    <2>5. pc' # "list" /\ pc' # "done"
      BY <1>11
    <2> QED BY <2>1, <2>2, <2>4, <2>5 DEF SeenInv, Holds
  <1> QED BY <1>1, <1>10, <1>11

LEMMA SeenReader ==
    ASSUME TypesOK, SeenInv, Reader, TruthInv'
    PROVE  SeenInv'
  <1>0. StoresOK /\ ReaderOK /\ ControlOK /\ RowsOfTable /\ TypeOK
    BY DEF TypesOK, TypeOK
  <1>1. ASSUME NEW q \in Requests, Begin(q), Scanned' PROVE SeenInv'
    <2>1. ask' = q /\ q.keys = <<>> /\ q.offset = 0 /\ q.kind \in Listings \cup {"walk"}
      BY <1>1 DEF Begin, Scanned
    <2>2. at' = 0 /\ pc' = "list"
      BY <1>1, <2>1 DEF Begin, ScanStart, Listings
    <2>3. \A i \in DOMAIN table'[TableOf(ask)'] : ~(i <= 0)
      <3>1. table' = table /\ TableOf(ask)' \in Tables
        BY <1>1, <2>1 DEF Begin, TableOf, Listings, Tables
      <3>2. table[TableOf(ask)'] \in Seq(Keys(TableOf(ask)'))
        BY <1>0, <3>1 DEF StoresOK, IsListing
      <3> QED BY <3>1, <3>2
    <2> QED BY <2>2, <2>3 DEF SeenInv, PagePcs
  <1>2. CASE Leave
    BY <1>2 DEF Leave, NoAsk, Ask, SeenInv, Scanned, Listings
  <1>3. ASSUME UNCHANGED <<stores, ask>>, Scanned PROVE SeenInv'
    <2>1. \A i : StillHit(i)' => StillHit(i)
      BY <1>3, StillHitFrame
    <2>2. TableOf(ask)' = TableOf(ask) /\ table' = table /\ pc # "get" /\ ask.kind \notin {"datasets", "caseQueue"}
      BY <1>0, <1>3 DEF TableOf, stores, ControlOK, Scanned, Listings
    <2>3. ASSUME NEW full, NEW next, FillKind(full, next) PROVE SeenInv'
      <3>1. /\ pc \in PagePcs /\ pc' \in PagePcs /\ page' = page /\ matched' = matched
            /\ DOMAIN rows' = DOMAIN rows /\ \A i \in DOMAIN rows : rows'[i].id = rows[i].id
        BY <2>3 DEF FillKind, SameRows
      <3>2. \A x : Holds(rows, x) => Holds(rows', x)
        BY <3>1 DEF Holds
      <3>3. pc' # "list" /\ pc' # "done"
        BY <3>1 DEF PagePcs
      <3>4. ASSUME NEW i \in DOMAIN table[TableOf(ask)], StillHit(i), page.more => i <= page.next
            PROVE  Holds(matched, table[TableOf(ask)][i]) \/ Holds(rows', table[TableOf(ask)][i])
        BY <1>3, <3>1, <3>2, <3>4 DEF SeenInv
      <3> QED BY <2>1, <2>2, <3>1, <3>3, <3>4 DEF SeenInv, Holds
    <2>4. ASSUME NEW full, ConsumeKind(full) PROVE SeenInv'
      <3>1. /\ pc \in PagePcs /\ full \in Seq(Row) /\ page \in Listed /\ Consume(full, page)
            /\ DOMAIN full = DOMAIN rows /\ \A i \in DOMAIN rows : full[i].id = rows[i].id
        BY <1>0, <2>4 DEF ConsumeKind, SameRows, ReaderOK, Listed
      <3>2. \A x : Holds(rows, x) => Holds(full, x)
        BY <3>1 DEF Holds
      <3>3. \A i \in DOMAIN table[TableOf(ask)] : StillHit(i) /\ (page.more => i <= page.next) =>
               Holds(matched, table[TableOf(ask)][i]) \/ Holds(full, table[TableOf(ask)][i])
        BY <1>3, <3>1, <3>2 DEF SeenInv
      <3> QED BY <1>3, <3>1, <3>3, SeenConsume
    <2>5. CASE ListPage
      BY <1>3, <2>5, SeenListPage
    <2>6. ~(\E full, next : CandidateKind(full, next)) /\ ~ListDatasets /\ ~GetRows
          /\ ~collectEvalReportIDsByDataset /\ ~collectEvalReportIDsForDataset
      BY <2>2 DEF CandidateKind, ListDatasets, GetRows, collectEvalReportIDsByDataset, collectEvalReportIDsForDataset
    <2>7. ~collectLatestEvalRunsByDataset /\ ~ReadRunBackedCases /\ ~ListCases
      BY <1>0, <2>2 DEF ControlOK, collectLatestEvalRunsByDataset, ReadRunBackedCases, ListCases
    <2>8. \A q \in Requests : Begin(q) => SeenInv'
      BY <1>1 DEF SeenInv
    <2> QED BY <1>0, <1>2, <2>3, <2>4, <2>5, <2>6, <2>7, <2>8, ReaderKinds
  <1>4. ASSUME UNCHANGED <<stores, ask>>, ~Scanned PROVE SeenInv'
    BY <1>4 DEF SeenInv, Scanned
  <1>5. ASSUME NEW q \in Requests, Begin(q) PROVE SeenInv'
    BY <1>1, <1>5 DEF SeenInv
  <1> QED BY <1>2, <1>3, <1>4, <1>5, ReaderFrame

LEMMA SeenStep == TypesOK /\ SeenInv /\ TruthInv' /\ [Next]_vars => SeenInv'
  <1>1. ASSUME SeenInv, UNCHANGED vars PROVE SeenInv'
    <2>1. UNCHANGED <<stores, ask>> /\ UNCHANGED <<pc, at, page, rows, matched, resp>>
      BY <1>1 DEF vars
    <2>2. CASE Scanned
      <3>1. \A i : StillHit(i)' => StillHit(i)
        BY <2>1, <2>2, StillHitFrame
      <3>2. TableOf(ask)' = TableOf(ask) /\ table' = table
        BY <2>1 DEF TableOf, stores
      <3> QED BY <1>1, <2>1, <2>2, <3>1, <3>2 DEF SeenInv, Holds
    <2>3. CASE ~Scanned
      BY <2>1, <2>3 DEF SeenInv, Scanned
    <2> QED BY <2>2, <2>3
  <1> QED BY <1>1, SeenWrites, SeenReader DEF Next

(***************************************************************************)
(* Both scans for the reports of a dataset meet every report that nobody   *)
(* writes.                                                                 *)
(***************************************************************************)

StillReport(d, i) == StillAt("reports", i) /\ DatasetOf[table.reports[i]] = d

DatasetIds ==
    ask.kind = "datasets" =>
        /\ pc \in {"report", "bad", "linked", "items"} => at = 0
        /\ \A d \in Targets : \A i \in DOMAIN table.reports : StillReport(d, i) =>
              /\ pc = "ids" /\ i <= at => table.reports[i] \in Range(ids[d])
              /\ pc \in {"counts", "newest", "backed", "done"} => table.reports[i] \in Range(ids[d])

\* The scan of a case queue counts the reports of its own dataset only.
QueueIds ==
    ask.kind = "caseQueue" =>
        /\ matched = <<>>
        /\ \A i \in DOMAIN table.reports : StillReport(ask.dataset, i) =>
              /\ pc = "ids" /\ Rank(RunsOf(table.reports, ask.dataset), i) <= at =>
                    table.reports[i] \in Range(ids[ask.dataset])
              /\ pc \in {"cases", "done"} => table.reports[i] \in Range(ids[ask.dataset])

IdsInv == DatasetIds /\ QueueIds

\* A write puts no row in front of another one nearer to the front.
LEMMA RankWritten ==
    ASSUME NEW list \in Seq(Runs), NEW x \in Runs, NEW n, PlaceOf(x, n, list), NEW l \in 1..n, NEW new, new = Move(x, n, l, list),
           NEW d, NEW i \in DOMAIN new, i # l
    PROVE  Rank(RunsOf(list, d), Was(n, l, i)) <= Rank(RunsOf(new, d), i)
  <1>1. /\ n \in 1..(Len(list) + 1) /\ Len(list) \in Nat /\ DOMAIN list = 1..Len(list)
        /\ l \in Int /\ 1 <= l /\ l <= n
    BY DEF PlaceOf
  <1>2. /\ new \in Seq(Runs) /\ DOMAIN new = 1..Greatest(n, Len(list)) /\ new[l] = x
        /\ \A j \in DOMAIN new : j # l => Was(n, l, j) \in DOMAIN list /\ new[j] = list[Was(n, l, j)]
    <2>1. /\ Move(x, n, l, list) \in Seq(Runs)
          /\ DOMAIN Move(x, n, l, list) = 1..Greatest(n, Len(list))
          /\ Move(x, n, l, list)[l] = x
          /\ \A j \in DOMAIN Move(x, n, l, list) : j # l =>
                 Was(n, l, j) \in DOMAIN list /\ Move(x, n, l, list)[j] = list[Was(n, l, j)]
      <3>1. list \in Seq(Runs) /\ x \in Runs /\ n \in 1..(Len(list) + 1) /\ l \in 1..n
        BY <1>1
      <3> QED BY ONLY <3>1, MoveFacts
    <2> QED BY <2>1
  <1> DEFINE X == {m \in RunsOf(list, d) : m <= Was(n, l, i)}
             Y == {m \in RunsOf(new, d) : m <= i}
             to(m) == IF l <= m /\ m < n THEN m + 1 ELSE IF m = n THEN l ELSE m
             f == [m \in X |-> to(m)]
  <1>3. i \in Int /\ 1 <= i /\ i # l /\ i <= Greatest(n, Len(list)) /\ n \in Int
    BY <1>1, <1>2 DEF Greatest
  <1>4. \A m \in X : m \in Int /\ 1 <= m /\ m <= Len(list) /\ m <= Was(n, l, i) /\ DatasetOf[list[m]] = d
    BY <1>1 DEF RunsOf
  <1>5. ASSUME NEW m \in X PROVE to(m) \in DOMAIN new /\ to(m) <= i /\ new[to(m)] = list[m]
    <2>1. m \in Int /\ 1 <= m /\ m <= Len(list) /\ m <= Was(n, l, i)
      BY <1>4
    <2>2. CASE l <= m /\ m < n
      <3>1. to(m) = m + 1 /\ m + 1 \in DOMAIN new /\ m + 1 <= i /\ Was(n, l, m + 1) = m /\ m + 1 # l
        BY <1>1, <1>2, <1>3, <2>1, <2>2 DEF Was, Greatest
      <3> QED BY <1>2, <3>1
    <2>3. CASE m = n
      <3>1. to(m) = l /\ l \in DOMAIN new /\ l <= i
        BY <1>1, <1>2, <1>3, <2>1, <2>3 DEF Greatest, Was
      <3>2. list[m] = x
        BY <1>1, <2>1, <2>3 DEF PlaceOf
      <3> QED BY <1>2, <3>1, <3>2
    <2>4. CASE m < l \/ n < m
      <3>1. to(m) = m /\ m \in DOMAIN new /\ m <= i /\ Was(n, l, m) = m /\ m # l
        BY <1>1, <1>2, <1>3, <2>1, <2>4 DEF Was, Greatest
      <3> QED BY <1>2, <3>1
    <2> QED BY <1>1, <1>3, <2>1, <2>2, <2>3, <2>4
  <1>6. \A m \in X : to(m) \in Y
    BY <1>4, <1>5 DEF RunsOf
  <1>7. \A g, m \in X : to(g) = to(m) => g = m
    <2> SUFFICES ASSUME NEW g \in X, NEW m \in X, to(g) = to(m) PROVE g = m
      OBVIOUS
    <2>1. g \in Int /\ m \in Int /\ 1 <= g /\ 1 <= m
      BY <1>4
    <2> HIDE DEF X
    <2> QED BY <1>1, <1>3, <2>1
  <1>8. f \in Injection(X, Y)
    <2> HIDE DEF X, Y, to
    <2> QED BY <1>6, <1>7 DEF Injection, IsInjective
  <1>9. IsFiniteSet(Y)
    <2>1. Len(new) \in Nat /\ DOMAIN new = 1..Len(new)
      BY <1>2
    <2>2. Y \in SUBSET (1..Len(new))
      BY <2>1 DEF RunsOf
    <2> HIDE DEF Y
    <2> QED BY <2>1, <2>2, PositionsFinite
  <1>10. Cardinality(X) <= Cardinality(Y)
    <2> HIDE DEF X, Y, f
    <2> QED BY <1>8, <1>9, FS_Injection
  <1> QED BY <1>10 DEF Rank

\* A report that nobody wrote, before and after a write.
LEMMA ReportsMove ==
    ASSUME StoresOK, pc # "idle", NEW t, NEW key, NEW n, NEW l, RowWrite(t, key, n, l),
           NEW d, NEW i \in DOMAIN table'.reports, StillReport(d, i)'
    PROVE  \E j \in DOMAIN table.reports :
              /\ StillReport(d, j) /\ j <= i /\ table.reports[j] = table'.reports[i]
              /\ Rank(RunsOf(table.reports, d), j) <= Rank(RunsOf(table'.reports, d), i)
  <1>1. StillMoves(t, key, n, l, "reports")
    BY RowMoves DEF Tables
  <1>2. PICK j : j = Origin(t, n, l, "reports", i)
    OBVIOUS
  <1>3. table'.reports[i] \notin touched'.reports /\ DatasetOf[table'.reports[i]] = d
    BY DEF StillReport, StillAt
  <1>4. /\ j \in DOMAIN table.reports /\ j <= i /\ table.reports[j] = table'.reports[i]
        /\ table'.reports[i] \notin touched.reports
    BY <1>1, <1>2, <1>3 DEF StillMoves
  <1>5. StillReport(d, j)
    BY <1>3, <1>4 DEF StillReport, StillAt
  <1>6. Rank(RunsOf(table.reports, d), j) <= Rank(RunsOf(table'.reports, d), i)
    <2>1. table.reports \in Seq(Runs)
      BY TablesTyped
    <2>2. CASE t = "reports"
      <3>1. /\ key \in Runs /\ PlaceOf(key, n, table.reports) /\ table'.reports = Move(key, n, l, table.reports)
            /\ touched'.reports = touched.reports \cup {key} /\ l \in 1..n
        BY <2>2 DEF RowWrite, Keys, StoresOK, Tables
      <3>2. n \in 1..(Len(table.reports) + 1)
        BY <2>1, <3>1 DEF PlaceOf
      <3>3. table'.reports[l] = key
        BY <2>1, <3>1, <3>2, MoveFacts
      <3>4. i # l /\ j = Was(n, l, i)
        BY <1>2, <1>3, <2>2, <3>1, <3>3 DEF Origin
      <3> QED BY <2>1, <3>1, <3>4, RankWritten
    <2>3. CASE t # "reports"
      <3>1. table'.reports = table.reports /\ j = i
        BY <1>1, <1>2, <2>3 DEF StillMoves, Origin
      <3>2. Rank(RunsOf(table.reports, d), i) \in Nat
        <4>1. RunsOf(table.reports, d) \in SUBSET (1..Len(table.reports)) /\ Len(table.reports) \in Nat
          BY <2>1 DEF RunsOf
        <4>2. i \in RunsOf(table.reports, d)
          BY <1>3, <3>1 DEF RunsOf
        <4>3. Cardinality(RunsOf(table.reports, d)) \in Nat
          BY <4>1, PositionsFinite
        <4>4. Rank(RunsOf(table.reports, d), i) \in 1..Cardinality(RunsOf(table.reports, d))
          BY <4>1, <4>2, RankGrows
        <4> QED BY <4>3, <4>4
      <3> QED BY <3>1, <3>2
    <2> QED BY <2>2, <2>3
  <1> QED BY <1>4, <1>5, <1>6

LEMMA IdsWrites ==
    ASSUME TypesOK, IdsInv, Others
    PROVE  IdsInv'
  <1>1. UNCHANGED readerVars /\ StoresOK
    BY WritesOf
  <1>2. ask' = ask /\ pc' = pc /\ at' = at /\ matched' = matched /\ ids' = ids /\ Targets' = Targets
    BY <1>1 DEF readerVars, Targets
  <1>3. CASE CaseWrite
    <2>1. table' = table /\ touched' = touched
      BY <1>3 DEF CaseWrite
    <2> QED BY <1>2, <2>1 DEF IdsInv, DatasetIds, QueueIds, StillReport, StillAt
  <1>4. ASSUME NEW t \in Tables, NEW key \in Keys(t), NEW n \in Nat, NEW l \in Nat, RowWrite(t, key, n, l),
               ask.kind \in {"datasets", "caseQueue"}
        PROVE  IdsInv'
    <2>1. pc # "idle" /\ at \in Nat
      BY <1>4 DEF TypesOK, TypeOK, ControlOK, ReaderOK
    <2>2. table.reports \in Seq(Runs) /\ table'.reports \in Seq(Runs)
      <3>1. StoresOK'
        BY <1>1, StoresWrites
      <3> QED BY <1>1, <3>1 DEF StoresOK, IsListing, Tables, Keys
    <2>3. \A d : \A i \in DOMAIN table'.reports : StillReport(d, i)' =>
              \E j \in DOMAIN table.reports :
                  /\ StillReport(d, j) /\ j <= i /\ table.reports[j] = table'.reports[i]
                  /\ Rank(RunsOf(table.reports, d), j) <= Rank(RunsOf(table'.reports, d), i)
      BY <1>1, <1>4, <2>1, ReportsMove
    <2>4. (\A j \in DOMAIN table.reports : j \in Int) /\ (\A j \in DOMAIN table'.reports : j \in Int)
      BY <2>2
    <2>5. \A d, list, i : list \in Seq(Runs) /\ i \in DOMAIN list => Rank(RunsOf(list, d), i) \in Nat
      <3> SUFFICES ASSUME NEW d, NEW list \in Seq(Runs), NEW i \in DOMAIN list PROVE Rank(RunsOf(list, d), i) \in Nat
        OBVIOUS
      <3>1. {j \in RunsOf(list, d) : j <= i} \in SUBSET (1..Len(list)) /\ Len(list) \in Nat
        BY DEF RunsOf
      <3> QED BY <3>1, PositionsFinite DEF Rank
    <2>6. ASSUME ask.kind = "datasets", NEW d \in Targets, NEW i \in DOMAIN table'.reports, StillReport(d, i)'
          PROVE  /\ pc = "ids" /\ i <= at => table'.reports[i] \in Range(ids[d])
                 /\ pc \in {"counts", "newest", "backed", "done"} => table'.reports[i] \in Range(ids[d])
      <3>1. PICK j \in DOMAIN table.reports : StillReport(d, j) /\ j <= i /\ table.reports[j] = table'.reports[i]
        BY <2>3, <2>6
      <3>2. i <= at => j <= at
        BY <2>1, <2>4, <3>1
      <3> QED BY <2>6, <3>1, <3>2 DEF IdsInv, DatasetIds
    <2>7. ASSUME ask.kind = "caseQueue", NEW i \in DOMAIN table'.reports, StillReport(ask.dataset, i)'
          PROVE  /\ pc = "ids" /\ Rank(RunsOf(table'.reports, ask.dataset), i) <= at =>
                        table'.reports[i] \in Range(ids[ask.dataset])
                 /\ pc \in {"cases", "done"} => table'.reports[i] \in Range(ids[ask.dataset])
      <3>0. PICK d : d = ask.dataset
        OBVIOUS
      <3>1. PICK j \in DOMAIN table.reports :
                  /\ StillReport(d, j) /\ table.reports[j] = table'.reports[i]
                  /\ Rank(RunsOf(table.reports, d), j) <= Rank(RunsOf(table'.reports, d), i)
        <4>1. StillReport(d, i)'
          BY <1>2, <2>7, <3>0 DEF StillReport
        <4> QED BY <2>3, <4>1
      <3>2. Rank(RunsOf(table'.reports, d), i) <= at => Rank(RunsOf(table.reports, d), j) <= at
        BY <2>1, <2>2, <2>5, <3>1
      <3> QED BY <2>7, <3>0, <3>1, <3>2 DEF IdsInv, QueueIds
    <2>8. DatasetIds'
      BY <1>2, <2>6 DEF IdsInv, DatasetIds
    <2>9. QueueIds'
      BY <1>2, <2>7 DEF IdsInv, QueueIds, RunsOf
    <2> QED BY <2>8, <2>9 DEF IdsInv
  <1>5. ask.kind \notin {"datasets", "caseQueue"} => IdsInv'
    BY <1>2 DEF IdsInv, DatasetIds, QueueIds
  <1> QED BY <1>3, <1>4, <1>5, WritesOf

\* No element comes twice.
Distinct(list) == \A i, j \in DOMAIN list : list[i] = list[j] => i = j

\* all is old and behind it what I picks of a list.
Appended(S, old, list, I, all) ==
    old \in Seq(S) /\ list \in Seq(S) /\ I \in SUBSET DOMAIN list /\ all = old \o Picked(list, I)

LEMMA PickedDistinct ==
    ASSUME NEW S, NEW list \in Seq(S), NEW I \in SUBSET DOMAIN list, Distinct(list)
    PROVE  Distinct(Picked(list, I))
  <1>1. I \in SUBSET (1..Len(list)) /\ Len(list) \in Nat
    OBVIOUS
  <1>2. /\ DOMAIN Picked(list, I) = 1..Cardinality(I)
        /\ \A m \in 1..Cardinality(I) : Nth(I, m) \in I /\ Picked(list, I)[m] = list[Nth(I, m)]
    BY PickedFacts
  <1>3. \A m \in 1..Cardinality(I) : Rank(I, Nth(I, m)) = m
    BY <1>1, NthFacts
  <1>4. ASSUME NEW l \in 1..Cardinality(I), NEW m \in 1..Cardinality(I), Picked(list, I)[l] = Picked(list, I)[m]
        PROVE  l = m
    <2>1. Nth(I, l) = Nth(I, m)
      BY <1>2, <1>4 DEF Distinct
    <2> QED BY <1>3, <2>1
  <1> QED BY <1>2, <1>4 DEF Distinct

LEMMA AppendedFacts ==
    ASSUME NEW S, NEW old, NEW list, NEW I, NEW all, Appended(S, old, list, I, all)
    PROVE  /\ all \in Seq(S)
           /\ \A r : r \in Range(all) <=> r \in Range(old) \/ \E i \in I : r = list[i]
           /\ Distinct(old) /\ Distinct(list) /\ (\A i \in I : list[i] \notin Range(old)) => Distinct(all)
  <1>0. old \in Seq(S) /\ list \in Seq(S) /\ I \in SUBSET DOMAIN list /\ all = old \o Picked(list, I)
    BY DEF Appended
  <1>1. PICK new : new = Picked(list, I)
    OBVIOUS
  <1>2. new \in Seq(S) /\ DOMAIN new = 1..Len(new) /\ Range(new) = {list[i] : i \in I}
    BY <1>0, <1>1, PickedFacts
  <1>3. /\ all \in Seq(S) /\ Len(all) = Len(old) + Len(new)
        /\ \A i \in 1..Len(old) + Len(new) : all[i] = IF i <= Len(old) THEN old[i] ELSE new[i - Len(old)]
    BY <1>0, <1>1, <1>2, ConcatProperties
  <1>4. Len(old) \in Nat /\ Len(new) \in Nat /\ DOMAIN old = 1..Len(old) /\ DOMAIN all = 1..(Len(old) + Len(new))
    BY <1>0, <1>2, <1>3
  <1>5. /\ \A i \in DOMAIN old : i \in DOMAIN all /\ all[i] = old[i]
        /\ \A i \in DOMAIN new : Len(old) + i \in DOMAIN all /\ all[Len(old) + i] = new[i]
    <2>1. \A i \in DOMAIN new : /\ Len(old) + i \in DOMAIN all /\ ~(Len(old) + i <= Len(old))
                                /\ (Len(old) + i) - Len(old) = i
      BY <1>2, <1>4
    <2> QED BY <1>3, <1>4, <2>1
  <1>6. \A i \in DOMAIN all : \/ i \in DOMAIN old /\ all[i] = old[i]
                              \/ i - Len(old) \in DOMAIN new /\ all[i] = new[i - Len(old)]
    BY <1>2, <1>3, <1>4
  <1>7. \A r : r \in Range(all) <=> r \in Range(old) \/ r \in Range(new)
    BY <1>5, <1>6 DEF Range
  <1>8. ASSUME Distinct(old), Distinct(list), \A i \in I : list[i] \notin Range(old) PROVE Distinct(all)
    <2>1. Distinct(new) /\ \A r \in Range(new) : r \notin Range(old)
      BY <1>0, <1>1, <1>2, <1>8, PickedDistinct
    <2>2. SUFFICES ASSUME NEW i \in DOMAIN all, NEW j \in DOMAIN all, all[i] = all[j] PROVE i = j
      BY DEF Distinct
    <2>3. CASE i \in DOMAIN old /\ all[i] = old[i] /\ j \in DOMAIN old /\ all[j] = old[j]
      BY <1>8, <2>2, <2>3 DEF Distinct
    <2>4. CASE i - Len(old) \in DOMAIN new /\ all[i] = new[i - Len(old)] /\ j - Len(old) \in DOMAIN new /\ all[j] = new[j - Len(old)]
      <3>1. i - Len(old) = j - Len(old)
        BY <2>1, <2>2, <2>4 DEF Distinct
      <3>2. i \in Int /\ j \in Int
        BY <1>4
      <3> QED BY <1>4, <3>1, <3>2
    <2>5. CASE i \in DOMAIN old /\ all[i] = old[i] /\ j - Len(old) \in DOMAIN new /\ all[j] = new[j - Len(old)]
      BY <2>1, <2>2, <2>5 DEF Range
    <2>6. CASE j \in DOMAIN old /\ all[j] = old[j] /\ i - Len(old) \in DOMAIN new /\ all[i] = new[i - Len(old)]
      BY <2>1, <2>2, <2>6 DEF Range
    <2> QED BY <1>6, <2>3, <2>4, <2>5, <2>6
  <1>9. \A r : r \in Range(new) <=> \E i \in I : r = list[i]
    BY <1>2
  <1> QED BY <1>3, <1>7, <1>8, <1>9

\* One page of the scan for the reports of the datasets.
DatasetPage(listed) ==
    /\ pc = "ids" /\ ask.kind = "datasets" /\ UNCHANGED <<matched, stores, ask>>
    /\ listed.next \in Nat /\ at \in Nat
    /\ at' = (IF listed.more THEN listed.next ELSE 0) /\ pc' = (IF listed.more THEN "ids" ELSE "counts")
    /\ \A i \in DOMAIN listed.rows : at + i \in DOMAIN table.reports /\ listed.rows[i] = table.reports[at + i]
                                     /\ (listed.more => at + i <= listed.next)
    /\ \A i \in DOMAIN table.reports : i \in Nat
    /\ \A i \in DOMAIN table.reports : at < i /\ (listed.more => i <= listed.next) =>
          i - at \in DOMAIN listed.rows /\ listed.rows[i - at] = table.reports[i]
    /\ Distinct(listed.rows)
    /\ listed.next > at
    /\ \A d \in Datasets : d \in Targets => Appended(Runs, ids[d], listed.rows, RunsOf(listed.rows, d), ids'[d])
    /\ \A d \in Datasets : d \notin Targets => ids'[d] = <<>>

LEMMA DatasetPages ==
    ASSUME TypesOK, collectEvalReportIDsByDataset
    PROVE  \E listed : DatasetPage(listed)
  <1> DEFINE listed == Page(table.reports, at, BulkLimit)
  <1>1. /\ pc = "ids" /\ ask.kind = "datasets" /\ UNCHANGED <<matched, stores, ask>>
        /\ ids' = [d \in Datasets |->
                        IF d \in Targets THEN ids[d] \o Picked(listed.rows, RunsOf(listed.rows, d))
                        ELSE <<>>]
        /\ at' = (IF listed.more THEN listed.next ELSE 0)
        /\ pc' = (IF listed.more THEN "ids" ELSE "counts")
    BY DEF collectEvalReportIDsByDataset, Read
  <1>2. /\ at \in Nat /\ ids \in [Datasets -> Seq(Runs)] /\ table.reports \in Seq(Runs)
        /\ BulkLimit \in Nat \ {0} /\ Distinct(table.reports)
    <2>1. StoresOK /\ ReaderOK
      BY DEF TypesOK, TypeOK
    <2>2. IsListing("reports", table.reports)
      BY <2>1 DEF StoresOK, Tables
    <2> QED BY <2>1, <2>2, TablesTyped, ConstantsAssumption DEF ReaderOK, IsListing, Distinct
  <1>3. PageOf(Runs, table.reports, at, BulkLimit, listed)
    BY <1>2 DEF PageOf
  <1>4. /\ listed.rows \in Seq(Runs) /\ (listed.more <=> Len(table.reports) > at + BulkLimit)
        /\ listed.next = at + BulkLimit
        /\ listed.rows = SubSeq(table.reports, at + 1, Least(Len(table.reports), at + BulkLimit))
        /\ DOMAIN listed.rows = 1..Len(listed.rows) /\ Len(listed.rows) \in Nat
        /\ \A i \in DOMAIN listed.rows : at + i \in DOMAIN table.reports /\ listed.rows[i] = table.reports[at + i]
        /\ \A i \in DOMAIN table.reports : at < i /\ (listed.more => i <= at + BulkLimit) =>
                 i - at \in DOMAIN listed.rows /\ listed.rows[i - at] = table.reports[i]
    BY <1>3, PageIs
  <1> HIDE DEF listed
  <1>5. \A i \in DOMAIN listed.rows : at + i <= listed.next
    <2>1. Len(listed.rows) <= BulkLimit
      BY <1>2, <1>4 DEF Least
    <2> QED BY <1>2, <1>4, <2>1
  <1>6. Distinct(listed.rows)
    <2> SUFFICES ASSUME NEW i \in DOMAIN listed.rows, NEW j \in DOMAIN listed.rows, listed.rows[i] = listed.rows[j]
                 PROVE  i = j
      BY DEF Distinct
    <2>1. at + i = at + j
      BY <1>2, <1>4 DEF Distinct
    <2> QED BY <1>2, <1>4, <2>1
  <1>7. ASSUME NEW d \in Datasets, d \in Targets PROVE Appended(Runs, ids[d], listed.rows, RunsOf(listed.rows, d), ids'[d])
    <2>1. ids'[d] = ids[d] \o Picked(listed.rows, RunsOf(listed.rows, d))
      BY <1>1, <1>7
    <2> QED BY <1>2, <1>4, <2>1 DEF Appended, RunsOf
  <1>8. \A d \in Datasets : d \notin Targets => ids'[d] = <<>>
    BY <1>1
  <1>9. listed.next \in Nat /\ listed.next > at /\ \A i \in DOMAIN table.reports : i \in Nat
    BY <1>2, <1>4
  <1>10. DatasetPage(listed)
    BY <1>1, <1>2, <1>4, <1>5, <1>6, <1>7, <1>8, <1>9 DEF DatasetPage
  <1> QED BY <1>10

\* The last query of the dataset board.
LEMMA BackedRows ==
    ASSUME TypesOK, ReadRunBackedCases
    PROVE  /\ DOMAIN matched' = DOMAIN matched
           /\ \A i \in DOMAIN matched :
                /\ matched'[i].id = matched[i].id /\ matched'[i].linked = matched[i].linked
                /\ matched'[i].queue = matched[i].queue /\ matched'[i].latest = matched[i].latest
                /\ matched'[i].hasReport <=> matched[i].hasReport
                /\ matched'[i].backed = IF matched[i].latest = "none" THEN NoSummary
                                        ELSE SummarizeBySourceEvalRunIDs(cases, matched[i].latest)
  <1> DEFINE s(i) == IF matched[i].latest = "none" THEN NoSummary
                     ELSE SummarizeBySourceEvalRunIDs(cases, matched[i].latest)
  <1>1. matched' = [i \in DOMAIN matched |-> [matched[i] EXCEPT !.backed = s(i)]]
    BY DEF ReadRunBackedCases
  <1>2. \A i \in DOMAIN matched : matched[i] \in Row
    BY DEF TypesOK, TypeOK, ReaderOK
  <1> HIDE DEF s
  <1>3. ASSUME NEW i \in DOMAIN matched
        PROVE  /\ matched'[i].id = matched[i].id /\ matched'[i].linked = matched[i].linked
               /\ matched'[i].queue = matched[i].queue /\ matched'[i].latest = matched[i].latest
               /\ matched'[i].hasReport <=> matched[i].hasReport
               /\ matched'[i].backed = s(i)
    <2>1. PICK x : x = s(i)
      OBVIOUS
    <2>2. matched'[i] = [matched[i] EXCEPT !.backed = x] /\ matched[i] \in Row
      BY <1>1, <1>2, <2>1
    <2> QED BY <2>1, <2>2 DEF Row
  <1> QED BY <1>1, <1>3 DEF s

\* One page of the scan for the reports of a case queue.
QueuePage(d, listed) ==
    /\ pc = "ids" /\ ask.kind = "caseQueue" /\ d = ask.dataset /\ d \in Datasets
    /\ UNCHANGED <<matched, stores, ask>>
    /\ at \in Nat /\ listed.next \in Nat
    /\ pc' \in {"ids", "cases", "done"}
    /\ pc' = "ids" => listed.more /\ at' = listed.next
    /\ pc' # "ids" => ~listed.more
    /\ \A i \in DOMAIN listed.rows : listed.rows[i] \in Range(table.reports) /\ DatasetOf[listed.rows[i]] = d
    /\ \A i \in RunsOf(table.reports, d) :
          /\ Rank(RunsOf(table.reports, d), i) \in Nat
          /\ at < Rank(RunsOf(table.reports, d), i)
             /\ (listed.more => Rank(RunsOf(table.reports, d), i) <= listed.next) =>
                \E m \in DOMAIN listed.rows : listed.rows[m] = table.reports[i]
    /\ Distinct(listed.rows)
    /\ Appended(Runs, ids[d], listed.rows, {i \in DOMAIN listed.rows : listed.rows[i] \notin Range(ids[d])}, ids'[d])
    /\ \A e \in Datasets : e # d => ids'[e] = ids[e]

LEMMA QueuePages ==
    ASSUME TypesOK, collectEvalReportIDsForDataset
    PROVE  \E d, listed : QueuePage(d, listed)
  <1>0. PICK d : d = ask.dataset
    OBVIOUS
  <1>r. PICK R : R = RunsOf(table.reports, d)
    OBVIOUS
  <1>m. PICK mine : mine = Picked(table.reports, R)
    OBVIOUS
  <1>l. PICK listed : listed = Page(mine, at, BulkLimit)
    OBVIOUS
  <1> DEFINE old == ids[d]
             new == old \o Picked(listed.rows, {i \in DOMAIN listed.rows : listed.rows[i] \notin Range(old)})
  <1>1. /\ pc = "ids" /\ ask.kind = "caseQueue" /\ UNCHANGED <<matched, stores, ask>>
        /\ ids' = [ids EXCEPT ![d] = new]
        /\ at' = (IF listed.more THEN listed.next ELSE at)
        /\ pc' = (IF listed.more THEN "ids" ELSE IF new # <<>> THEN "cases" ELSE "done")
    BY <1>0, <1>r, <1>m, <1>l DEF collectEvalReportIDsForDataset, Read
  <1>2. /\ at \in Nat /\ ids \in [Datasets -> Seq(Runs)] /\ table.reports \in Seq(Runs)
        /\ BulkLimit \in Nat \ {0} /\ Distinct(table.reports) /\ d \in Datasets
    <2>1. StoresOK /\ ReaderOK /\ AskOK(ask)
      BY DEF TypesOK, TypeOK, ReaderOK
    <2>2. IsListing("reports", table.reports)
      BY <2>1 DEF StoresOK, Tables
    <2>3. d \in Datasets
      BY <1>0, <1>1, <2>1 DEF AskOK
    <2> QED BY <2>1, <2>2, <2>3, TablesTyped, ConstantsAssumption DEF ReaderOK, IsListing, Distinct
  <1>3. R \in SUBSET DOMAIN table.reports /\ R \in SUBSET (1..Len(table.reports)) /\ Len(table.reports) \in Nat
    BY <1>2, <1>r DEF RunsOf
  <1>4. /\ mine \in Seq(Runs) /\ DOMAIN mine = 1..Cardinality(R) /\ Cardinality(R) \in Nat
        /\ Range(mine) = {table.reports[i] : i \in R}
        /\ \A m \in 1..Cardinality(R) : mine[m] = table.reports[Nth(R, m)]
    BY <1>2, <1>3, <1>m, PickedFacts
  <1>5. Distinct(mine)
    BY <1>2, <1>3, <1>m, PickedDistinct
  <1>6. \A i \in R : Rank(R, i) \in 1..Cardinality(R) /\ Nth(R, Rank(R, i)) = i
    BY <1>3, NthFacts
  <1>7. PageOf(Runs, mine, at, BulkLimit, listed)
    BY <1>2, <1>4, <1>l DEF PageOf
  <1>8. /\ listed.rows \in Seq(Runs) /\ listed.more \in BOOLEAN
        /\ listed.next = at + BulkLimit
        /\ \A i \in DOMAIN listed.rows : at + i \in DOMAIN mine /\ listed.rows[i] = mine[at + i]
        /\ \A i \in DOMAIN mine : at < i /\ (listed.more => i <= at + BulkLimit) =>
                 i - at \in DOMAIN listed.rows /\ listed.rows[i - at] = mine[i]
    BY <1>7, PageIs
  <1>9. \A i \in DOMAIN listed.rows : i \in Nat
    BY <1>8
  <1>10. Distinct(listed.rows)
    <2> SUFFICES ASSUME NEW i \in DOMAIN listed.rows, NEW j \in DOMAIN listed.rows, listed.rows[i] = listed.rows[j]
                 PROVE  i = j
      BY DEF Distinct
    <2>1. at + i = at + j
      BY <1>5, <1>8 DEF Distinct
    <2> QED BY <1>2, <1>9, <2>1
  <1>11. \A i \in DOMAIN listed.rows : listed.rows[i] \in Range(table.reports) /\ DatasetOf[listed.rows[i]] = d
    <2> SUFFICES ASSUME NEW i \in DOMAIN listed.rows
                 PROVE  listed.rows[i] \in Range(table.reports) /\ DatasetOf[listed.rows[i]] = d
      OBVIOUS
    <2>1. listed.rows[i] \in Range(mine)
      BY <1>8 DEF Range
    <2>2. PICK j \in R : listed.rows[i] = table.reports[j]
      BY <1>4, <2>1
    <2>3. j \in DOMAIN table.reports /\ DatasetOf[table.reports[j]] = d
      BY <1>r DEF RunsOf
    <2> QED BY <2>2, <2>3 DEF Range
  <1>12. ASSUME NEW i \in R
         PROVE  /\ Rank(R, i) \in Nat
                /\ at < Rank(R, i) /\ (listed.more => Rank(R, i) <= listed.next) =>
                      \E m \in DOMAIN listed.rows : listed.rows[m] = table.reports[i]
    <2>1. PICK n \in 1..Cardinality(R) : n = Rank(R, i) /\ mine[n] = table.reports[i]
      BY <1>4, <1>6
    <2>2. n \in Nat
      BY <1>4
    <2> QED BY <1>4, <1>8, <2>1, <2>2
  <1>13. Appended(Runs, ids[d], listed.rows, {i \in DOMAIN listed.rows : listed.rows[i] \notin Range(ids[d])}, ids'[d])
    <2>1. ids'[d] = new
      BY <1>1, <1>2
    <2> QED BY <1>2, <1>8, <2>1 DEF Appended
  <1>14. \A e \in Datasets : e # d => ids'[e] = ids[e]
    BY <1>1, <1>2
  <1>15. /\ pc' \in {"ids", "cases", "done"} /\ (pc' = "ids" => listed.more /\ at' = listed.next) /\ (pc' # "ids" => ~listed.more)
    <2> HIDE DEF new
    <2> QED BY <1>1, <1>8
  <1>16. listed.next \in Nat
    BY <1>2, <1>8
  <1> HIDE DEF new
  <1>17. QueuePage(d, listed)
    BY <1>0, <1>1, <1>2, <1>r, <1>10, <1>11, <1>12, <1>13, <1>14, <1>15, <1>16 DEF QueuePage
  <1> QED BY <1>17

\* The steps of the reader of a case queue.
LEMMA QueueActions ==
    ASSUME TypesOK, Reader, ask.kind = "caseQueue"
    PROVE  \/ (\E q \in Requests : Begin(q)) \/ Leave \/ ListCases
           \/ collectEvalReportIDsForDataset
  <1>0. ReaderOK /\ ControlOK /\ RowsOfTable /\ TypeOK
    BY DEF TypesOK, TypeOK
  <1>1. ~(\E full, next : FillKind(full, next)) /\ ~(\E full : ConsumeKind(full)) /\ ~(\E full, next : CandidateKind(full, next))
    BY DEF FillKind, ConsumeKind, CandidateKind, RowKinds
  <1>2. ~ListPage /\ ~GetRows /\ ~ListDatasets /\ ~collectLatestEvalRunsByDataset /\ ~collectEvalReportIDsByDataset
        /\ ~ReadRunBackedCases
    <2>1. pc \notin {"list", "latest", "backed", "get"}
      BY <1>0 DEF ControlOK, ReaderOK, AskOK
    <2> QED BY <2>1 DEF ListPage, GetRows, ListDatasets, collectLatestEvalRunsByDataset,
                        collectEvalReportIDsByDataset, ReadRunBackedCases
  <1> QED BY <1>0, <1>1, <1>2, ReaderKinds

LEMMA QueueSteps ==
    ASSUME TypesOK, Reader, ask.kind = "caseQueue"
    PROVE  \/ (\E q \in Requests : Begin(q)) \/ Leave \/ ListCases
           \/ \E d, listed : QueuePage(d, listed)
  BY QueueActions, QueuePages

LEMMA IdsReader ==
    ASSUME TypesOK, NewestInv, IdsInv, Reader
    PROVE  IdsInv'
  <1>0. StoresOK /\ ReaderOK /\ ControlOK /\ RowsOfTable /\ TypeOK
    BY DEF TypesOK, TypeOK
  <1>z. table.reports \in Seq(Runs) /\ \A i \in DOMAIN table.reports : i \in Nat /\ ~(i <= 0)
    <2>1. table.reports \in Seq(Runs)
      BY <1>0, TablesTyped
    <2> QED BY <2>1
  <1>1. ASSUME NEW q \in Requests, Begin(q) PROVE IdsInv'
    <2>1. /\ ask' = q /\ AskOK(q) /\ table' = table /\ matched' = <<>>
          /\ pc' = IF q.keys # <<>> THEN "get" ELSE IF q.kind = "caseQueue" THEN "ids" ELSE "list"
          /\ at' = ScanStart(q)
      BY <1>1, RequestsOK DEF Begin, Cleared
    <2>2. Targets' = {}
      BY <2>1 DEF Targets
    <2>3. DatasetIds'
      BY <2>1, <2>2 DEF DatasetIds
    <2>4. CASE q.kind = "caseQueue"
      <3>1. pc' = "ids" /\ at' = 0
        BY <2>1, <2>4 DEF ScanStart, AskOK
      <3>2. ASSUME NEW i \in DOMAIN table.reports, DatasetOf[table.reports[i]] = q.dataset
            PROVE  ~(Rank(RunsOf(table.reports, q.dataset), i) <= 0)
        <4>1. PICK R : R = RunsOf(table.reports, q.dataset)
          OBVIOUS
        <4>2. R \in SUBSET (1..Len(table.reports)) /\ Len(table.reports) \in Nat /\ i \in R
          BY <1>z, <3>2, <4>1 DEF RunsOf
        <4>3. Rank(R, i) \in 1..Cardinality(R) /\ Cardinality(R) \in Nat
          BY <4>2, RankGrows, PositionsFinite
        <4> QED BY <4>1, <4>3
      <3>3. QueueIds'
        BY <2>1, <2>4, <3>1, <3>2 DEF QueueIds, StillReport, RunsOf
      <3> QED BY <2>3, <3>3 DEF IdsInv
    <2>5. CASE q.kind # "caseQueue"
      BY <2>1, <2>3, <2>5 DEF IdsInv, QueueIds
    <2> QED BY <2>4, <2>5
  <1>2. CASE Leave
    BY <1>2 DEF Leave, NoAsk, Ask, IdsInv, DatasetIds, QueueIds
  <1>u. ASSUME UNCHANGED stores
        PROVE  (\A d, i : StillReport(d, i)' <=> StillReport(d, i)) /\ table' = table
    BY <1>u DEF StillReport, StillAt, stores
  <1>3. CASE ask.kind = "datasets" /\ (GetRows \/ ListDatasets \/ collectLatestEvalRunsByDataset)
    <2>1. /\ ask' = ask /\ (pc' = "done" => Targets' = {})
          /\ pc' \in {"done", "list", "latest", "report"} /\ (pc' = "report" => at' = 0)
      <3>1. CASE GetRows
        <4>1. pc = "get" /\ ask' = ask /\ (pc' = "latest" \/ (pc' = "done" /\ matched' = matched))
          BY <1>3, <3>1 DEF GetRows, Read, Respond
        <4>2. matched = <<>>
          BY <1>3, <4>1 DEF NewestInv
        <4> QED BY <4>1, <4>2 DEF Targets
      <3>2. CASE ListDatasets
        <4>1. ask' = ask /\ pc' \in {"list", "latest", "done"} /\ (pc' = "done" => matched' = <<>>)
          BY <3>2 DEF ListDatasets, Read, NextPage
        <4> QED BY <4>1 DEF Targets
      <3>3. CASE collectLatestEvalRunsByDataset
        BY <3>3 DEF collectLatestEvalRunsByDataset, Read
      <3> QED BY <1>3, <3>1, <3>2, <3>3
    <2> QED BY <1>3, <2>1 DEF IdsInv, DatasetIds, QueueIds
  <1>4. ASSUME NEW full, NEW next, CandidateKind(full, next) PROVE IdsInv'
    <2>1. /\ ask.kind = "datasets" /\ ask' = ask /\ UNCHANGED stores /\ ids' = ids /\ at' = at
          /\ matched' = full /\ DOMAIN full = DOMAIN matched
          /\ \A i \in DOMAIN matched : full[i].id = matched[i].id
      BY <1>4 DEF CandidateKind, SameRows
    <2>2. Targets' = Targets
      BY <2>1 DEF Targets
    <2>3. /\ pc' \in {"bad", "linked", "items", "ids", "newest", "backed"}
          /\ pc' \in {"bad", "linked", "items", "ids"} => pc \in {"report", "bad", "linked", "items"}
          /\ pc' \in {"newest", "backed"} => pc \in {"counts", "newest"}
      BY <1>4 DEF CandidateKind
    <2>4. pc' \in {"bad", "linked", "items", "ids"} => at = 0
      BY <2>1, <2>3 DEF IdsInv, DatasetIds
    <2>5. \A d \in Targets : \A i \in DOMAIN table.reports : StillReport(d, i) /\ pc' \in {"newest", "backed"} =>
              table.reports[i] \in Range(ids[d])
      BY <2>1, <2>3 DEF IdsInv, DatasetIds
    <2>6. DatasetIds'
      BY <1>u, <1>z, <2>1, <2>2, <2>3, <2>4, <2>5 DEF DatasetIds
    <2> QED BY <2>1, <2>6 DEF IdsInv, QueueIds
  <1>5. ASSUME NEW listed, DatasetPage(listed) PROVE IdsInv'
    <2>1. ask' = ask /\ matched' = matched /\ Targets' = Targets /\ UNCHANGED stores /\ ask.kind = "datasets"
      BY <1>5 DEF DatasetPage, Targets
    <2>2. ASSUME NEW d \in Targets, NEW i \in DOMAIN table.reports, StillReport(d, i), listed.more => i <= listed.next
          PROVE  table.reports[i] \in Range(ids'[d])
      <3>1. d \in Datasets
        BY <1>0, <2>1 DEF RowsOfTable, Targets
      <3>2. Appended(Runs, ids[d], listed.rows, RunsOf(listed.rows, d), ids'[d])
        BY <1>5, <3>1 DEF DatasetPage
      <3>3. \A r : r \in Range(ids'[d]) <=> r \in Range(ids[d]) \/ \E m \in RunsOf(listed.rows, d) : r = listed.rows[m]
        BY <3>2, AppendedFacts
      <3>4. CASE i <= at
        <4>1. table.reports[i] \in Range(ids[d])
          BY <1>5, <2>1, <2>2, <3>4 DEF IdsInv, DatasetIds, DatasetPage
        <4> QED BY <3>3, <4>1
      <3>5. CASE at < i
        <4>1. i - at \in DOMAIN listed.rows /\ listed.rows[i - at] = table.reports[i]
          BY <1>5, <2>2, <3>5 DEF DatasetPage
        <4>2. i - at \in RunsOf(listed.rows, d)
          BY <2>2, <4>1 DEF RunsOf, StillReport
        <4> QED BY <3>3, <4>1, <4>2
      <3> QED BY <1>5, <3>4, <3>5 DEF DatasetPage
    <2>3. pc' \in {"ids", "counts"} /\ (pc' = "ids" => listed.more /\ at' = listed.next) /\ (pc' = "counts" => ~listed.more)
      BY <1>5 DEF DatasetPage
    <2>4. DatasetIds'
      BY <1>u, <2>1, <2>2, <2>3 DEF DatasetIds
    <2> QED BY <2>1, <2>4 DEF IdsInv, QueueIds
  <1>6. CASE ask.kind = "datasets" /\ ReadRunBackedCases
    <2>1. pc = "backed" /\ pc' = "done" /\ ask' = ask /\ UNCHANGED stores /\ ids' = ids
      BY <1>6 DEF ReadRunBackedCases, Read, Respond
    <2>2. Targets' = Targets
      BY <1>0, <1>6, BackedRows DEF Targets, SameRows
    <2> QED BY <1>6, <1>u, <2>1, <2>2 DEF IdsInv, DatasetIds, QueueIds
  <1>7. ASSUME NEW d, NEW listed, QueuePage(d, listed) PROVE IdsInv'
    <2>1. ask' = ask /\ ask.kind = "caseQueue" /\ UNCHANGED stores /\ d = ask.dataset
      BY <1>7 DEF QueuePage
    <2>2. \A r : r \in Range(ids'[d]) <=>
              r \in Range(ids[d]) \/ \E m \in {i \in DOMAIN listed.rows : listed.rows[i] \notin Range(ids[d])} : r = listed.rows[m]
      <3>1. Appended(Runs, ids[d], listed.rows, {i \in DOMAIN listed.rows : listed.rows[i] \notin Range(ids[d])}, ids'[d])
        BY <1>7 DEF QueuePage
      <3> QED BY <3>1, AppendedFacts
    <2>3. (\A r \in Range(ids[d]) : r \in Range(ids'[d])) /\ \A m \in DOMAIN listed.rows : listed.rows[m] \in Range(ids'[d])
      BY <2>2
    <2>4. ASSUME NEW i \in DOMAIN table.reports, StillReport(d, i),
                 listed.more => Rank(RunsOf(table.reports, d), i) <= listed.next
          PROVE  table.reports[i] \in Range(ids'[d])
      <3>1. i \in RunsOf(table.reports, d)
        BY <2>4 DEF RunsOf, StillReport
      <3>2. PICK n \in Nat : n = Rank(RunsOf(table.reports, d), i)
        BY <1>7, <3>1 DEF QueuePage
      <3>3. CASE n <= at
        <4>1. table.reports[i] \in Range(ids[d])
          BY <1>7, <2>1, <2>4, <3>2, <3>3 DEF IdsInv, QueueIds, QueuePage
        <4> QED BY <2>3, <4>1
      <3>4. CASE at < n
        <4>1. PICK m \in DOMAIN listed.rows : listed.rows[m] = table.reports[i]
          BY <1>7, <2>4, <3>1, <3>2, <3>4 DEF QueuePage
        <4> QED BY <2>3, <4>1
      <3>5. at \in Nat
        BY <1>7 DEF QueuePage
      <3> QED BY <3>2, <3>3, <3>4, <3>5
    <2>5. (pc' = "ids" => listed.more /\ at' = listed.next) /\ (pc' # "ids" => ~listed.more)
      BY <1>7 DEF QueuePage
    <2>6. QueueIds'
      <3>1. matched' = <<>>
        BY <1>7, <2>1 DEF IdsInv, QueueIds, QueuePage
      <3> QED BY <1>u, <2>1, <2>4, <2>5, <3>1 DEF QueueIds, RunsOf
    <2> QED BY <2>1, <2>6 DEF IdsInv, DatasetIds
  <1>8. CASE ask.kind = "caseQueue" /\ ListCases
    <2>1. pc = "cases" /\ pc' = "done" /\ ask' = ask /\ UNCHANGED stores /\ UNCHANGED <<ids, matched>>
      BY <1>8 DEF ListCases, Read, Respond
    <2> QED BY <1>8, <1>u, <2>1 DEF IdsInv, DatasetIds, QueueIds
  <1>9. CASE ask.kind = "datasets"
    BY <1>2, <1>3, <1>4, <1>5, <1>6, <1>9, DatasetSteps, DatasetPages
  <1>10. CASE ask.kind = "caseQueue"
    BY <1>1, <1>2, <1>7, <1>8, <1>10, QueueSteps
  <1>11. CASE ask.kind \notin {"datasets", "caseQueue"} /\ ask' = ask
    BY <1>11 DEF IdsInv, DatasetIds, QueueIds
  <1> QED BY <1>1, <1>2, <1>9, <1>10, <1>11, ReaderFrame

LEMMA IdsStep == TypesOK /\ NewestInv /\ IdsInv /\ [Next]_vars => IdsInv'
  <1>1. ASSUME IdsInv, UNCHANGED vars PROVE IdsInv'
    BY <1>1 DEF vars, stores, IdsInv, DatasetIds, QueueIds, StillReport, StillAt, Targets, RunsOf
  <1> QED BY <1>1, IdsWrites, IdsReader DEF Next

\* A row that nobody wrote is never skipped, however many rows move forward
\* between the pages of a reader: a client that follows next_offset to the end
\* has seen it, a complete filtered listing holds it if it matches, and both
\* scans for a dataset have its report.
THEOREM UntouchedSeen == Spec => []UntouchedRowsAreSeen
  <1> DEFINE Inv == TypesOK /\ NewestInv /\ TruthInv /\ SeenInv /\ IdsInv
  <1>1. Init => Inv
    <2>1. Init => NewestInv /\ SeenInv /\ IdsInv
      BY DEF Init, NoAsk, Ask, NewestInv, SeenInv, Scanned, Listings, IdsInv, DatasetIds, QueueIds
    <2> QED BY <2>1, TypesInit, TruthInit
  <1>2. Inv /\ [Next]_vars => Inv'
    BY TypesStep, NewestStep, TruthStep, SeenStep, IdsStep
  <1>3. Inv => UntouchedRowsAreSeen
    <2> SUFFICES ASSUME Inv PROVE UntouchedRowsAreSeen
      OBVIOUS
    <2>0. StoresOK /\ AskOK(ask)
      BY DEF TypesOK, TypeOK, ReaderOK
    <2>1. ASSUME pc = "done", Scanned, NEW key \in Untouched(TableOf(ask)), Hit(key), ask.kind = "walk" \/ ~resp.more
          PROVE  key \in Seen
      <3>1. PICK i \in DOMAIN table[TableOf(ask)] : table[TableOf(ask)][i] = key
        BY <2>1 DEF Untouched, Range
      <3>2. StillHit(i)
        BY <2>1, <3>1 DEF StillHit, StillAt, Untouched
      <3>3. Holds(resp.rows, key)
        BY <2>1, <3>1, <3>2 DEF SeenInv
      <3> QED BY <3>3 DEF Holds, Seen
    <2>2. Done({"walk"}) => Untouched("reports") \subseteq Seen
      <3> SUFFICES ASSUME pc = "done", ask.kind = "walk", NEW key \in Untouched("reports") PROVE key \in Seen
        BY DEF Done
      <3>1. TableOf(ask) = "reports" /\ Scanned /\ Hit(key)
        BY <2>0 DEF TableOf, Scanned, AskOK, Hit
      <3> QED BY <2>1, <3>1
    <2>3. ASSUME Done(Listings), ~stale, ~resp.more, ask.offset = 0, ask.keys = <<>>,
                 NEW key \in Untouched(ask.kind), Matches(ask, TrueRow(ask.kind, key))
          PROVE  key \in Seen
      <3>1. TableOf(ask) = ask.kind /\ Scanned /\ Hit(key) /\ pc = "done"
        BY <2>3 DEF TableOf, Scanned, Hit, Done, Listings
      <3> QED BY <2>1, <2>3, <3>1
    <2>4. ASSUME Done({"datasets", "caseQueue"}), NEW r \in Untouched("reports"), DatasetOf[r] \in Targets \cup {ask.dataset}
          PROVE  r \in Range(ids[DatasetOf[r]])
      <3>0. pc = "done" /\ ask.kind \in {"datasets", "caseQueue"}
        BY <2>4 DEF Done
      <3>1. PICK i \in DOMAIN table.reports : table.reports[i] = r
        BY <2>4 DEF Untouched, Range
      <3>2. StillReport(DatasetOf[r], i)
        BY <2>4, <3>1 DEF StillReport, StillAt, Untouched
      <3>3. CASE ask.kind = "datasets"
        <4>1. r \in Runs
          BY <2>0, <3>1, TablesTyped
        <4>2. DatasetOf[r] \in Datasets /\ "none" \notin Datasets
          BY <4>1, ConstantsAssumption
        <4>3. ask.dataset = "none"
          BY <2>0, <3>3 DEF AskOK
        <4>4. DatasetOf[r] \in Targets
          BY <2>4, <4>2, <4>3
        <4> QED BY <3>0, <3>1, <3>2, <3>3, <4>4 DEF IdsInv, DatasetIds
      <3>4. CASE ask.kind = "caseQueue"
        <4>1. Targets = {}
          BY <3>4 DEF IdsInv, QueueIds, Targets
        <4>2. DatasetOf[r] = ask.dataset
          BY <2>4, <4>1
        <4> QED BY <3>0, <3>1, <3>2, <3>4, <4>2 DEF IdsInv, QueueIds
      <3> QED BY <3>0, <3>3, <3>4
    <2> QED BY <2>2, <2>3, <2>4 DEF UntouchedRowsAreSeen
  <1> QED BY <1>1, <1>2, <1>3, PTL DEF Spec

(***************************************************************************)
(* What the lists of reports of a dataset hold.                            *)
(***************************************************************************)

BeforeIds == {"list", "get", "latest", "report", "bad", "linked", "items"}

\* Reports of the dataset only; each once, if no report moved during the scan or
\* if the scan looks.
ListedIds ==
    ask.kind \in {"datasets", "caseQueue"} =>
        /\ \A d \in Datasets : \A r \in Range(ids[d]) : r \in Range(table.reports) /\ DatasetOf[r] = d
        /\ ask.kind = "caseQueue" => Distinct(ids[ask.dataset])
        /\ ask.kind = "datasets" /\ touched.reports = {} => \A d \in Datasets :
              /\ Distinct(ids[d])
              /\ pc = "ids" => \A i \in DOMAIN table.reports : at < i => table.reports[i] \notin Range(ids[d])
        /\ ask.kind = "datasets" /\ pc \in BeforeIds => \A d \in Datasets : ids[d] = <<>>

LEMMA EmptyList == Distinct(<<>>) /\ Range(<<>>) = {}
  BY DEF Distinct, Range

LEMMA ListedIdsWrites ==
    ASSUME TypesOK, ListedIds, Others
    PROVE  ListedIds'
  <1>1. UNCHANGED readerVars /\ StoresOK
    BY WritesOf
  <1>2. ask' = ask /\ pc' = pc /\ at' = at /\ ids' = ids
    BY <1>1 DEF readerVars
  <1>3. CASE CaseWrite
    <2>1. table' = table /\ touched' = touched
      BY <1>3 DEF CaseWrite
    <2> QED BY <1>2, <2>1 DEF ListedIds
  <1>4. ASSUME NEW t \in Tables, NEW key \in Keys(t), NEW n \in Nat, NEW l \in Nat, RowWrite(t, key, n, l),
               ask.kind \in {"datasets", "caseQueue"}
        PROVE  ListedIds'
    <2>1. StillMoves(t, key, n, l, "reports")
      BY <1>1, <1>4, RowMoves DEF Tables, TypesOK, TypeOK, ControlOK
    <2>2. /\ \A r \in Range(table.reports) : r \in Range(table'.reports)
          /\ touched'.reports = {} => touched.reports = {} /\ table'.reports = table.reports
      BY <2>1 DEF StillMoves
    <2> QED BY <1>2, <1>4, <2>2 DEF ListedIds
  <1>5. ask.kind \notin {"datasets", "caseQueue"} => ListedIds'
    BY <1>2 DEF ListedIds
  <1> QED BY <1>3, <1>4, <1>5, WritesOf

LEMMA ListedIdsReader ==
    ASSUME TypesOK, ListedIds, Reader
    PROVE  ListedIds'
  <1>0. StoresOK /\ ReaderOK /\ ControlOK /\ RowsOfTable /\ TypeOK
    BY DEF TypesOK, TypeOK
  <1>1. ASSUME NEW q \in Requests, Begin(q) PROVE ListedIds'
    <2>1. \A d \in Datasets : ids'[d] = <<>>
      BY <1>1 DEF Begin, Cleared
    <2>2. ask' = q /\ AskOK(q)
      BY <1>1, RequestsOK DEF Begin
    <2>3. q.kind = "caseQueue" => ask'.dataset \in Datasets
      BY <2>2 DEF AskOK
    <2> QED BY <2>1, <2>2, <2>3, EmptyList DEF ListedIds
  <1>2. CASE Leave
    BY <1>2 DEF Leave, NoAsk, Ask, ListedIds
  <1>3. CASE ask.kind = "datasets" /\ (GetRows \/ ListDatasets \/ collectLatestEvalRunsByDataset)
    <2>1. pc \in BeforeIds /\ pc' # "ids" /\ ids' = ids /\ UNCHANGED <<stores, ask>>
      BY <1>3 DEF GetRows, ListDatasets, collectLatestEvalRunsByDataset, Read, Respond, NextPage, BeforeIds
    <2> QED BY <1>3, <2>1 DEF ListedIds, stores
  <1>4. ASSUME NEW full, NEW next, CandidateKind(full, next) PROVE ListedIds'
    <2>1. ask.kind = "datasets" /\ ask' = ask /\ table' = table /\ touched' = touched /\ ids' = ids
      BY <1>4 DEF CandidateKind, stores
    <2>2. (pc' \in BeforeIds \cup {"ids"} => pc \in BeforeIds)
      BY <1>4 DEF CandidateKind, BeforeIds
    <2>3. pc' \in BeforeIds \cup {"ids"} => \A d \in Datasets : ids[d] = <<>>
      BY <2>1, <2>2 DEF ListedIds
    <2> QED BY <2>1, <2>3, EmptyList DEF ListedIds
  <1>5. ASSUME NEW listed, DatasetPage(listed) PROVE ListedIds'
    <2>1. /\ ask' = ask /\ table' = table /\ touched' = touched /\ ask.kind = "datasets"
          /\ pc = "ids" /\ pc' \in {"ids", "counts"} /\ (pc' = "ids" => listed.more /\ at' = listed.next)
          /\ at \in Nat /\ listed.next \in Nat /\ listed.next > at
          /\ \A i \in DOMAIN table.reports : i \in Nat
          /\ \A i \in DOMAIN listed.rows : at + i \in DOMAIN table.reports /\ listed.rows[i] = table.reports[at + i]
          /\ Distinct(listed.rows)
      BY <1>5 DEF DatasetPage, stores
    <2>2. Distinct(table.reports)
      BY <1>0 DEF StoresOK, Tables, IsListing, Distinct
    <2>3. ASSUME NEW d \in Datasets, d \in Targets
          PROVE  /\ \A r \in Range(ids'[d]) : r \in Range(table.reports) /\ DatasetOf[r] = d
                 /\ touched.reports = {} =>
                       /\ Distinct(ids'[d])
                       /\ pc' = "ids" => \A i \in DOMAIN table.reports : listed.next < i => table.reports[i] \notin Range(ids'[d])
      <3>1. Appended(Runs, ids[d], listed.rows, RunsOf(listed.rows, d), ids'[d])
        BY <1>5, <2>3 DEF DatasetPage
      <3>2. /\ \A r : r \in Range(ids'[d]) <=> r \in Range(ids[d]) \/ \E i \in RunsOf(listed.rows, d) : r = listed.rows[i]
            /\ Distinct(ids[d]) /\ Distinct(listed.rows) /\ (\A i \in RunsOf(listed.rows, d) : listed.rows[i] \notin Range(ids[d]))
                  => Distinct(ids'[d])
        BY <3>1, AppendedFacts
      <3>3. \A i \in RunsOf(listed.rows, d) : listed.rows[i] \in Range(table.reports) /\ DatasetOf[listed.rows[i]] = d
        BY <2>1 DEF RunsOf, Range
      <3>4. \A r \in Range(ids'[d]) : r \in Range(table.reports) /\ DatasetOf[r] = d
        BY <2>1, <3>2, <3>3 DEF ListedIds
      <3>5. ASSUME touched.reports = {}
            PROVE  /\ Distinct(ids'[d])
                   /\ pc' = "ids" => \A i \in DOMAIN table.reports : listed.next < i => table.reports[i] \notin Range(ids'[d])
        <4>1. Distinct(ids[d]) /\ \A i \in DOMAIN table.reports : at < i => table.reports[i] \notin Range(ids[d])
          BY <2>1, <3>5 DEF ListedIds
        <4>2. \A i \in DOMAIN listed.rows : at + i \in DOMAIN table.reports /\ at < at + i
          <5>1. \A i \in DOMAIN listed.rows : i \in Nat /\ i > 0
            BY <3>1 DEF Appended
          <5> QED BY <2>1, <5>1
        <4>3. Distinct(ids'[d])
          BY <2>1, <3>2, <4>1, <4>2 DEF RunsOf
        <4>4. ASSUME pc' = "ids", NEW i \in DOMAIN table.reports, listed.next < i PROVE table.reports[i] \notin Range(ids'[d])
          <5>1. table.reports[i] \notin Range(ids[d])
            <6>1. at < i
              BY <2>1, <4>4
            <6> QED BY <4>1, <6>1
          <5>2. \A m \in DOMAIN listed.rows : at + m <= listed.next
            BY <1>5, <2>1, <4>4 DEF DatasetPage
          <5>3. ASSUME NEW m \in RunsOf(listed.rows, d), table.reports[i] = listed.rows[m] PROVE FALSE
            <6>1. m \in DOMAIN listed.rows
              BY <5>3 DEF RunsOf
            <6>2. at + m = i
              BY <2>1, <2>2, <5>3, <6>1 DEF Distinct
            <6>3. at + m \in Nat
              BY <2>1, <6>1
            <6> QED BY <2>1, <4>4, <5>2, <6>1, <6>2, <6>3
          <5> QED BY <3>2, <5>1, <5>3
        <4> QED BY <4>3, <4>4
      <3> QED BY <3>4, <3>5
    <2>4. \A d \in Datasets : d \notin Targets => ids'[d] = <<>>
      BY <1>5 DEF DatasetPage
    <2>5. pc' \notin BeforeIds
      BY <2>1 DEF BeforeIds
    <2>6. ASSUME NEW d \in Datasets
          PROVE  /\ \A r \in Range(ids'[d]) : r \in Range(table.reports) /\ DatasetOf[r] = d
                 /\ touched.reports = {} =>
                       /\ Distinct(ids'[d])
                       /\ pc' = "ids" => \A i \in DOMAIN table.reports : at' < i => table.reports[i] \notin Range(ids'[d])
      BY <2>1, <2>3, <2>4, EmptyList
    <2> QED BY <2>1, <2>5, <2>6 DEF ListedIds
  <1>6. CASE ask.kind = "datasets" /\ ReadRunBackedCases
    <2>1. pc' = "done" /\ ask' = ask /\ table' = table /\ touched' = touched /\ ids' = ids
      BY <1>6 DEF ReadRunBackedCases, Read, Respond, stores
    <2> QED BY <1>6, <2>1 DEF ListedIds, BeforeIds
  <1>7. ASSUME NEW d, NEW listed, QueuePage(d, listed) PROVE ListedIds'
    <2>1. ask' = ask /\ ask.kind = "caseQueue" /\ table' = table /\ touched' = touched /\ d = ask.dataset /\ d \in Datasets
      BY <1>7 DEF QueuePage, stores
    <2> DEFINE I == {i \in DOMAIN listed.rows : listed.rows[i] \notin Range(ids[d])}
    <2>2. /\ \A r : r \in Range(ids'[d]) <=> r \in Range(ids[d]) \/ \E m \in I : r = listed.rows[m]
          /\ Distinct(ids[d]) /\ Distinct(listed.rows) /\ (\A i \in I : listed.rows[i] \notin Range(ids[d])) => Distinct(ids'[d])
      <3>1. Appended(Runs, ids[d], listed.rows, I, ids'[d])
        BY <1>7 DEF QueuePage
      <3> HIDE DEF I
      <3> QED BY <3>1, AppendedFacts
    <2>3. Distinct(ids'[d])
      BY <1>7, <2>1, <2>2 DEF ListedIds, QueuePage
    <2>4. \A r \in Range(ids'[d]) : r \in Range(table.reports) /\ DatasetOf[r] = d
      BY <1>7, <2>1, <2>2 DEF ListedIds, QueuePage
    <2>5. \A e \in Datasets : e # d => ids'[e] = ids[e]
      BY <1>7 DEF QueuePage
    <2>6. ASSUME NEW e \in Datasets, NEW r \in Range(ids'[e]) PROVE r \in Range(table.reports) /\ DatasetOf[r] = e
      BY <2>1, <2>4, <2>5, <2>6 DEF ListedIds
    <2> QED BY <2>1, <2>3, <2>6 DEF ListedIds
  <1>8. CASE ask.kind = "caseQueue" /\ ListCases
    <2>1. ask' = ask /\ table' = table /\ touched' = touched /\ ids' = ids
      BY <1>8 DEF ListCases, Read, Respond, stores
    <2> QED BY <1>8, <2>1 DEF ListedIds
  <1>9. CASE ask.kind = "datasets"
    BY <1>2, <1>3, <1>4, <1>5, <1>6, <1>9, DatasetSteps, DatasetPages
  <1>10. CASE ask.kind = "caseQueue"
    BY <1>1, <1>2, <1>7, <1>8, <1>10, QueueSteps
  <1>11. CASE ask.kind \notin {"datasets", "caseQueue"} /\ ask' = ask
    BY <1>11 DEF ListedIds
  <1> QED BY <1>1, <1>2, <1>9, <1>10, <1>11, ReaderFrame

LEMMA ListedIdsStep == TypesOK /\ ListedIds /\ [Next]_vars => ListedIds'
  <1>1. ASSUME ListedIds, UNCHANGED vars PROVE ListedIds'
    BY <1>1 DEF vars, stores, ListedIds
  <1> QED BY <1>1, ListedIdsWrites, ListedIdsReader DEF Next

(***************************************************************************)
(* What the dataset board reads of its candidates.                         *)
(***************************************************************************)

\* The cases of the reports that were listed for a dataset.
ListedCases(d) == {c \in DOMAIN cases : cases[c].report \in Range(ids[d])}

\* The counts, and behind them the newest case.
QueueShown(d) ==
    IF ListedCases(d) = {} THEN Counted(d)
    ELSE [Counted(d) EXCEPT !.latest = cases[First(ListedCases(d))].id,
                            !.status = cases[First(ListedCases(d))].status]

BeforeReport == {"list", "get", "latest", "report"}

\* A candidate holds what was read of it.
CandidateTrue(row) ==
    /\ row.hasReport => row.latest \in Runs /\ DatasetOf[row.latest] = row.id
    /\ pc \in BeforeReport => ~row.hasReport /\ row.linked = NoSummary
    /\ pc # "done" => row.backed = NoSummary
    /\ ~stale =>
          /\ \/ row.linked = NoSummary
             \/ row.hasReport /\ row.linked = SummarizeBySourceEvalReportIDs(cases, row.latest)
          /\ \/ row.backed = NoSummary
             \/ row.backed = SummarizeBySourceEvalRunIDs(cases, row.latest)
          /\ pc = "newest" => row.queue = Counted(row.id)
          /\ pc \in {"backed", "done"} => row.queue = QueueShown(row.id)

\* A run met is one of the dataset.
RunsMet == \A d \in Datasets : latest[d].run # "none" => DatasetOf[latest[d].run] = d

DatasetInv ==
    ask.kind = "datasets" => RunsMet /\ \A i \in DOMAIN matched : CandidateTrue(matched[i])

LEMMA DatasetWrites ==
    ASSUME TypesOK, DatasetInv, Others
    PROVE  DatasetInv'
  <1>1. UNCHANGED readerVars /\ StoresOK
    BY WritesOf
  <1>2. ask' = ask /\ pc' = pc /\ matched' = matched /\ ids' = ids /\ latest' = latest
    BY <1>1 DEF readerVars
  <1>3. SUFFICES ASSUME ask.kind = "datasets" PROVE DatasetInv'
    BY <1>2 DEF DatasetInv
  <1>4. pc # "idle"
    BY <1>3 DEF TypesOK, TypeOK, ControlOK
  <1>5. stale' \/ (cases' = cases /\ stale' = stale)
    BY <1>4, WritesOf DEF CaseWrite, RowWrite
  <1>6. \A row : CandidateTrue(row) => CandidateTrue(row)'
    <2>1. CASE stale'
      BY <1>2, <2>1 DEF CandidateTrue, BeforeReport
    <2>2. CASE cases' = cases /\ stale' = stale
      <3>1. \A d : Counted(d)' = Counted(d) /\ ListedCases(d)' = ListedCases(d)
        BY <1>2, <2>2 DEF Counted, ListedCases
      <3>2. \A d : QueueShown(d)' = QueueShown(d)
        BY <2>2, <3>1 DEF QueueShown
      <3> QED BY <1>2, <2>2, <3>1, <3>2 DEF CandidateTrue, BeforeReport
    <2> QED BY <1>5, <2>1, <2>2
  <1>7. RunsMet => RunsMet'
    BY <1>2 DEF RunsMet
  <1> QED BY <1>2, <1>3, <1>6, <1>7 DEF DatasetInv

\* What was counted depends on the cases and on the lists of reports only.
LEMMA QueueFrame ==
    ASSUME UNCHANGED stores, ids' = ids
    PROVE  \A d : Counted(d)' = Counted(d) /\ QueueShown(d)' = QueueShown(d)
  <1>1. cases' = cases
    BY DEF stores
  <1>2. \A d : Counted(d)' = Counted(d) /\ ListedCases(d)' = ListedCases(d)
    BY <1>1 DEF Counted, ListedCases
  <1> QED BY <1>1, <1>2 DEF QueueShown

\* The newest case completes the counts.
LEMMA NewestCase ==
    ASSUME TypesOK, NEW d \in Datasets, NEW old, old = Counted(d), NEW new,
           new = LET newest == Page(CasesOf(ids[d]), 0, 1).rows
                 IN  IF newest = <<>> THEN old
                     ELSE [old EXCEPT !.latest = newest[1].id, !.status = newest[1].status]
    PROVE  new = QueueShown(d)
  <1>1. PICK newest : newest = Page(CasesOf(ids[d]), 0, 1).rows
    OBVIOUS
  <1>2. cases \in Seq(Cases) /\ ids[d] \in Seq(Runs)
    BY DEF TypesOK, TypeOK, StoresOK, ReaderOK
  <1>3. PICK Q : Q = {i \in DOMAIN cases : cases[i].report \in Range(ids[d])}
    OBVIOUS
  <1>4. /\ newest = <<>> <=> Q = {}
        /\ newest # <<>> => newest[1] = cases[First(Q)]
    <2>1. PICK reports \in Seq(Runs) : reports = ids[d]
      BY <1>2
    <2>2. newest = Page(CasesOf(reports), 0, 1).rows /\ Q = {i \in DOMAIN cases : cases[i].report \in Range(reports)}
      BY <1>1, <1>3, <2>1
    <2> QED BY ONLY <1>2, <2>1, <2>2, CasesOfFacts
  <1>5. Q = ListedCases(d)
    BY <1>3 DEF ListedCases
  <1> QED BY <1>1, <1>4, <1>5 DEF QueueShown

\* A candidate of which nothing was read.
Fresh(row) == ~row.hasReport /\ row.linked = NoSummary /\ row.backed = NoSummary

LEMMA FreshCandidates ==
    /\ \A row : pc \in BeforeReport /\ CandidateTrue(row) => Fresh(row)
    /\ \A key : Fresh(NewRow(key))
    /\ RunsMet' /\ pc' \in BeforeReport /\ (\A i \in DOMAIN matched' : Fresh(matched'[i])) => DatasetInv'
  <1>1. \A row : pc \in BeforeReport /\ CandidateTrue(row) => Fresh(row)
    BY DEF CandidateTrue, Fresh, BeforeReport
  <1>2. \A key : Fresh(NewRow(key))
    <2>1. \A key : NewRow(key).hasReport = FALSE
      BY NewRowEmpty
    <2>2. \A key : NewRow(key).linked = NoSummary /\ NewRow(key).backed = NoSummary
      BY NewRowFields
    <2> QED BY <2>1, <2>2 DEF Fresh
  <1>3. RunsMet' /\ pc' \in BeforeReport /\ (\A i \in DOMAIN matched' : Fresh(matched'[i])) => DatasetInv'
    BY DEF Fresh, DatasetInv, CandidateTrue, BeforeReport
  <1> QED BY <1>1, <1>2, <1>3

\* The candidates are listed, page by page.
LEMMA CandidatesListed ==
    ASSUME TypesOK, NewestInv, DatasetInv, ask.kind = "datasets", GetRows \/ ListDatasets
    PROVE  DatasetInv'
  <1>0. /\ matched \in Seq(Row) /\ StoresOK /\ AskOK(ask) /\ at \in Nat /\ ScanLimit(ask) \in Nat \ {0}
        /\ table.datasets \in Seq(Datasets)
    BY ScanLimitNat, TablesTyped DEF TypesOK, TypeOK, ReaderOK
  <1>1. RunsMet'
    <2>1. latest' = latest /\ RunsMet
      BY DEF GetRows, ListDatasets, DatasetInv
    <2> QED BY <2>1 DEF RunsMet
  <1>2. CASE GetRows
    <2>1. /\ pc = "get" /\ ask' = ask
          /\ \/ pc' = "latest" /\ matched' = NewRows(ask.keys)
             \/ pc' = "done" /\ matched' = matched
      BY <1>2 DEF GetRows, Respond, Read
    <2>2. matched = <<>>
      BY <2>1 DEF NewestInv
    <2>3. CASE pc' = "latest" /\ matched' = NewRows(ask.keys)
      <3>1. \A i \in DOMAIN matched' : Fresh(matched'[i])
        BY <2>3, FreshCandidates DEF NewRows
      <3> QED BY <1>1, <2>3, <3>1, FreshCandidates DEF BeforeReport
    <2>4. CASE pc' = "done" /\ matched' = matched
      BY <1>1, <2>2, <2>4 DEF DatasetInv
    <2> QED BY <2>1, <2>3, <2>4
  <1>3. CASE ListDatasets
    <2>1. PICK listed : listed = Page(table.datasets, at, ScanLimit(ask))
      OBVIOUS
    <2>2. PICK all : all = matched \o NewRows(listed.rows)
      OBVIOUS
    <2>3. pc = "list" /\ matched' = all /\ pc' \in {"list", "latest", "done"} /\ (pc' = "done" => all = <<>>)
      BY <1>3, <2>1, <2>2 DEF ListDatasets, NextPage
    <2>4. CASE pc' = "done"
      BY <1>1, <2>3, <2>4 DEF DatasetInv
    <2>5. CASE pc' # "done"
      <3>1. \A i \in DOMAIN matched : Fresh(matched[i])
        BY <2>3, FreshCandidates DEF DatasetInv, BeforeReport
      <3>2. PICK new : new = NewRows(listed.rows)
        OBVIOUS
      <3>3. listed.rows \in Seq(AllKeys)
        <4>1. PageOf(Datasets, table.datasets, at, ScanLimit(ask), listed)
          BY <1>0, <2>1 DEF PageOf
        <4>2. listed.rows \in Seq(Datasets)
          BY <4>1, PageIs
        <4> QED BY <4>2, SeqSub DEF AllKeys
      <3>4. new \in Seq(Row) /\ \A i \in DOMAIN new : Fresh(new[i])
        BY <3>2, <3>3, NewRowsFacts, FreshCandidates
      <3>5. \A i \in DOMAIN all : Fresh(all[i])
        <4>1. /\ all \in Seq(Row) /\ Len(all) = Len(matched) + Len(new)
              /\ \A i \in 1..Len(matched) + Len(new) : all[i] = IF i <= Len(matched) THEN matched[i] ELSE new[i - Len(matched)]
          BY <1>0, <2>2, <3>2, <3>4, ConcatProperties
        <4>2. ASSUME NEW i \in DOMAIN all
              PROVE  (i \in DOMAIN matched /\ all[i] = matched[i]) \/ (\E j \in DOMAIN new : all[i] = new[j])
          <5>1. Len(matched) \in Nat /\ Len(new) \in Nat /\ i \in 1..Len(matched) + Len(new)
            BY <1>0, <3>4, <4>1
          <5>2. CASE i <= Len(matched)
            BY <1>0, <4>1, <5>1, <5>2
          <5>3. CASE ~(i <= Len(matched))
            <6>1. i - Len(matched) \in 1..Len(new)
              BY <5>1, <5>3
            <6> QED BY <3>4, <4>1, <5>1, <5>3, <6>1
          <5> QED BY <5>2, <5>3
        <4> QED BY <3>1, <3>4, <4>2
      <3> QED BY <1>1, <2>3, <2>5, <3>5, FreshCandidates DEF BeforeReport
    <2> QED BY <2>4, <2>5
  <1> QED BY <1>2, <1>3

\* The latest runs are collected.
LEMMA CandidatesRuns ==
    ASSUME TypesOK, DatasetInv, ask.kind = "datasets", collectLatestEvalRunsByDataset
    PROVE  DatasetInv'
  <1>1. PICK list : list = Page(table.runs, at, BulkLimit).rows
    OBVIOUS
  <1>2. pc = "latest" /\ latest' = LatestRuns(list) /\ pc' \in BeforeReport /\ matched' = matched
    BY <1>1 DEF collectLatestEvalRunsByDataset, BeforeReport
  <1>3. RunsMet /\ \A i \in DOMAIN matched : CandidateTrue(matched[i])
    BY DEF DatasetInv
  <1>4. \A i \in DOMAIN matched' : Fresh(matched'[i])
    BY <1>2, <1>3, FreshCandidates DEF BeforeReport
  <1>5. list \in Seq(Runs)
    <2>1. /\ table.runs \in Seq(Runs) /\ at \in Nat /\ BulkLimit \in Nat \ {0}
      BY TablesTyped, ConstantsAssumption DEF TypesOK, TypeOK, ReaderOK
    <2>2. PICK p : p = Page(table.runs, at, BulkLimit)
      OBVIOUS
    <2>3. PageOf(Runs, table.runs, at, BulkLimit, p)
      BY <2>1, <2>2 DEF PageOf
    <2> QED BY <1>1, <2>2, <2>3, PageIs
  <1>6. ASSUME NEW d \in Datasets, latest'[d].run # "none" PROVE DatasetOf[latest'[d].run] = d
    <2>1. latest'[d] = latest[d] \/ (latest'[d] = NewestRun(list, d) /\ RunsOf(list, d) # {})
      BY <1>2 DEF LatestRuns
    <2>2. CASE latest'[d] = latest[d]
      BY <1>3, <1>6, <2>2 DEF RunsMet
    <2>3. CASE latest'[d] = NewestRun(list, d) /\ RunsOf(list, d) # {}
      <3>1. RunsOf(list, d) \in SUBSET Nat
        BY <1>5 DEF RunsOf
      <3>2. First(RunsOf(list, d)) \in RunsOf(list, d)
        BY <2>3, <3>1, FirstIsLeast
      <3>3. latest'[d].run = list[First(RunsOf(list, d))]
        BY <2>3 DEF NewestRun
      <3> QED BY <3>2, <3>3 DEF RunsOf
    <2> QED BY <2>1, <2>2, <2>3
  <1>7. RunsMet'
    BY <1>6 DEF RunsMet
  <1> QED BY <1>2, <1>4, <1>7, FreshCandidates

\* The queries for the candidates.
LEMMA CandidatesRead ==
    ASSUME TypesOK, DatasetInv, NEW full, NEW next, CandidateKind(full, next)
    PROVE  DatasetInv'
  <1>1. /\ ask.kind = "datasets" /\ UNCHANGED <<stores, ask>> /\ UNCHANGED <<latest, ids>>
        /\ matched' = full /\ DOMAIN full = DOMAIN matched
        /\ \A i \in DOMAIN matched : full[i].id = matched[i].id /\ CandidateRead(full[i], matched[i])
    BY DEF CandidateKind, SameRows
  <1>2. /\ pc \in {"report", "bad", "linked", "items", "counts", "newest"}
        /\ pc' = CASE pc = "report" -> "bad" [] pc = "bad" -> "linked" [] pc = "linked" -> "items"
                   [] pc = "items" -> "ids" [] pc = "counts" -> "newest" [] pc = "newest" -> "backed"
    BY DEF CandidateKind
  <1>3. RunsMet /\ \A i \in DOMAIN matched : CandidateTrue(matched[i])
    BY <1>1 DEF DatasetInv
  <1>4. RunsMet'
    BY <1>1, <1>3 DEF RunsMet
  <1>5. cases' = cases /\ stale' = stale
    BY <1>1 DEF stores
  <1>6. \A d : Counted(d)' = Counted(d) /\ QueueShown(d)' = QueueShown(d)
    BY <1>1, QueueFrame
  <1>7. ASSUME NEW i \in DOMAIN matched
        PROVE  /\ full[i].hasReport => full[i].latest \in Runs /\ DatasetOf[full[i].latest] = full[i].id
               /\ full[i].backed = NoSummary
               /\ ~stale =>
                     /\ \/ full[i].linked = NoSummary
                        \/ full[i].hasReport /\ full[i].linked = SummarizeBySourceEvalReportIDs(cases, full[i].latest)
                     /\ pc' = "newest" => full[i].queue = Counted(full[i].id)
                     /\ pc' = "backed" => full[i].queue = QueueShown(full[i].id)
    <2>1. CandidateTrue(matched[i]) /\ CandidateRead(full[i], matched[i]) /\ full[i].id = matched[i].id
      BY <1>1, <1>3
    <2>2. PICK d \in Datasets : d = matched[i].id
      BY <1>1 DEF TypesOK, RowsOfTable
    <2>3. full[i].backed = NoSummary
      BY <1>2, <2>1 DEF CandidateTrue, CandidateRead
    <2>4. CASE pc = "report"
      <3>1. full[i].latest = latest[d].run /\ (full[i].hasReport => Key("reports", latest[d].run)) /\ full[i].linked = NoSummary
        BY <2>1, <2>2, <2>4 DEF CandidateTrue, CandidateRead, BeforeReport
      <3>2. Key("reports", latest[d].run) => latest[d].run \in Runs
        <4>1. table.reports \in Seq(Runs)
          BY TablesTyped DEF TypesOK, TypeOK
        <4>2. Range(table.reports) \subseteq Runs
          BY <4>1 DEF Range
        <4> QED BY <4>2 DEF Key
      <3>3. "none" \notin Runs
        BY ConstantsAssumption
      <3>4. latest[d].run \in Runs => DatasetOf[latest[d].run] = d
        BY <1>3, <3>3 DEF RunsMet
      <3> QED BY <1>2, <2>1, <2>2, <2>3, <2>4, <3>1, <3>2, <3>4
    <2>5. CASE pc # "report"
      <3>1. full[i].latest = matched[i].latest /\ (full[i].hasReport <=> matched[i].hasReport)
        BY <2>1, <2>5 DEF CandidateRead
      <3>2. full[i].hasReport => full[i].latest \in Runs /\ DatasetOf[full[i].latest] = full[i].id
        BY <2>1, <3>1 DEF CandidateTrue
      <3>3. ~stale => \/ full[i].linked = NoSummary
                      \/ full[i].hasReport /\ full[i].linked = SummarizeBySourceEvalReportIDs(cases, full[i].latest)
        BY <2>1, <3>1 DEF CandidateTrue, CandidateRead
      <3>4. pc' = "newest" => full[i].queue = Counted(full[i].id)
        <4>1. pc' = "newest" => pc = "counts"
          BY <1>2
        <4> QED BY <2>1, <4>1 DEF CandidateRead
      <3>5. ~stale /\ pc' = "backed" => full[i].queue = QueueShown(full[i].id)
        <4> SUFFICES ASSUME ~stale, pc' = "backed" PROVE full[i].queue = QueueShown(full[i].id)
          OBVIOUS
        <4>1. pc = "newest"
          BY <1>2
        <4>2. PICK old : old = matched[i].queue
          OBVIOUS
        <4>3. PICK new : new = full[i].queue
          OBVIOUS
        <4>4. old = Counted(d)
          BY <2>1, <2>2, <4>1, <4>2 DEF CandidateTrue
        <4>5. new = LET newest == Page(CasesOf(ids[d]), 0, 1).rows
                    IN  IF newest = <<>> THEN old
                        ELSE [old EXCEPT !.latest = newest[1].id, !.status = newest[1].status]
          BY <2>1, <2>2, <4>1, <4>2, <4>3 DEF CandidateRead
        <4>6. new = QueueShown(d)
          BY <4>4, <4>5, NewestCase
        <4> QED BY <2>1, <2>2, <4>3, <4>6
      <3> QED BY <2>3, <3>2, <3>3, <3>4, <3>5
    <2> QED BY <2>4, <2>5
  <1>8. pc' \notin BeforeReport \cup {"done"}
    BY <1>2 DEF BeforeReport
  <1>9. (\A i \in DOMAIN matched : CandidateTrue(matched[i]))'
    BY <1>1, <1>5, <1>6, <1>7, <1>8 DEF CandidateTrue
  <1> QED BY <1>4, <1>9 DEF DatasetInv

LEMMA DatasetReader ==
    ASSUME TypesOK, NewestInv, DatasetInv, Reader
    PROVE  DatasetInv'
  <1>1. ASSUME NEW q \in Requests, Begin(q) PROVE DatasetInv'
    <2>1. matched' = <<>> /\ \A d \in Datasets : latest'[d] = NoRun
      BY <1>1 DEF Begin, Cleared
    <2> QED BY <2>1 DEF DatasetInv, RunsMet, NoRun
  <1>2. CASE Leave
    BY <1>2 DEF Leave, NoAsk, Ask, DatasetInv
  <1>3. CASE ask.kind = "datasets" /\ (GetRows \/ ListDatasets \/ collectLatestEvalRunsByDataset)
    BY <1>3, CandidatesListed, CandidatesRuns
  <1>4. ASSUME NEW full, NEW next, CandidateKind(full, next) PROVE DatasetInv'
    BY <1>4, CandidatesRead
  <1>5. CASE ask.kind = "datasets" /\ collectEvalReportIDsByDataset
    <2>1. UNCHANGED <<stores, ask, matched, latest>> /\ pc = "ids" /\ pc' \in {"ids", "counts"}
      BY <1>5 DEF collectEvalReportIDsByDataset, Read
    <2>2. cases' = cases /\ stale' = stale
      BY <2>1 DEF stores
    <2>3. RunsMet'
      BY <1>5, <2>1 DEF DatasetInv, RunsMet
    <2> QED BY <1>5, <2>1, <2>2, <2>3 DEF DatasetInv, CandidateTrue, BeforeReport
  <1>6. CASE ask.kind = "datasets" /\ ReadRunBackedCases
    <2>1. UNCHANGED <<stores, ask, latest, ids>> /\ pc = "backed" /\ pc' = "done"
      BY <1>6 DEF ReadRunBackedCases, Read, Respond
    <2>2. cases' = cases /\ stale' = stale
      BY <2>1 DEF stores
    <2>3. RunsMet'
      BY <1>6, <2>1 DEF DatasetInv, RunsMet
    <2>4. \A d : QueueShown(d)' = QueueShown(d)
      BY <2>1, QueueFrame
    <2>5. /\ DOMAIN matched' = DOMAIN matched
          /\ \A i \in DOMAIN matched :
               /\ matched'[i].id = matched[i].id /\ matched'[i].linked = matched[i].linked
               /\ matched'[i].queue = matched[i].queue /\ matched'[i].latest = matched[i].latest
               /\ matched'[i].hasReport <=> matched[i].hasReport
               /\ \/ matched'[i].backed = NoSummary
                  \/ matched'[i].backed = SummarizeBySourceEvalRunIDs(cases, matched[i].latest)
      BY <1>6, BackedRows
    <2>6. \A i \in DOMAIN matched : CandidateTrue(matched[i])
      BY <1>6 DEF DatasetInv
    <2>7. (\A i \in DOMAIN matched : CandidateTrue(matched[i]))'
      BY <2>1, <2>2, <2>4, <2>5, <2>6 DEF CandidateTrue, BeforeReport
    <2> QED BY <2>3, <2>7 DEF DatasetInv
  <1>9. CASE ask.kind = "datasets"
    BY <1>2, <1>3, <1>4, <1>5, <1>6, <1>9, DatasetSteps
  <1>10. CASE ask.kind # "datasets" /\ ask' = ask
    BY <1>10 DEF DatasetInv
  <1> QED BY <1>1, <1>2, <1>9, <1>10, ReaderFrame

LEMMA DatasetStep == TypesOK /\ NewestInv /\ DatasetInv /\ [Next]_vars => DatasetInv'
  <1>1. ASSUME DatasetInv, UNCHANGED vars PROVE DatasetInv'
    <2>1. /\ UNCHANGED stores /\ cases' = cases /\ stale' = stale
          /\ ask' = ask /\ pc' = pc /\ matched' = matched /\ ids' = ids /\ latest' = latest
      BY <1>1 DEF vars, stores
    <2>2. \A d : Counted(d)' = Counted(d) /\ QueueShown(d)' = QueueShown(d)
      BY <2>1, QueueFrame
    <2> QED BY <1>1, <2>1, <2>2 DEF DatasetInv, RunsMet, CandidateTrue, BeforeReport
  <1> QED BY <1>1, DatasetWrites, DatasetReader DEF Next

(***************************************************************************)
(* What the dataset board counts.                                          *)
(***************************************************************************)

\* The pairs of a place in a list of reports and a case of the report there.
PairsOf(list, X) == {p \in (DOMAIN list) \X (DOMAIN cases) : p[2] \in X /\ cases[p[2]].report = list[p[1]]}

HeldOf(list, X) == {c \in X : cases[c].report \in Range(list)}

\* There are as many pairs as cases, or more if a report comes twice.
LEMMA PairsCount ==
    ASSUME cases \in Seq(Cases), NEW list \in Seq(Runs), NEW X \in SUBSET DOMAIN cases
    PROVE  /\ IsFiniteSet(PairsOf(list, X)) /\ IsFiniteSet(HeldOf(list, X))
           /\ Cardinality(HeldOf(list, X)) <= Cardinality(PairsOf(list, X))
           /\ Distinct(list) => Cardinality(HeldOf(list, X)) = Cardinality(PairsOf(list, X))
           /\ PairsOf(list, X) = {} <=> HeldOf(list, X) = {}
  <1> DEFINE P == PairsOf(list, X)
             H == HeldOf(list, X)
             place(c) == CHOOSE i \in DOMAIN list : list[i] = cases[c].report
             f == [c \in H |-> <<place(c), c>>]
             g == [p \in P |-> p[2]]
  <1>1. /\ DOMAIN list = 1..Len(list) /\ Len(list) \in Nat
        /\ DOMAIN cases = 1..Len(cases) /\ Len(cases) \in Nat
    OBVIOUS
  <1>2. IsFiniteSet(P) /\ IsFiniteSet(H)
    <2>1. IsFiniteSet(DOMAIN list) /\ IsFiniteSet(DOMAIN cases)
      BY <1>1, PositionsFinite
    <2>2. IsFiniteSet((DOMAIN list) \X (DOMAIN cases))
      BY <2>1, FS_Product
    <2>3. P \subseteq (DOMAIN list) \X (DOMAIN cases) /\ H \subseteq DOMAIN cases
      BY DEF PairsOf, HeldOf
    <2> HIDE DEF P, H
    <2> QED BY <2>1, <2>2, <2>3, FS_Subset
  <1>3. ASSUME NEW c \in H PROVE <<place(c), c>> \in P
    <2>1. c \in X /\ c \in DOMAIN cases /\ \E i \in DOMAIN list : list[i] = cases[c].report
      BY DEF HeldOf, Range
    <2>2. place(c) \in DOMAIN list /\ list[place(c)] = cases[c].report
      BY <2>1
    <2> HIDE DEF place
    <2> QED BY <2>1, <2>2 DEF PairsOf
  <1>4. f \in Injection(H, P)
    <2> HIDE DEF P, H, place
    <2>1. f \in [H -> P]
      BY <1>3
    <2>2. ASSUME NEW a \in H, NEW b \in H, f[a] = f[b] PROVE a = b
      BY <2>2
    <2> QED BY <2>1, <2>2 DEF Injection, IsInjective
  <1>5. Cardinality(H) <= Cardinality(P)
    <2> HIDE DEF P, H, f
    <2> QED BY <1>2, <1>4, FS_Injection
  <1>6. \A p \in P : p = <<p[1], p[2]>> /\ p[1] \in DOMAIN list /\ p[2] \in X /\ cases[p[2]].report = list[p[1]]
    BY DEF PairsOf
  <1>7. \A p \in P : p[2] \in H
    BY <1>6 DEF HeldOf, Range
  <1>8. ASSUME Distinct(list) PROVE Cardinality(P) <= Cardinality(H)
    <2>1. ASSUME NEW p \in P, NEW q \in P, p[2] = q[2] PROVE p = q
      <3>1. p[1] = q[1]
        BY <1>6, <1>8, <2>1 DEF Distinct
      <3> HIDE DEF P
      <3> QED BY <1>6, <2>1, <3>1
    <2>2. g \in Injection(P, H)
      <3> HIDE DEF P, H
      <3>1. g \in [P -> H]
        BY <1>7
      <3>2. ASSUME NEW a \in P, NEW b \in P, g[a] = g[b] PROVE a = b
        BY <2>1, <3>2
      <3> QED BY <3>1, <3>2 DEF Injection, IsInjective
    <2> HIDE DEF P, H, g
    <2> QED BY <1>2, <2>2, FS_Injection
  <1>9. Cardinality(P) \in Nat /\ Cardinality(H) \in Nat
    BY <1>2, FS_CardinalityType
  <1>10. P = {} <=> H = {}
    <2> HIDE DEF P, H
    <2> QED BY <1>3, <1>7
  <1> HIDE DEF P, H
  <1> QED BY <1>2, <1>5, <1>8, <1>9, <1>10 DEF P, H

\* The counts of a dataset, and what the newest case adds to them.
LEMMA CountedFacts ==
    ASSUME TypesOK, NEW d \in Datasets, NEW H, H = ListedCases(d)
    PROVE  /\ QueueShown(d).total = Counted(d).total /\ QueueShown(d).open = Counted(d).open
           /\ Counted(d).total \in Nat /\ Counted(d).open \in Nat
           /\ Counted(d).open > 0 <=> OpenCases(cases, H) # {}
           /\ Cardinality(H) <= Counted(d).total
           /\ Cardinality(OpenCases(cases, H)) <= Counted(d).open
           /\ Distinct(ids[d]) => QueueShown(d) = Summary(cases, H)
           /\ H # {} => /\ First(H) \in H
                        /\ QueueShown(d).latest = cases[First(H)].id /\ QueueShown(d).status = cases[First(H)].status
           /\ H = {} => QueueShown(d) = NoSummary
  <1>1. cases \in Seq(Cases) /\ ids[d] \in Seq(Runs)
    BY DEF TypesOK, TypeOK, StoresOK, ReaderOK
  <1>2. PICK X : X = {c \in DOMAIN cases : cases[c].status = "open"}
    OBVIOUS
  <1>3. X \in SUBSET DOMAIN cases /\ DOMAIN cases \in SUBSET DOMAIN cases
    BY <1>2
  <1>4. H = HeldOf(ids[d], DOMAIN cases) /\ OpenCases(cases, H) = HeldOf(ids[d], X)
    BY <1>2 DEF ListedCases, HeldOf, OpenCases
  <1>5. Counted(d) = [NoSummary EXCEPT !.total = Cardinality(PairsOf(ids[d], DOMAIN cases)),
                                       !.open = Cardinality(PairsOf(ids[d], X))]
    <2>1. {p \in (DOMAIN ids[d]) \X (DOMAIN cases) : cases[p[2]].report = ids[d][p[1]]} = PairsOf(ids[d], DOMAIN cases)
      BY DEF PairsOf
    <2>2. {p \in PairsOf(ids[d], DOMAIN cases) : cases[p[2]].status = "open"} = PairsOf(ids[d], X)
      BY <1>2 DEF PairsOf
    <2> QED BY <2>1, <2>2 DEF Counted
  <1>6. PICK m, n : m = Cardinality(PairsOf(ids[d], DOMAIN cases)) /\ n = Cardinality(PairsOf(ids[d], X))
    OBVIOUS
  <1>7. Counted(d) = [total |-> m, open |-> n, latest |-> 0, status |-> "none"]
    <2>1. Counted(d) = [NoSummary EXCEPT !.total = m, !.open = n]
      BY <1>5, <1>6
    <2> QED BY <2>1 DEF NoSummary, NoCase
  <1>8. /\ m \in Nat /\ Cardinality(H) <= m /\ (m = 0 <=> H = {})
        /\ Distinct(ids[d]) => m = Cardinality(H)
    <2>1. /\ IsFiniteSet(PairsOf(ids[d], DOMAIN cases)) /\ Cardinality(H) <= m
          /\ Distinct(ids[d]) => m = Cardinality(H)
          /\ PairsOf(ids[d], DOMAIN cases) = {} <=> H = {}
      BY <1>1, <1>3, <1>4, <1>6, PairsCount
    <2>2. m \in Nat /\ (m = 0 <=> PairsOf(ids[d], DOMAIN cases) = {})
      BY <1>6, <2>1, FS_CardinalityType, FS_EmptySet
    <2> QED BY <2>1, <2>2
  <1>9. /\ n \in Nat /\ Cardinality(OpenCases(cases, H)) <= n /\ (n = 0 <=> OpenCases(cases, H) = {})
        /\ Distinct(ids[d]) => n = Cardinality(OpenCases(cases, H))
    <2>1. /\ IsFiniteSet(PairsOf(ids[d], X)) /\ Cardinality(OpenCases(cases, H)) <= n
          /\ Distinct(ids[d]) => n = Cardinality(OpenCases(cases, H))
          /\ PairsOf(ids[d], X) = {} <=> OpenCases(cases, H) = {}
      BY <1>1, <1>3, <1>4, <1>6, PairsCount
    <2>2. n \in Nat /\ (n = 0 <=> PairsOf(ids[d], X) = {})
      BY <1>6, <2>1, FS_CardinalityType, FS_EmptySet
    <2> QED BY <2>1, <2>2
  <1>10. H # {} => First(H) \in H
    <2>1. H \in SUBSET Nat
      BY <1>1 DEF ListedCases
    <2> QED BY <2>1, FirstIsLeast
  <1>11. PICK c, s : c = cases[First(H)].id /\ s = cases[First(H)].status
    OBVIOUS
  <1>12. QueueShown(d) = IF H = {} THEN [total |-> m, open |-> n, latest |-> 0, status |-> "none"]
                         ELSE [total |-> m, open |-> n, latest |-> c, status |-> s]
    <2>1. PICK old : old = Counted(d)
      OBVIOUS
    <2>2. QueueShown(d) = IF H = {} THEN old ELSE [old EXCEPT !.latest = c, !.status = s]
      BY <1>11, <2>1 DEF QueueShown
    <2>3. old = [total |-> m, open |-> n, latest |-> 0, status |-> "none"]
      BY <1>7, <2>1
    <2>4. PICK new : new = [old EXCEPT !.latest = c, !.status = s]
      OBVIOUS
    <2>5. new = [total |-> m, open |-> n, latest |-> c, status |-> s]
      BY <2>3, <2>4
    <2> QED BY <2>2, <2>3, <2>4, <2>5
  <1>13. H = {} => m = 0 /\ n = 0
    BY <1>8, <1>9 DEF OpenCases
  <1>14. Distinct(ids[d]) => QueueShown(d) = Summary(cases, H)
    BY <1>8, <1>9, <1>11, <1>12, <1>13 DEF Summary, NoSummary, NoCase
  <1>15. H = {} => QueueShown(d) = NoSummary
    BY <1>12, <1>13 DEF NoSummary, NoCase
  <1>16. /\ QueueShown(d).total = m /\ QueueShown(d).open = n /\ Counted(d).total = m /\ Counted(d).open = n
         /\ H # {} => QueueShown(d).latest = c /\ QueueShown(d).status = s
    BY <1>7, <1>12
  <1> QED BY <1>8, <1>9, <1>10, <1>11, <1>14, <1>15, <1>16

(***************************************************************************)
(* The case queue of a dataset.                                            *)
(***************************************************************************)

\* The response shows the cases of the reports that were listed.
QueueResp ==
    ask.kind = "caseQueue" =>
        /\ pc # "done" => resp = NoPage
        /\ pc = "done" => LET exact == Page(CasesOf(ids[ask.dataset]), ask.offset, Limit)
                          IN  resp.rows = exact.rows /\ (resp.more <=> exact.more)

\* Without a report there is no case.
LEMMA NoReportNoCase ==
    ASSUME cases \in Seq(Cases), NEW a \in Nat
    PROVE  Page(CasesOf(<<>>), a, Limit).rows = <<>> /\ ~Page(CasesOf(<<>>), a, Limit).more
  <1>1. PICK list : list = CasesOf(<<>>)
    OBVIOUS
  <1>2. list = Picked(cases, {})
    BY <1>1, EmptyList DEF CasesOf
  <1>3. list \in Seq(Cases) /\ DOMAIN list = {}
    <2>1. list \in Seq(Cases) /\ DOMAIN list = 1..Cardinality({})
      BY <1>2, PickedFacts
    <2>2. Cardinality({}) = 0
      BY FS_EmptySet
    <2>3. DOMAIN list = 1..0
      BY <2>1, <2>2
    <2> QED BY <2>1, <2>3
  <1>4. PICK p : p = Page(list, a, Limit)
    OBVIOUS
  <1>5. Limit \in Nat
    BY ConstantsAssumption
  <1>6. PageOf(Cases, list, a, Limit, p)
    BY <1>3, <1>4, <1>5 DEF PageOf
  <1>7. p.rows \in Seq(Cases) /\ DOMAIN p.rows = {} /\ (p.more <=> Len(list) > a + Limit)
    BY <1>3, <1>6, PageIs
  <1>8. Len(list) = 0
    BY <1>3
  <1>9. ~p.more
    BY <1>5, <1>7, <1>8
  <1>10. p.rows = <<>>
    <2>1. PICK s \in Seq(Cases) : s = p.rows /\ DOMAIN s = {}
      BY <1>7
    <2>2. DOMAIN s = 1..Len(s) /\ Len(s) \in Nat
      OBVIOUS
    <2>3. Len(s) = 0
      <3>1. 1 \notin 1..Len(s)
        BY <2>1, <2>2
      <3> QED BY <2>2, <3>1
    <2>4. s = <<>>
      BY <2>3, EmptySeq
    <2> QED BY <2>1, <2>4
  <1> QED BY <1>1, <1>4, <1>9, <1>10

LEMMA QueueRespStep == TypesOK /\ QueueResp /\ [Next]_vars => QueueResp'
  <1> SUFFICES ASSUME TypesOK, QueueResp, [Next]_vars PROVE QueueResp'
    OBVIOUS
  <1>1. CASE Others
    <2>1. UNCHANGED readerVars /\ pc # "done"
      BY <1>1, WritesOf DEF CaseWrite, RowWrite
    <2>2. ask' = ask /\ pc' = pc /\ resp' = resp
      BY <2>1 DEF readerVars
    <2> QED BY <2>1, <2>2 DEF QueueResp
  <1>2. CASE UNCHANGED vars
    BY <1>2 DEF vars, stores, QueueResp, CasesOf
  <1>3. CASE \E q \in Requests : Begin(q)
    BY <1>3 DEF Begin, Cleared, QueueResp
  <1>4. CASE Leave
    BY <1>4 DEF Leave, NoAsk, Ask, QueueResp
  <1>5. CASE ask.kind = "caseQueue" /\ ListCases
    <2>1. pc' = "done" /\ resp' = Page(CasesOf(ids[ask.dataset]), ask.offset, Limit) /\ ask' = ask /\ ids' = ids /\ cases' = cases
      BY <1>5 DEF ListCases, Read, Respond, stores
    <2>2. CasesOf(ids[ask.dataset])' = CasesOf(ids[ask.dataset])
      BY <2>1 DEF CasesOf
    <2> QED BY <2>1, <2>2 DEF QueueResp
  <1>6. CASE ask.kind = "caseQueue" /\ collectEvalReportIDsForDataset
    <2>0. ids \in [Datasets -> Seq(Runs)] /\ ask.dataset \in Datasets /\ cases \in Seq(Cases) /\ ask.offset \in Nat
      BY <1>6 DEF TypesOK, TypeOK, ReaderOK, StoresOK, AskOK
    <2>1. /\ pc = "ids" /\ resp' = resp /\ ask' = ask /\ cases' = cases
          /\ \E new : ids' = [ids EXCEPT ![ask.dataset] = new] /\ (pc' = "done" => new = <<>>)
      BY <1>6 DEF collectEvalReportIDsForDataset, Read, stores
    <2>2. resp = NoPage
      BY <1>6, <2>1 DEF QueueResp
    <2>3. pc' = "done" => ids'[ask.dataset] = <<>>
      BY <2>0, <2>1
    <2>4. pc' = "done" => Page(CasesOf(ids[ask.dataset]), ask.offset, Limit)' = Page(CasesOf(<<>>), ask.offset, Limit)
      BY <2>1, <2>3 DEF CasesOf
    <2>5. NoPage.rows = <<>> /\ ~NoPage.more
      BY DEF NoPage
    <2>6. Page(CasesOf(<<>>), ask.offset, Limit).rows = <<>> /\ ~Page(CasesOf(<<>>), ask.offset, Limit).more
      BY <2>0, NoReportNoCase
    <2> QED BY <2>1, <2>2, <2>4, <2>5, <2>6 DEF QueueResp
  <1>7. CASE Reader /\ ask.kind = "caseQueue"
    BY <1>3, <1>4, <1>5, <1>6, <1>7, QueueActions
  <1>8. CASE ask.kind # "caseQueue" /\ ask' = ask
    BY <1>8 DEF QueueResp
  <1>9. CASE Reader
    BY <1>3, <1>4, <1>7, <1>8, <1>9, ReaderFrame
  <1> QED BY <1>1, <1>2, <1>9 DEF Next

\* A scan that is over has the cases of all reports that nobody wrote, and no
\* others if no report was written.
LEMMA SettledCases ==
    ASSUME TypesOK, IdsInv, ListedIds, pc = "done", NEW d \in Datasets,
           (ask.kind = "datasets" /\ d \in Targets) \/ (ask.kind = "caseQueue" /\ d = ask.dataset)
    PROVE  /\ QueueOf(d, Untouched("reports")) \subseteq ListedCases(d)
           /\ touched.reports = {} => QueueOf(d, Untouched("reports")) = ListedCases(d)
  <1>1. ASSUME NEW r \in Untouched("reports"), DatasetOf[r] = d PROVE r \in Range(ids[d])
    <2>1. PICK i \in DOMAIN table.reports : table.reports[i] = r
      BY DEF Untouched, Range
    <2>2. StillReport(d, i)
      BY <1>1, <2>1 DEF StillReport, StillAt, Untouched
    <2> QED BY <2>1, <2>2 DEF IdsInv, DatasetIds, QueueIds
  <1>2. QueueOf(d, Untouched("reports")) \subseteq ListedCases(d)
    BY <1>1 DEF QueueOf, ListedCases
  <1>3. \A r \in Range(ids[d]) : r \in Range(table.reports) /\ DatasetOf[r] = d
    BY DEF ListedIds
  <1>4. touched.reports = {} => ListedCases(d) \subseteq QueueOf(d, Untouched("reports"))
    BY <1>3 DEF QueueOf, ListedCases, Untouched
  <1> QED BY <1>2, <1>4

\* The case queue of a dataset is complete: with no case written during the
\* request, the counts of the dataset board and the list of the queue show every
\* case of a report that was not written either, and if no report was written
\* they show exactly the cases of the dataset.
THEOREM DatasetQueueComplete == Spec => []DatasetQueueIsComplete
  <1> DEFINE Inv == TypesOK /\ NewestInv /\ IdsInv /\ ListedIds /\ DatasetInv /\ QueueResp
  <1>1. Init => Inv
    <2>1. Init => NewestInv /\ IdsInv /\ ListedIds /\ DatasetInv /\ QueueResp
      BY DEF Init, NoAsk, Ask, NewestInv, IdsInv, DatasetIds, QueueIds, ListedIds, DatasetInv, QueueResp
    <2> QED BY <2>1, TypesInit
  <1>2. Inv /\ [Next]_vars => Inv'
    BY TypesStep, NewestStep, IdsStep, ListedIdsStep, DatasetStep, QueueRespStep
  <1>3. Inv => DatasetQueueIsComplete
    <2> SUFFICES ASSUME Inv, ~stale PROVE DatasetQueueIsComplete
      BY DEF DatasetQueueIsComplete
    <2>0. cases \in Seq(Cases) /\ StoresOK /\ AskOK(ask) /\ ids \in [Datasets -> Seq(Runs)]
      BY DEF TypesOK, TypeOK, StoresOK, ReaderOK
    <2>1. ASSUME Done({"datasets"}), NEW i \in DOMAIN matched, NEW shown, shown = matched[i].queue,
                 NEW S, S = QueueOf(matched[i].id, Untouched("reports"))
          PROVE  /\ shown.total >= Cardinality(S)
                 /\ shown.open >= Cardinality(OpenCases(cases, S))
                 /\ touched.reports = {} => shown = Summary(cases, S)
      <3>1. pc = "done" /\ ask.kind = "datasets"
        BY <2>1 DEF Done
      <3>2. PICK d \in Datasets : d = matched[i].id
        BY <3>1 DEF TypesOK, RowsOfTable
      <3>3. d \in Targets
        BY <3>2 DEF Targets
      <3>4. PICK H : H = ListedCases(d)
        OBVIOUS
      <3>5. S \subseteq H /\ (touched.reports = {} => S = H)
        <4>1. (ask.kind = "datasets" /\ d \in Targets) \/ (ask.kind = "caseQueue" /\ d = ask.dataset)
          BY <3>1, <3>3
        <4>2. S = QueueOf(d, Untouched("reports"))
          BY <2>1, <3>2
        <4> HIDE DEF Inv
        <4>3. TypesOK /\ IdsInv /\ ListedIds
          BY DEF Inv
        <4> QED BY ONLY <3>1, <3>2, <3>4, <4>1, <4>2, <4>3, SettledCases
      <3>6. shown = QueueShown(d)
        BY <2>1, <3>1, <3>2 DEF DatasetInv, CandidateTrue
      <3>7. /\ shown.total \in Nat /\ shown.open \in Nat
            /\ Cardinality(H) <= shown.total /\ Cardinality(OpenCases(cases, H)) <= shown.open
            /\ Distinct(ids[d]) => shown = Summary(cases, H)
        BY <3>4, <3>6, CountedFacts
      <3>8. touched.reports = {} => Distinct(ids[d])
        BY <3>1 DEF ListedIds
      <3>9. Cardinality(S) <= Cardinality(H) /\ Cardinality(S) \in Nat /\ Cardinality(H) \in Nat
        <4>1. H \in SUBSET (1..Len(cases)) /\ Len(cases) \in Nat
          BY <2>0, <3>4 DEF ListedCases
        <4>2. IsFiniteSet(H) /\ IsFiniteSet(S)
          BY <3>5, <4>1, PositionsFinite
        <4> QED BY <3>5, <4>2, FS_Subset, FS_CardinalityType
      <3>10. /\ Cardinality(OpenCases(cases, S)) <= Cardinality(OpenCases(cases, H))
             /\ Cardinality(OpenCases(cases, S)) \in Nat /\ Cardinality(OpenCases(cases, H)) \in Nat
        <4>1. OpenCases(cases, H) \in SUBSET (1..Len(cases)) /\ Len(cases) \in Nat
          BY <2>0, <3>4 DEF ListedCases, OpenCases
        <4>2. OpenCases(cases, S) \subseteq OpenCases(cases, H)
          BY <3>5 DEF OpenCases
        <4>3. IsFiniteSet(OpenCases(cases, H)) /\ IsFiniteSet(OpenCases(cases, S))
          BY <4>1, <4>2, PositionsFinite
        <4> QED BY <4>2, <4>3, FS_Subset, FS_CardinalityType
      <3> QED BY <3>5, <3>7, <3>8, <3>9, <3>10
    <2>2. ASSUME Done({"caseQueue"}), NEW S, S = QueueOf(ask.dataset, Untouched("reports"))
          PROVE  /\ ~resp.more /\ ask.offset = 0 => \A i \in S : cases[i] \in Range(resp.rows)
                 /\ touched.reports = {} => resp.rows = Page(Picked(cases, S), ask.offset, Limit).rows
      <3>1. pc = "done" /\ ask.kind = "caseQueue"
        BY <2>2 DEF Done
      <3>2. PICK d \in Datasets : d = ask.dataset
        BY <2>0, <3>1 DEF AskOK
      <3>3. PICK H : H = ListedCases(d)
        OBVIOUS
      <3>4. S \subseteq H /\ (touched.reports = {} => S = H)
        BY <2>2, <3>1, <3>2, <3>3, SettledCases
      <3>5. PICK list : list = Picked(cases, H)
        OBVIOUS
      <3>6. CasesOf(ids[d]) = list
        BY <3>3, <3>5 DEF CasesOf, ListedCases
      <3>7. PICK p : p = Page(list, ask.offset, Limit)
        OBVIOUS
      <3>8. resp.rows = p.rows /\ (resp.more <=> p.more)
        BY <3>1, <3>2, <3>6, <3>7 DEF QueueResp
      <3>9. touched.reports = {} => resp.rows = Page(Picked(cases, S), ask.offset, Limit).rows
        BY <3>4, <3>5, <3>7, <3>8
      <3>10. ASSUME ~resp.more, ask.offset = 0, NEW i \in S PROVE cases[i] \in Range(resp.rows)
        <4>1. H \in SUBSET DOMAIN cases /\ i \in H
          BY <3>3, <3>4 DEF ListedCases
        <4>2. list \in Seq(Cases) /\ Range(list) = {cases[j] : j \in H}
          BY <2>0, <3>5, <4>1, PickedFacts
        <4>3. PICK m \in DOMAIN list : list[m] = cases[i]
          BY <4>1, <4>2 DEF Range
        <4>4. m \in Nat /\ 0 < m
          BY <4>2
        <4>5. PICK a \in Nat : a = 0
          OBVIOUS
        <4>6. Limit \in Nat
          BY ConstantsAssumption
        <4>7. PageOf(Cases, list, a, Limit, p)
          BY <3>7, <3>10, <4>2, <4>5, <4>6 DEF PageOf
        <4>8. m - a \in DOMAIN p.rows /\ p.rows[m - a] = list[m]
          BY <3>8, <3>10, <4>4, <4>5, <4>7, PageIs
        <4> QED BY <3>8, <4>3, <4>8 DEF Range
      <3> QED BY <3>9, <3>10
    <2> QED BY <2>1, <2>2 DEF DatasetQueueIsComplete
  <1> QED BY <1>1, <1>2, <1>3, PTL DEF Spec

(***************************************************************************)
(* What the boards offer.                                                  *)
(***************************************************************************)

\* A summary that calls its latest case open is right.
Honest(s) ==
    s.total \in Nat /\ s.open \in Nat /\ (s.latest # NoCase /\ s.status = "open" => IsOpen(s.latest))

\* An offer opens an open case.
Sound(offer) == offer.mode = "open_existing_case" => IsOpen(offer.case)

LEMMA HonestSummary ==
    ASSUME cases \in Seq(Cases)
    PROVE  Honest(NoSummary) /\ \A Q \in SUBSET DOMAIN cases : Honest(Summary(cases, Q))
  <1>1. Honest(NoSummary)
    BY DEF Honest, NoSummary, NoCase
  <1>2. ASSUME NEW Q \in SUBSET DOMAIN cases PROVE Honest(Summary(cases, Q))
    <2>1. PICK s : s = Summary(cases, Q)
      OBVIOUS
    <2>2. /\ s.total \in Nat /\ s.open \in Nat
          /\ Q # {} => /\ First(Q) \in Q
                       /\ s.latest = cases[First(Q)].id /\ s.status = cases[First(Q)].status
          /\ Q = {} => s = NoSummary
      BY <2>1, SummaryFacts
    <2>3. Q # {} => Honest(s)
      BY <2>2 DEF Honest, IsOpen
    <2> QED BY <1>1, <2>1, <2>2, <2>3
  <1> QED BY <1>1, <1>2

LEMMA HonestRead ==
    ASSUME cases \in Seq(Cases), NEW x
    PROVE  /\ Honest(SummarizeBySourceEvalReportIDs(cases, x))
           /\ Honest(SummarizeCompareOriginBySourceEvalReportIDs(cases, x))
           /\ Honest(SummarizeBySourceEvalCaseIDs(cases, x))
           /\ Honest(SummarizeBySourceEvalRunIDs(cases, x))
           /\ SummarizeBySourceEvalReportIDs(cases, x).open > 0 <=> OpenOfReport(x)
           /\ SummarizeCompareOriginBySourceEvalReportIDs(cases, x).open > 0 <=> OpenOfCompare(x)
           /\ SummarizeBySourceEvalCaseIDs(cases, x).open > 0 <=> OpenOfEvalCase(x)
  <1> DEFINE R == {i \in DOMAIN cases : cases[i].report = x}
             C == {i \in DOMAIN cases : cases[i].report = x /\ cases[i].compare}
             E == {i \in DOMAIN cases : cases[i].evalCase = x}
             N == {i \in DOMAIN cases : cases[i].run = x}
  <1>1. /\ SummarizeBySourceEvalReportIDs(cases, x) = Summary(cases, R)
        /\ SummarizeCompareOriginBySourceEvalReportIDs(cases, x) = Summary(cases, C)
        /\ SummarizeBySourceEvalCaseIDs(cases, x) = Summary(cases, E)
        /\ SummarizeBySourceEvalRunIDs(cases, x) = Summary(cases, N)
    BY DEF SummarizeBySourceEvalReportIDs, SummarizeCompareOriginBySourceEvalReportIDs,
           SummarizeBySourceEvalCaseIDs, SummarizeBySourceEvalRunIDs
  <1>2. R \in SUBSET DOMAIN cases /\ C \in SUBSET DOMAIN cases /\ E \in SUBSET DOMAIN cases /\ N \in SUBSET DOMAIN cases
    OBVIOUS
  <1>3. /\ OpenOfReport(x) <=> \E i \in R : cases[i].status = "open"
        /\ OpenOfCompare(x) <=> \E i \in C : cases[i].status = "open"
        /\ OpenOfEvalCase(x) <=> \E i \in E : cases[i].status = "open"
    BY DEF OpenOfReport, OpenOfCompare, OpenOfEvalCase
  <1> HIDE DEF R, C, E, N
  <1>4. \A Q \in SUBSET DOMAIN cases : Summary(cases, Q).open > 0 <=> \E i \in Q : cases[i].status = "open"
    BY SummaryFacts
  <1> QED BY <1>1, <1>2, <1>3, <1>4, HonestSummary

\* The offers that are made of honest summaries are sound.
LEMMA SoundOffers ==
    ASSUME NEW s, Honest(s), NEW c, Honest(c), NEW has
    PROVE  /\ Sound(newEvalReportLinkedCaseActionResponse(s))
           /\ Sound(newEvalReportBadCaseLinkedCaseActionResponse(s))
           /\ Sound(newEvalReportComparePrimaryActionResponse(s, c))
           /\ Sound(newEvalRunListPrimaryActionResponse(s, has))
           /\ Sound(newEvalDatasetCaseQueueActionResponse(s))
           /\ newEvalReportFollowUpActionResponse(s).mode = "create" <=> ~(s.open > 0)
           /\ newEvalReportPrimaryActionResponse(s).mode = "create" => ~(s.open > 0)
           /\ newEvalReportCompareFollowUpActionResponse(s).mode = "create" <=> ~(s.open > 0)
  <1>1. Sound(NoOffer) /\ Sound(OpenLatestOrQueue(s)) /\ \A m : m # "open_existing_case" => Sound(Offer(m, NoCase))
    BY DEF Sound, NoOffer, OpenLatestOrQueue, Offer, Honest
  <1>2. s.total \in Nat /\ s.open \in Nat /\ c.open \in Nat
    BY DEF Honest
  <1>3. Sound(newEvalReportLinkedCaseActionResponse(s))
    BY <1>1 DEF newEvalReportLinkedCaseActionResponse
  <1>4. Sound(newEvalReportBadCaseLinkedCaseActionResponse(s))
    BY <1>1 DEF newEvalReportBadCaseLinkedCaseActionResponse
  <1>5. Sound(newEvalReportComparePrimaryActionResponse(s, c))
    BY <1>1, <1>3 DEF newEvalReportComparePrimaryActionResponse, newEvalReportCompareFollowUpActionResponse
  <1>6. Sound(newEvalRunListPrimaryActionResponse(s, has))
    <2>1. Sound(newEvalRunLinkedCaseActionResponse(s))
      BY <1>1 DEF newEvalRunLinkedCaseActionResponse
    <2>2. Sound(Offer("open_report", NoCase)) /\ Sound(Offer("open_run", NoCase))
      BY <1>1
    <2> QED BY <2>1, <2>2 DEF newEvalRunListPrimaryActionResponse
  <1>7. Sound(newEvalDatasetCaseQueueActionResponse(s))
    BY <1>1 DEF newEvalDatasetCaseQueueActionResponse
  <1>8. newEvalReportFollowUpActionResponse(s).mode = "create" <=> ~(s.open > 0)
    BY <1>2 DEF newEvalReportFollowUpActionResponse, Offer
  <1>9. newEvalReportLinkedCaseActionResponse(s).mode # "create"
    BY DEF newEvalReportLinkedCaseActionResponse, OpenLatestOrQueue, NoOffer, Offer
  <1>10. newEvalReportPrimaryActionResponse(s).mode = "create" => ~(s.open > 0)
    BY <1>8, <1>9 DEF newEvalReportPrimaryActionResponse
  <1>11. newEvalReportCompareFollowUpActionResponse(s).mode = "create" <=> ~(s.open > 0)
    BY <1>2 DEF newEvalReportCompareFollowUpActionResponse, Offer
  <1> QED BY <1>3, <1>4, <1>5, <1>6, <1>7, <1>8, <1>10, <1>11

\* The first offer of a dataset.
LEMMA DatasetOffers ==
    ASSUME NEW row, Honest(row.queue), Honest(row.linked)
    PROVE  /\ Sound(newEvalDatasetPrimaryActionResponse(row))
           /\ newEvalDatasetPrimaryActionResponse(row).mode \in {"open_existing_case", "open_existing_queue"}
                 <=> row.queue.open > 0 \/ row.linked.open > 0
  <1> DEFINE one == newEvalDatasetCaseQueueActionResponse(row.queue)
             two == newEvalDatasetCaseQueueActionResponse(row.linked)
             three == newEvalDatasetFollowUpActionResponse(row.uncovered, row.hasReport)
             all == newEvalDatasetPrimaryActionResponse(row)
             Opens(offer) == offer.mode \in {"open_existing_case", "open_existing_queue"}
  <1>1. \A s : Honest(s) => LET o == newEvalDatasetCaseQueueActionResponse(s)
                            IN  /\ Sound(o) /\ (s.open > 0 => Opens(o) /\ o # NoOffer)
                                /\ ~(s.open > 0) => o = NoOffer
    <2> SUFFICES ASSUME NEW s, Honest(s)
                 PROVE  /\ Sound(newEvalDatasetCaseQueueActionResponse(s))
                        /\ s.open > 0 => Opens(newEvalDatasetCaseQueueActionResponse(s))
                                         /\ newEvalDatasetCaseQueueActionResponse(s) # NoOffer
                        /\ ~(s.open > 0) => newEvalDatasetCaseQueueActionResponse(s) = NoOffer
      OBVIOUS
    <2>1. s.open \in Nat
      BY DEF Honest
    <2>2. Sound(newEvalDatasetCaseQueueActionResponse(s))
      BY SoundOffers
    <2>3. Opens(OpenLatestOrQueue(s)) /\ ~Opens(NoOffer)
      BY DEF OpenLatestOrQueue, Offer, NoOffer
    <2>4. OpenLatestOrQueue(s) # NoOffer
      BY <2>3
    <2> HIDE DEF Opens
    <2> QED BY <2>1, <2>2, <2>3, <2>4 DEF newEvalDatasetCaseQueueActionResponse
  <1>2. ~Opens(three) /\ ~Opens(NoOffer) /\ ~Opens(Offer("open_report", NoCase)) /\ ~Opens(Offer("open_run", NoCase))
    BY DEF newEvalDatasetFollowUpActionResponse, NoOffer, Offer
  <1>3. \A o : ~Opens(o) => Sound(o)
    BY DEF Sound
  <1>4. /\ one # NoOffer => all = one
        /\ one = NoOffer /\ two # NoOffer => all = two
        /\ one = NoOffer /\ two = NoOffer =>
              all = three \/ all = NoOffer \/ all = Offer("open_report", NoCase) \/ all = Offer("open_run", NoCase)
    BY DEF newEvalDatasetPrimaryActionResponse
  <1>5. /\ Sound(one) /\ (row.queue.open > 0 => Opens(one) /\ one # NoOffer) /\ (~(row.queue.open > 0) => one = NoOffer)
        /\ Sound(two) /\ (row.linked.open > 0 => Opens(two) /\ two # NoOffer) /\ (~(row.linked.open > 0) => two = NoOffer)
    BY <1>1
  <1> HIDE DEF one, two, three, all, Opens
  <1>6. Sound(all) /\ (Opens(all) <=> row.queue.open > 0 \/ row.linked.open > 0)
    BY <1>2, <1>3, <1>4, <1>5
  <1> QED BY <1>6 DEF all, Opens

\* The offers for a row that shows what is true of it.
LEMMA TrueRowOffers ==
    ASSUME TypesOK, ask.kind \in TruthKinds, NEW row, RowTrue(row), row.id \in Keys(TableOf(ask))
    PROVE  /\ \A offer \in CheckedOffers(row) : Sound(offer)
           /\ ask.kind = "reports" =>
                 /\ newEvalReportPrimaryActionResponse(row.linked).mode = "create" => ~OpenOfReport(row.id)
                 /\ newEvalReportFollowUpActionResponse(row.linked).mode = "create" <=> ~OpenOfReport(row.id)
                 /\ newEvalReportCompareFollowUpActionResponse(row.compare).mode = "create" <=> ~OpenOfCompare(row.id)
                 /\ newEvalReportBadCaseQueueActionResponse(row.uncovered) = NoOffer <=>
                       \A e \in BadCases[row.id] : OpenOfEvalCase(e)
           /\ ask.kind = "evalCases" =>
                 (newEvalReportFollowUpActionResponse(row.linked).mode = "create" <=> ~OpenOfEvalCase(row.id))
  <1>0. cases \in Seq(Cases)
    BY DEF TypesOK, TypeOK, StoresOK
  <1>1. row.linked = LinkedOf(row.id) /\ row.compare = CompareOf(row.id)
    BY DEF RowTrue, LinkedTrue, CompareTrue
  <1>2. Honest(row.linked) /\ Honest(row.compare)
    BY <1>0, <1>1, HonestRead, HonestSummary DEF LinkedOf, CompareOf
  <1>3. /\ ask.kind = "reports" => (row.linked.open > 0 <=> OpenOfReport(row.id))
                                   /\ (row.compare.open > 0 <=> OpenOfCompare(row.id))
        /\ ask.kind = "evalCases" => (row.linked.open > 0 <=> OpenOfEvalCase(row.id))
    BY <1>0, <1>1, HonestRead DEF LinkedOf, CompareOf
  <1>4. \A offer \in CheckedOffers(row) : Sound(offer)
    <2>1. /\ Sound(newEvalReportLinkedCaseActionResponse(row.linked))
          /\ Sound(newEvalReportComparePrimaryActionResponse(row.linked, row.compare))
          /\ Sound(newEvalReportBadCaseLinkedCaseActionResponse(row.linked))
          /\ Sound(newEvalRunListPrimaryActionResponse(row.linked, row.hasReport))
      BY <1>2, SoundOffers
    <2> QED BY <2>1 DEF CheckedOffers, TruthKinds
  <1>5. ASSUME ask.kind = "reports"
        PROVE  newEvalReportBadCaseQueueActionResponse(row.uncovered) = NoOffer <=>
                   \A e \in BadCases[row.id] : OpenOfEvalCase(e)
    <2>1. PICK U : U = Uncovered(cases, BadCases[row.id])
      OBVIOUS
    <2>2. row.uncovered = Cardinality(U)
      BY <1>5, <2>1 DEF RowTrue, UncoveredTrue, UncoveredOf
    <2>3. row.id \in Runs
      BY <1>5 DEF TableOf, Keys
    <2>4. IsFiniteSet(U)
      <3>1. IsFiniteSet(BadCases[row.id])
        BY <2>3, ConstantsAssumption
      <3>2. U \subseteq BadCases[row.id]
        BY <2>1 DEF Uncovered
      <3> QED BY <3>1, <3>2, FS_Subset
    <2>5. Cardinality(U) \in Nat /\ (Cardinality(U) = 0 <=> U = {})
      BY <2>4, FS_CardinalityType, FS_EmptySet
    <2>6. newEvalReportBadCaseQueueActionResponse(row.uncovered) = NoOffer <=> U = {}
      <3>1. Offer("open_existing_queue", NoCase) # NoOffer
        BY DEF Offer, NoOffer
      <3> QED BY <2>2, <2>5, <3>1 DEF newEvalReportBadCaseQueueActionResponse
    <2>7. \A e : SummarizeBySourceEvalCaseIDs(cases, e).open = 0 <=> ~OpenOfEvalCase(e)
      <3> SUFFICES ASSUME NEW e PROVE SummarizeBySourceEvalCaseIDs(cases, e).open = 0 <=> ~OpenOfEvalCase(e)
        OBVIOUS
      <3>1. PICK n : n = SummarizeBySourceEvalCaseIDs(cases, e).open
        OBVIOUS
      <3>2. n \in Nat /\ (n > 0 <=> OpenOfEvalCase(e))
        BY <1>0, <3>1, HonestRead DEF Honest
      <3> QED BY <3>1, <3>2
    <2>8. U = {} <=> \A e \in BadCases[row.id] : OpenOfEvalCase(e)
      BY <2>1, <2>7 DEF Uncovered
    <2> QED BY <2>6, <2>8
  <1>6. /\ newEvalReportFollowUpActionResponse(row.linked).mode = "create" <=> ~(row.linked.open > 0)
        /\ newEvalReportPrimaryActionResponse(row.linked).mode = "create" => ~(row.linked.open > 0)
        /\ newEvalReportCompareFollowUpActionResponse(row.compare).mode = "create" <=> ~(row.compare.open > 0)
    BY <1>2, SoundOffers
  <1> QED BY <1>3, <1>4, <1>5, <1>6

\* The offers for a candidate of the dataset board.
LEMMA CandidateOffers ==
    ASSUME TypesOK, IdsInv, ListedIds, DatasetInv, pc = "done", ask.kind = "datasets", ~stale,
           NEW j \in DOMAIN matched, NEW row, row = matched[j]
    PROVE  /\ \A offer \in CheckedOffers(row) : Sound(offer)
           /\ touched.reports = {} =>
                 (newEvalDatasetPrimaryActionResponse(row).mode \in
                        {"open_existing_case", "open_existing_queue"} <=> OpenOfDataset(row.id))
  <1>0. cases \in Seq(Cases) /\ StoresOK /\ "none" \notin Runs
    BY ConstantsAssumption DEF TypesOK, TypeOK, StoresOK
  <1>1. PICK d \in Datasets : d = row.id
    BY DEF TypesOK, RowsOfTable
  <1>2. d \in Targets
    BY <1>1 DEF Targets
  <1>3. CandidateTrue(row)
    BY DEF DatasetInv
  <1>4. /\ row.hasReport => row.latest \in Runs /\ DatasetOf[row.latest] = d
        /\ \/ row.linked = NoSummary
           \/ row.hasReport /\ row.linked = SummarizeBySourceEvalReportIDs(cases, row.latest)
        /\ \/ row.backed = NoSummary
           \/ row.backed = SummarizeBySourceEvalRunIDs(cases, row.latest)
        /\ row.queue = QueueShown(d)
    BY <1>1, <1>3 DEF CandidateTrue
  <1>5. PICK H : H = ListedCases(d)
    OBVIOUS
  <1>6. /\ row.queue.total \in Nat /\ row.queue.open \in Nat
        /\ row.queue.open > 0 <=> OpenCases(cases, H) # {}
        /\ H # {} => /\ First(H) \in H
                     /\ row.queue.latest = cases[First(H)].id /\ row.queue.status = cases[First(H)].status
        /\ H = {} => row.queue = NoSummary
    BY <1>4, <1>5, CountedFacts
  <1>7. Honest(row.queue)
    <2>1. CASE H = {}
      BY <1>0, <1>6, <2>1, HonestSummary
    <2>2. CASE H # {}
      <3>1. First(H) \in DOMAIN cases
        BY <1>5, <1>6, <2>2 DEF ListedCases
      <3> QED BY <1>6, <2>2, <3>1 DEF Honest, IsOpen
    <2> QED BY <2>1, <2>2
  <1>8. Honest(row.linked) /\ Honest(row.backed)
    BY <1>0, <1>4, HonestRead, HonestSummary
  <1>9. \A offer \in CheckedOffers(row) : Sound(offer)
    <2>1. Sound(newEvalDatasetPrimaryActionResponse(row))
      BY <1>7, <1>8, DatasetOffers
    <2>2. Sound(newEvalDatasetCaseQueueActionResponse(row.backed))
      BY <1>8, SoundOffers
    <2> QED BY <2>1, <2>2 DEF CheckedOffers
  <1>10. ASSUME touched.reports = {} PROVE row.queue.open > 0 \/ row.linked.open > 0 <=> OpenOfDataset(d)
    <2>1. H = QueueOf(d, Untouched("reports"))
      <3>1. (ask.kind = "datasets" /\ d \in Targets) \/ (ask.kind = "caseQueue" /\ d = ask.dataset)
        BY <1>2
      <3> QED BY <1>5, <1>10, <3>1, SettledCases
    <2>2. \A i \in DOMAIN cases : cases[i].report # "none" => cases[i].report \in Range(table.reports)
      BY <1>0 DEF StoresOK, Exists
    <2>3. Range(table.reports) \subseteq Runs
      <3>1. table.reports \in Seq(Runs)
        BY <1>0, TablesTyped
      <3> QED BY <3>1 DEF Range
    <2>4. OpenOfDataset(d) <=> OpenCases(cases, H) # {}
      BY <1>0, <1>10, <2>1, <2>2, <2>3 DEF OpenOfDataset, OpenCases, QueueOf, Untouched
    <2>5. row.linked.open > 0 => OpenOfDataset(d)
      <3>1. NoSummary.open = 0
        BY DEF NoSummary
      <3>2. row.linked.open > 0 => row.hasReport /\ OpenOfReport(row.latest)
        <4>1. CASE row.linked = NoSummary
          BY <3>1, <4>1
        <4>2. CASE row.hasReport /\ row.linked = SummarizeBySourceEvalReportIDs(cases, row.latest)
          BY <1>0, <4>2, HonestRead
        <4> QED BY <1>4, <4>1, <4>2
      <3> QED BY <1>0, <1>4, <3>2 DEF OpenOfReport, OpenOfDataset
    <2> QED BY <1>6, <2>4, <2>5
  <1>11. newEvalDatasetPrimaryActionResponse(row).mode \in {"open_existing_case", "open_existing_queue"}
            <=> row.queue.open > 0 \/ row.linked.open > 0
    BY <1>7, <1>8, DatasetOffers
  <1> QED BY <1>1, <1>9, <1>10, <1>11

\* The offers of the boards agree with the case table: with no case written since
\* the request began, the case of a linked-case, run or dataset offer is open,
\* and "create" is offered where the source has no open case and only there.
\* Whether the offered creation then works is not part of it.
THEOREM OffersMatched == Spec => []OffersMatchCases
  <1> DEFINE Inv == /\ TypesOK /\ NewestInv /\ IdsInv /\ ListedIds /\ DatasetInv /\ TruthInv /\ RespInv
  <1>1. Init => Inv
    <2>1. Init => NewestInv /\ IdsInv /\ ListedIds /\ DatasetInv /\ RespInv
      BY DEF Init, NoAsk, Ask, NewestInv, IdsInv, DatasetIds, QueueIds, ListedIds, DatasetInv, RespInv
    <2> QED BY <2>1, TypesInit, TruthInit
  <1>2. Inv /\ [Next]_vars => Inv'
    BY TypesStep, NewestStep, IdsStep, ListedIdsStep, DatasetStep, TruthStep, RespStep
  <1>3. Inv => OffersMatchCases
    <2> SUFFICES ASSUME Inv, Done({"reports", "runs", "run", "evalCases", "datasets"}), ~stale,
                        NEW i \in DOMAIN resp.rows, NEW row, row = resp.rows[i]
                 PROVE  /\ \A offer \in CheckedOffers(row) : Sound(offer)
                        /\ ask.kind = "reports" =>
                              /\ newEvalReportPrimaryActionResponse(row.linked).mode = "create" => ~OpenOfReport(row.id)
                              /\ newEvalReportFollowUpActionResponse(row.linked).mode = "create" <=> ~OpenOfReport(row.id)
                              /\ newEvalReportCompareFollowUpActionResponse(row.compare).mode = "create" <=>
                                    ~OpenOfCompare(row.id)
                              /\ newEvalReportBadCaseQueueActionResponse(row.uncovered) = NoOffer <=>
                                    \A e \in BadCases[row.id] : OpenOfEvalCase(e)
                        /\ ask.kind = "evalCases" =>
                              (newEvalReportFollowUpActionResponse(row.linked).mode = "create" <=> ~OpenOfEvalCase(row.id))
                        /\ ask.kind = "datasets" /\ touched.reports = {} =>
                              (newEvalDatasetPrimaryActionResponse(row).mode \in
                                    {"open_existing_case", "open_existing_queue"} <=> OpenOfDataset(row.id))
      BY DEF OffersMatchCases, Sound
    <2>1. pc = "done" /\ ask.kind \in {"reports", "runs", "run", "evalCases", "datasets"}
      BY DEF Done
    <2>2. PICK j \in DOMAIN matched : row = matched[j]
      BY <2>1 DEF RespInv
    <2>3. CASE ask.kind = "datasets"
      BY <2>1, <2>2, <2>3, CandidateOffers
    <2>4. CASE ask.kind # "datasets"
      <3>1. ask.kind \in TruthKinds
        BY <2>1, <2>4 DEF TruthKinds
      <3>2. RowTrue(row)
        BY <2>2, <3>1 DEF TruthInv
      <3>3. row.id \in Keys(TableOf(ask))
        BY <2>2, <3>1 DEF TypesOK, RowsOfTable, RowKinds, TruthKinds
      <3> QED BY <2>4, <3>1, <3>2, <3>3, TrueRowOffers
    <2> QED BY <2>3, <2>4
  <1> QED BY <1>1, <1>2, <1>3, PTL DEF Spec

(***************************************************************************)
(* The pages of a listing during which nothing is written.                 *)
(***************************************************************************)

LEMMA RowEqual ==
    ASSUME NEW r \in Row, NEW s \in Row, r.id = s.id, r.linked = s.linked, r.compare = s.compare,
           r.queue = s.queue, r.backed = s.backed, r.uncovered = s.uncovered, r.latest = s.latest,
           r.final <=> s.final, r.hasReport <=> s.hasReport
    PROVE  r = s
  <1>1. r.final = s.final /\ r.hasReport = s.hasReport
    BY DEF Row
  <1> QED BY <1>1 DEF Row

\* The fields of a row as it is in truth.
TrueAt(row, key) ==
    /\ row \in Row /\ row.id = key /\ row.linked = LinkedOf(key) /\ row.compare = CompareOf(key)
    /\ row.uncovered = UncoveredOf(key) /\ PlainRow(row)
    /\ row.final <=> key \in finished
    /\ row.hasReport <=> ask.kind \in {"runs", "run"} /\ key \in finished /\ Key("reports", key)

LEMMA TrueRowFacts ==
    ASSUME TypesOK, ask.kind \in TruthKinds, NEW key \in Keys(TableOf(ask))
    PROVE  TrueAt(TrueRow(ask.kind, key), key)
  <1>0. cases \in Seq(Cases) /\ finished \in SUBSET Runs
    BY DEF TypesOK, TypeOK, StoresOK
  <1>1. key \in AllKeys /\ (ask.kind # "evalCases" => key \in Runs)
    BY DEF TruthKinds, TableOf, Keys, AllKeys
  <1>2. PICK n \in Row : n = NewRow(key)
    BY <1>1, NewRowFacts
  <1>3. /\ n.id = key /\ n.latest = "none" /\ n.linked = NoSummary /\ n.compare = NoSummary
        /\ n.queue = NoSummary /\ n.backed = NoSummary /\ n.uncovered = 0
    BY <1>2, NewRowFields
  <1>4. (n.final <=> key \in finished) /\ ~n.hasReport
    <2>1. n.final <=> key \in finished
      BY <1>2, NewRowFinal
    <2>2. n.hasReport = FALSE
      BY <1>2, NewRowEmpty
    <2> QED BY <2>1, <2>2
  <1>5. /\ \A x : SummarizeBySourceEvalReportIDs(cases, x) \in Summaries
        /\ \A x : SummarizeCompareOriginBySourceEvalReportIDs(cases, x) \in Summaries
        /\ \A x : SummarizeBySourceEvalCaseIDs(cases, x) \in Summaries
        /\ \A x : SummarizeBySourceEvalRunIDs(cases, x) \in Summaries
        /\ \A r \in Runs : Cardinality(Uncovered(cases, BadCases[r])) \in Nat
        /\ Cardinality(Uncovered(cases, {})) \in Nat
    BY <1>0, ReadTypes
  <1>6. CASE ask.kind = "reports"
    <2>1. PICK l \in Summaries : l = SummarizeBySourceEvalReportIDs(cases, key)
      BY <1>5
    <2>2. PICK c \in Summaries : c = SummarizeCompareOriginBySourceEvalReportIDs(cases, key)
      BY <1>5
    <2>3. PICK u \in Nat : u = Cardinality(Uncovered(cases, BadCases[key]))
      BY <1>1, <1>5, <1>6
    <2>4. PICK t : t = [n EXCEPT !.linked = l, !.compare = c, !.uncovered = u]
      OBVIOUS
    <2>5. TrueRow(ask.kind, key) = t
      BY <1>2, <1>6, <2>1, <2>2, <2>3, <2>4 DEF TrueRow, ReportRow
    <2>6. /\ t \in Row /\ t.id = n.id /\ t.linked = l /\ t.compare = c /\ t.uncovered = u
          /\ t.queue = n.queue /\ t.backed = n.backed /\ t.latest = n.latest
          /\ (t.final <=> n.final) /\ (t.hasReport <=> n.hasReport)
      BY <2>4 DEF Row
    <2>7. LinkedOf(key) = l /\ CompareOf(key) = c /\ UncoveredOf(key) = u
      BY <1>6, <2>1, <2>2, <2>3 DEF LinkedOf, CompareOf, UncoveredOf
    <2> QED BY <1>3, <1>4, <1>6, <2>5, <2>6, <2>7 DEF TrueAt, PlainRow
  <1>7. CASE ask.kind = "evalCases"
    <2>1. PICK l \in Summaries : l = SummarizeBySourceEvalCaseIDs(cases, key)
      BY <1>5
    <2>4. PICK t : t = [n EXCEPT !.linked = l]
      OBVIOUS
    <2>5. TrueRow(ask.kind, key) = t
      BY <1>2, <1>7, <2>1, <2>4 DEF TrueRow, EvalCaseRow
    <2>6. /\ t \in Row /\ t.id = n.id /\ t.linked = l /\ t.compare = n.compare /\ t.uncovered = n.uncovered
          /\ t.queue = n.queue /\ t.backed = n.backed /\ t.latest = n.latest
          /\ (t.final <=> n.final) /\ (t.hasReport <=> n.hasReport)
      BY <2>4 DEF Row
    <2>7. LinkedOf(key) = l /\ CompareOf(key) = NoSummary /\ UncoveredOf(key) = 0
      BY <1>7, <2>1 DEF LinkedOf, CompareOf, UncoveredOf
    <2> QED BY <1>3, <1>4, <1>7, <2>5, <2>6, <2>7 DEF TrueAt, PlainRow
  <1>8. CASE ask.kind \in {"runs", "run"}
    <2>1. PICK l \in Summaries : l = SummarizeBySourceEvalRunIDs(cases, key)
      BY <1>5
    <2>2. PICK h \in BOOLEAN : h = (key \in finished /\ Key("reports", key))
      OBVIOUS
    <2>3. PICK u \in Nat : u = Cardinality(Uncovered(cases, FailedItems(key)))
      BY <1>1, <1>5, <1>8 DEF FailedItems
    <2>4. PICK t : t = [n EXCEPT !.linked = l, !.uncovered = u, !.hasReport = h]
      OBVIOUS
    <2>5. TrueRow(ask.kind, key) = t
      BY <1>2, <1>8, <2>1, <2>2, <2>3, <2>4 DEF TrueRow, RunRow
    <2>6. /\ t \in Row /\ t.id = n.id /\ t.linked = l /\ t.compare = n.compare /\ t.uncovered = u
          /\ t.queue = n.queue /\ t.backed = n.backed /\ t.latest = n.latest
          /\ (t.final <=> n.final) /\ (t.hasReport <=> h)
      BY <2>4 DEF Row
    <2>7. LinkedOf(key) = l /\ CompareOf(key) = NoSummary /\ UncoveredOf(key) = u
      BY <1>8, <2>1, <2>3 DEF LinkedOf, CompareOf, UncoveredOf
    <2> QED BY <1>3, <1>4, <1>8, <2>2, <2>5, <2>6, <2>7 DEF TrueAt, PlainRow
  <1> QED BY <1>6, <1>7, <1>8 DEF TruthKinds

\* A row is read as it is in truth.
LEMMA TrueRowIs ==
    ASSUME TypesOK, ask.kind \in TruthKinds, Unwritten, NEW row \in Row, row.id \in Keys(TableOf(ask)), RowTrue(row)
    PROVE  row = TrueRow(ask.kind, row.id)
  <1>1. PICK t : t = TrueRow(ask.kind, row.id)
    OBVIOUS
  <1>2. TrueAt(t, row.id)
    BY <1>1, TrueRowFacts
  <1>3. touched.runs = {} /\ touched.reports = {}
    BY DEF Unwritten, Tables
  <1>4. /\ row.linked = LinkedOf(row.id) /\ row.compare = CompareOf(row.id) /\ row.uncovered = UncoveredOf(row.id)
        /\ PlainRow(row) /\ (row.final <=> row.id \in finished)
        /\ (row.hasReport <=> ask.kind \in {"runs", "run"} /\ row.id \in finished /\ Key("reports", row.id))
    BY <1>3 DEF RowTrue, LinkedTrue, CompareTrue, UncoveredTrue, FinalTrue, ReportTrue
  <1>5. row = t
    BY <1>2, <1>4, RowEqual DEF TrueAt, PlainRow
  <1> QED BY <1>1, <1>5

----------------------------------------------------------------------------
(* Filtering page by page.                                                 *)

LEMMA SameSeq ==
    ASSUME NEW S, NEW s \in Seq(S), NEW t \in Seq(S), Len(s) = Len(t), \A i \in 1..Len(s) : s[i] = t[i]
    PROVE  s = t
  OBVIOUS

\* The rows up to position a that match.
MatchingUpTo(q, list, a) == Picked(list, {i \in DOMAIN list : i <= a /\ Matches(q, list[i])})

\* The part of a list from a to b.
PartOf(S, list, a, b) == list \in Seq(S) /\ a \in Nat /\ b \in Nat /\ a <= b /\ b <= Len(list)

LEMMA MatchingGrows ==
    ASSUME NEW q, NEW S, NEW list, NEW a, NEW b, PartOf(S, list, a, b)
    PROVE  MatchingUpTo(q, list, b) = MatchingUpTo(q, list, a) \o Matching(q, SubSeq(list, a + 1, b))
  <1> DEFINE part == SubSeq(list, a + 1, b)
             I == {i \in DOMAIN list : i <= a /\ Matches(q, list[i])}
             J == {i \in DOMAIN list : a < i /\ i <= b /\ Matches(q, list[i])}
             JJ == {i \in DOMAIN part : Matches(q, part[i])}
             U == {i \in DOMAIN list : i <= b /\ Matches(q, list[i])}
  <1> USE DEF PartOf
  <1>0. DOMAIN list = 1..Len(list) /\ Len(list) \in Nat
    OBVIOUS
  <1>1. DOMAIN part = 1..(b - a) /\ \A x \in 1..(b - a) : part[x] = list[x + a]
    OBVIOUS
  <1> HIDE DEF part
  <1>2. Consecutive(a, b, I, J, JJ, U)
    <2>1. U = I \cup J
      <3>1. \A i \in DOMAIN list : i \in Int
        BY <1>0
      <3>2. \A i \in DOMAIN list : i <= b <=> (i <= a \/ (a < i /\ i <= b))
        BY <3>1
      <3> QED BY <3>2
    <2>2. I \subseteq 1..a /\ J \subseteq (a + 1)..b
      BY <1>0
    <2>3. JJ \subseteq 1..(b - a)
      BY <1>1
    <2>4. ASSUME NEW i \in 1..(b - a) PROVE i \in JJ <=> i + a \in J
      <3>1. i + a \in DOMAIN list /\ a < i + a /\ i + a <= b
        BY <1>0
      <3> QED BY <1>1, <3>1
    <2> QED BY <2>1, <2>2, <2>3, <2>4 DEF Consecutive
  <1>3. Picked(list, U) = Picked(list, I) \o Picked(part, JJ)
    <2> HIDE DEF I, J, JJ, U
    <2> QED BY <1>2, PickedAppend DEF part
  <1> QED BY <1>3 DEF MatchingUpTo, Matching, part

LEMMA MatchingWhole ==
    ASSUME NEW q, NEW S, NEW list \in Seq(S)
    PROVE  MatchingUpTo(q, list, Len(list)) = Matching(q, list)
  <1>1. \A i \in DOMAIN list : i <= Len(list)
    OBVIOUS
  <1>2. {i \in DOMAIN list : i <= Len(list) /\ Matches(q, list[i])} = {i \in DOMAIN list : Matches(q, list[i])}
    BY <1>1
  <1> QED BY <1>2 DEF MatchingUpTo, Matching

LEMMA MatchingStart ==
    ASSUME NEW q, NEW list, \A i \in DOMAIN list : ~(i <= 0)
    PROVE  MatchingUpTo(q, list, 0) = <<>>
  <1>1. {i \in DOMAIN list : i <= 0 /\ Matches(q, list[i])} = {}
    OBVIOUS
  <1> DEFINE f == [n \in 1..0 |-> list[Nth({}, n)]]
  <1>2. Picked(list, {}) = f
    BY FS_EmptySet DEF Picked
  <1>3. f \in Seq({}) /\ Len(f) = 0
    <2>1. f = [n \in 1..0 |-> f[n]] /\ \A n \in 1..0 : f[n] \in {}
      OBVIOUS
    <2> HIDE DEF f
    <2> QED BY <2>1, IsSeq
  <1> HIDE DEF f
  <1>4. f = <<>>
    BY <1>3, EmptySeq
  <1> QED BY <1>1, <1>2, <1>4 DEF MatchingUpTo

LEMMA MatchingSeq ==
    ASSUME NEW q, NEW S, NEW list \in Seq(S), NEW a
    PROVE  MatchingUpTo(q, list, a) \in Seq(S) /\ Matching(q, list) \in Seq(S)
  <1>1. {i \in DOMAIN list : i <= a /\ Matches(q, list[i])} \in SUBSET DOMAIN list
    OBVIOUS
  <1>2. {i \in DOMAIN list : Matches(q, list[i])} \in SUBSET DOMAIN list
    OBVIOUS
  <1> QED BY <1>1, <1>2, PickedFacts DEF MatchingUpTo, Matching

\* A listing without a filter shows every row.
LEMMA MatchingAll ==
    ASSUME NEW q, ~Filtered(q), NEW list \in Seq(Row)
    PROVE  Matching(q, list) = list
  <1>1. \A row \in Row : Matches(q, row)
    <2> SUFFICES ASSUME NEW row \in Row PROVE Matches(q, row)
      OBVIOUS
    <2>1. (row.linked.open > 0) \in BOOLEAN /\ (row.uncovered > 0) \in BOOLEAN
      OBVIOUS
    <2>2. q.needs = BOOLEAN /\ q.bad = BOOLEAN
      BY DEF Filtered
    <2> QED BY <2>1, <2>2 DEF Matches
  <1>2. {i \in DOMAIN list : Matches(q, list[i])} = DOMAIN list
    <2>1. \A i \in DOMAIN list : list[i] \in Row
      OBVIOUS
    <2> QED BY <1>1, <2>1
  <1> QED BY <1>2, PickedAll DEF Matching

\* A page that is followed by a further row does not depend on what comes behind.
Continued(S, list, tail, o) == list \in Seq(S) /\ tail \in Seq(S) /\ o \in Nat /\ Len(list) > o + Limit

LEMMA PagePrefix ==
    ASSUME NEW S, NEW list, NEW tail, NEW o, Continued(S, list, tail, o)
    PROVE  Page(list \o tail, o, Limit) = Page(list, o, Limit)
  <1> USE DEF Continued
  <1> DEFINE whole == list \o tail
             b == o + Limit
  <1>0. Limit \in Nat
    BY ConstantsAssumption
  <1>1. whole \in Seq(S) /\ Len(whole) = Len(list) + Len(tail) /\ \A i \in 1..Len(list) : whole[i] = list[i]
    OBVIOUS
  <1>2. Len(whole) > b /\ Len(tail) \in Nat /\ Len(list) \in Nat
    BY <1>0, <1>1
  <1>3. Least(Len(whole), b) = b /\ Least(Len(list), b) = b
    BY <1>0, <1>1, <1>2 DEF Least
  <1> HIDE DEF whole
  <1>4. SubSeq(whole, o + 1, b) = SubSeq(list, o + 1, b)
    <2> DEFINE s == SubSeq(whole, o + 1, b)
               t == SubSeq(list, o + 1, b)
    <2>1. /\ s \in Seq(S) /\ Len(s) = b - o /\ \A i \in 1..(b - o) : s[i] = whole[i + o]
      <3>1. whole \in Seq(S) /\ b \in Nat /\ b <= Len(whole) /\ o <= b
        BY <1>0, <1>1, <1>2
      <3> HIDE DEF b
      <3> QED BY <3>1
    <2>2. /\ t \in Seq(S) /\ Len(t) = b - o /\ \A i \in 1..(b - o) : t[i] = list[i + o]
      BY <1>0, <1>1, <1>2
    <2>3. \A i \in 1..(b - o) : i + o \in 1..Len(list)
      BY <1>0, <1>1, <1>2
    <2> HIDE DEF s, t, b
    <2>4. s = t
      BY <2>1, <2>2, <2>3, <1>1, SameSeq
    <2> QED BY <2>4 DEF s, t
  <1>5. (Len(whole) > b) = (Len(list) > b)
    BY <1>2
  <1> QED BY <1>3, <1>4, <1>5 DEF Page, whole

\* full is the page p of a list, taken from another list of the same length.
PageImage(S, T, list, image, a, l, p, full) ==
    /\ list \in Seq(S) /\ image \in Seq(T) /\ Len(image) = Len(list) /\ a \in Nat /\ l \in Nat
    /\ p = Page(list, a, l) /\ full \in Seq(T) /\ DOMAIN full = DOMAIN p.rows
    /\ \A i \in DOMAIN full : full[i] = image[a + i]

LEMMA PageOfImage ==
    ASSUME NEW S, NEW T, NEW list, NEW image, NEW a, NEW l, NEW p, NEW full,
           PageImage(S, T, list, image, a, l, p, full)
    PROVE  /\ full = Page(image, a, l).rows
           /\ p.more <=> Page(image, a, l).more
           /\ p.next = Page(image, a, l).next
  <1> USE DEF PageImage
  <1>1. PICK r : r = Page(image, a, l)
    OBVIOUS
  <1>2. PageOf(S, list, a, l, p) /\ PageOf(T, image, a, l, r)
    BY <1>1 DEF PageOf
  <1>a. PageOf(S, list, a, l, p)
    BY <1>2
  <1>b. PageOf(T, image, a, l, r)
    BY <1>2
  <1>3. /\ DOMAIN p.rows = 1..Len(p.rows) /\ Len(p.rows) \in Nat
        /\ p.more <=> Len(list) > a + l
        /\ p.next = a + l
        /\ \A i \in DOMAIN p.rows : a + i \in DOMAIN list /\ p.rows[i] = list[a + i]
    BY ONLY <1>a, PageIs
  <1>4. /\ r.rows \in Seq(T) /\ DOMAIN r.rows = 1..Len(r.rows) /\ Len(r.rows) \in Nat
        /\ r.more <=> Len(image) > a + l
        /\ r.next = a + l
        /\ \A i \in DOMAIN r.rows : a + i \in DOMAIN image /\ r.rows[i] = image[a + i]
    BY ONLY <1>b, PageIs
  <1>5. Len(p.rows) = Len(r.rows)
    <2>1. PICK b \in Nat : b = Least(Len(list), a + l) /\ b <= Len(list)
      BY DEF Least
    <2>2. p.rows = SubSeq(list, a + 1, b) /\ r.rows = SubSeq(image, a + 1, b)
      BY <1>a, <1>b, <2>1 DEF PageOf, Page
    <2>3. Len(SubSeq(list, a + 1, b)) = (IF a + 1 <= b THEN b - (a + 1) + 1 ELSE 0)
      BY <2>1
    <2>4. Len(SubSeq(image, a + 1, b)) = (IF a + 1 <= b THEN b - (a + 1) + 1 ELSE 0)
      BY <2>1
    <2> QED BY <2>2, <2>3, <2>4
  <1>6. Len(full) = Len(r.rows)
    <2>1. DOMAIN full = 1..Len(full) /\ Len(full) \in Nat
      OBVIOUS
    <2> QED BY <1>3, <1>4, <1>5, <2>1
  <1>7. \A i \in 1..Len(full) : full[i] = r.rows[i]
    <2> SUFFICES ASSUME NEW i \in 1..Len(full) PROVE full[i] = r.rows[i]
      OBVIOUS
    <2>1. i \in DOMAIN full /\ i \in DOMAIN r.rows /\ i \in DOMAIN p.rows
      BY <1>4, <1>6
    <2> QED BY <1>3, <1>4, <2>1
  <1>8. full = r.rows
    BY <1>4, <1>6, <1>7, SameSeq
  <1> QED BY <1>1, <1>3, <1>4, <1>8

----------------------------------------------------------------------------
(* What a scan has gathered while nothing is written.                      *)

\* The rows of the listing that is asked for, as they are in truth.
AllRows == TrueRows(ask.kind, table[ask.kind])

\* The rows of a list are about these keys.
RowsAbout(list, keys) == DOMAIN list = DOMAIN keys /\ \A i \in DOMAIN keys : list[i].id = keys[i]

\* A filtered scan has gathered the matches up to its offset, another nothing.
ScanExact ==
    IF Filtered(ask) THEN at <= Len(table[ask.kind]) /\ matched = MatchingUpTo(ask, AllRows, at)
    ELSE matched = <<>> /\ at = ask.offset

ListShown ==
    LET exact == Page(Matching(ask, AllRows), ask.offset, Limit)
    IN  resp.rows = exact.rows /\ resp.more = exact.more /\ (exact.more => resp.next = exact.next)

KeysShown ==
    resp.rows = IF Range(ask.keys) \subseteq Range(table[TableOf(ask)])
                THEN TrueRows(ask.kind, ask.keys) ELSE <<>>

Listing == ask.kind \in Listings /\ ask.keys = <<>>

Lookup == ask.kind \in Listings \cup {"run"} /\ ask.keys # <<>>

ExactListing ==
    /\ pc \in {"list"} \cup PagePcs => ScanExact
    /\ pc \in PagePcs => page = Page(table[ask.kind], at, ScanLimit(ask)) /\ RowsAbout(rows, page.rows)
    /\ pc = "done" => ListShown

ExactLookup ==
    /\ pc \in {"get"} \cup PagePcs => matched = <<>>
    /\ pc \in PagePcs => Range(ask.keys) \subseteq Range(table[TableOf(ask)]) /\ RowsAbout(rows, ask.keys)
    /\ pc = "done" => KeysShown

\* Without writes, a request has exactly what it has read so far.
ExactInv == Unwritten => (Listing => ExactListing) /\ (Lookup => ExactLookup)

LEMMA TrueRowsFacts ==
    ASSUME TypesOK, ask.kind \in TruthKinds, NEW keys \in Seq(Keys(TableOf(ask)))
    PROVE  /\ TrueRows(ask.kind, keys) \in Seq(Row) /\ Len(TrueRows(ask.kind, keys)) = Len(keys)
           /\ DOMAIN TrueRows(ask.kind, keys) = DOMAIN keys
           /\ \A i \in DOMAIN keys : TrueRows(ask.kind, keys)[i] = TrueRow(ask.kind, keys[i])
  <1> DEFINE f == TrueRows(ask.kind, keys)
  <1>1. DOMAIN keys = 1..Len(keys) /\ Len(keys) \in Nat
    OBVIOUS
  <1>2. \A i \in DOMAIN keys : TrueRow(ask.kind, keys[i]) \in Row
    <2>1. \A i \in DOMAIN keys : keys[i] \in Keys(TableOf(ask))
      OBVIOUS
    <2> QED BY <2>1, TrueRowFacts DEF TrueAt
  <1>3. f = [i \in DOMAIN keys |-> TrueRow(ask.kind, keys[i])]
    BY DEF TrueRows
  <1> HIDE DEF f
  <1>4. f \in Seq(Row) /\ Len(f) = Len(keys)
    BY <1>1, <1>2, <1>3, IsSeq
  <1> QED BY <1>3, <1>4 DEF f

LEMMA ListingTable ==
    ASSUME TypesOK, Listing
    PROVE  /\ ask.kind \in TruthKinds /\ ask.kind \in RowKinds /\ TableOf(ask) = ask.kind /\ ask.kind # "walk"
           /\ table[ask.kind] \in Seq(Keys(TableOf(ask))) /\ at \in Nat /\ ask.offset \in Nat
           /\ ScanLimit(ask) \in Nat \ {0} /\ (~Filtered(ask) => ScanLimit(ask) = Limit)
           /\ Keys(TableOf(ask)) \subseteq AllKeys
  <1>0. StoresOK /\ ReaderOK /\ AskOK(ask)
    BY DEF TypesOK, TypeOK, ReaderOK
  <1>1. ask.kind \in TruthKinds /\ ask.kind \in RowKinds /\ TableOf(ask) = ask.kind /\ ask.kind # "walk"
    BY DEF Listing, Listings, TruthKinds, RowKinds, TableOf
  <1>2. table[ask.kind] \in Seq(Keys(TableOf(ask))) /\ Keys(TableOf(ask)) \subseteq AllKeys
    BY <1>0, <1>1, TablesTyped
  <1>3. at \in Nat /\ ask.offset \in Nat
    BY <1>0 DEF ReaderOK, AskOK
  <1>4. ScanLimit(ask) \in Nat \ {0} /\ (~Filtered(ask) => ScanLimit(ask) = Limit)
    BY <1>0, ScanLimitNat DEF ScanLimit
  <1> QED BY <1>1, <1>2, <1>3, <1>4

LEMMA AllRowsFacts ==
    ASSUME TypesOK, Listing
    PROVE  /\ AllRows \in Seq(Row) /\ Len(AllRows) = Len(table[ask.kind])
           /\ DOMAIN AllRows = DOMAIN table[ask.kind]
           /\ \A i \in DOMAIN table[ask.kind] : AllRows[i] = TrueRow(ask.kind, table[ask.kind][i])
  <1>1. ask.kind \in TruthKinds /\ table[ask.kind] \in Seq(Keys(TableOf(ask)))
    BY ListingTable
  <1> QED BY <1>1, TrueRowsFacts DEF AllRows

\* A reader's step changes none of it.
LEMMA ExactFrame ==
    ASSUME UNCHANGED <<stores, ask>>
    PROVE  /\ AllRows' = AllRows /\ (Unwritten' <=> Unwritten) /\ (Listing' <=> Listing) /\ (Lookup' <=> Lookup)
           /\ TableOf(ask)' = TableOf(ask) /\ ask' = ask /\ table' = table /\ ScanLimit(ask)' = ScanLimit(ask)
           /\ (Filtered(ask)' <=> Filtered(ask))
           /\ TrueRows(ask.kind, ask.keys)' = TrueRows(ask.kind, ask.keys)
           /\ \A list, a : MatchingUpTo(ask, list, a)' = MatchingUpTo(ask, list, a)
           /\ \A list : Matching(ask, list)' = Matching(ask, list)
  <1>1. ask' = ask /\ cases' = cases /\ table' = table /\ finished' = finished /\ touched' = touched /\ stale' = stale
    BY DEF stores
  <1>2. \A keys : TrueRows(ask.kind, keys)' = TrueRows(ask.kind, keys)
    BY <1>1 DEF TrueRows, TrueRow, ReportRow, RunRow, EvalCaseRow, NewRow, FailedItems, Key
  <1>3. AllRows' = AllRows
    BY <1>1 DEF AllRows, TrueRows, TrueRow, ReportRow, RunRow, EvalCaseRow, NewRow, FailedItems, Key
  <1>4. TrueRows(ask.kind, ask.keys)' = TrueRows(ask.kind, ask.keys)
    BY <1>1 DEF TrueRows, TrueRow, ReportRow, RunRow, EvalCaseRow, NewRow, FailedItems, Key
  <1>5. /\ (Unwritten' <=> Unwritten) /\ (Listing' <=> Listing) /\ (Lookup' <=> Lookup)
        /\ TableOf(ask)' = TableOf(ask) /\ ScanLimit(ask)' = ScanLimit(ask)
        /\ (Filtered(ask)' <=> Filtered(ask))
    BY <1>1 DEF Unwritten, Listing, Lookup, TableOf, ScanLimit, Filtered
  <1>6. /\ \A list, a : MatchingUpTo(ask, list, a)' = MatchingUpTo(ask, list, a)
        /\ \A list : Matching(ask, list)' = Matching(ask, list)
    BY <1>1 DEF MatchingUpTo, Matching, Matches
  <1> QED BY <1>1, <1>3, <1>4, <1>5, <1>6

\* The rows of a complete page are those of the listing.
LEMMA FullPage ==
    ASSUME TypesOK, Listing, Unwritten, NEW full \in Seq(Row), NEW listed,
           listed = Page(table[ask.kind], at, ScanLimit(ask)), RowsAbout(full, listed.rows),
           \A m \in DOMAIN full : RowTrue(full[m])
    PROVE  /\ full = Page(AllRows, at, ScanLimit(ask)).rows
           /\ listed.more <=> Page(AllRows, at, ScanLimit(ask)).more
           /\ listed.next = Page(AllRows, at, ScanLimit(ask)).next
  <1>1. /\ ask.kind \in TruthKinds /\ table[ask.kind] \in Seq(Keys(TableOf(ask))) /\ at \in Nat
        /\ ScanLimit(ask) \in Nat
    BY ListingTable
  <1>2. /\ AllRows \in Seq(Row) /\ Len(AllRows) = Len(table[ask.kind])
        /\ \A i \in DOMAIN table[ask.kind] : AllRows[i] = TrueRow(ask.kind, table[ask.kind][i])
    BY AllRowsFacts
  <1>3. DOMAIN full = DOMAIN listed.rows /\ \A i \in DOMAIN full : full[i].id = listed.rows[i]
    BY DEF RowsAbout
  <1>4. PageOf(Keys(TableOf(ask)), table[ask.kind], at, ScanLimit(ask), listed)
    BY <1>1 DEF PageOf
  <1>5. \A i \in DOMAIN listed.rows : at + i \in DOMAIN table[ask.kind] /\ listed.rows[i] = table[ask.kind][at + i]
    BY <1>4, PageIs
  <1>6. ASSUME NEW i \in DOMAIN full PROVE full[i] = AllRows[at + i]
    <2>1. full[i].id = table[ask.kind][at + i] /\ at + i \in DOMAIN table[ask.kind]
      BY <1>3, <1>5
    <2>2. full[i].id \in Keys(TableOf(ask)) /\ full[i] \in Row /\ RowTrue(full[i])
      BY <1>1, <2>1
    <2>3. full[i] = TrueRow(ask.kind, full[i].id)
      BY <1>1, <2>2, TrueRowIs
    <2> QED BY <1>2, <2>1, <2>3
  <1>7. PageImage(Keys(TableOf(ask)), Row, table[ask.kind], AllRows, at, ScanLimit(ask), listed, full)
    BY <1>1, <1>2, <1>3, <1>6 DEF PageImage
  <1> QED BY <1>7, PageOfImage

\* The matches of a page are added to those before it.
LEMMA ScanOn ==
    ASSUME TypesOK, Listing, Filtered(ask), ScanExact, NEW full, full = Page(AllRows, at, ScanLimit(ask)).rows,
           NEW all, all = matched \o Matching(ask, full)
    PROVE  /\ Len(AllRows) > at + ScanLimit(ask) =>
                 /\ at + ScanLimit(ask) <= Len(table[ask.kind])
                 /\ all = MatchingUpTo(ask, AllRows, at + ScanLimit(ask))
           /\ (Len(all) > ask.offset + Limit \/ ~(Len(AllRows) > at + ScanLimit(ask))) =>
                 Page(all, ask.offset, Limit) = Page(Matching(ask, AllRows), ask.offset, Limit)
  <1>1. at \in Nat /\ ScanLimit(ask) \in Nat \ {0} /\ ask.offset \in Nat
    BY ListingTable
  <1>2. PICK L \in Seq(Row) : L = AllRows /\ Len(L) = Len(table[ask.kind])
    BY AllRowsFacts
  <1>3. PICK b \in Nat : /\ b = Least(Len(L), at + ScanLimit(ask)) /\ at <= b /\ b <= Len(L)
                         /\ Len(L) > at + ScanLimit(ask) => b = at + ScanLimit(ask)
                         /\ ~(Len(L) > at + ScanLimit(ask)) => b = Len(L)
    <2>1. at <= Len(L) /\ Len(L) \in Nat
      BY <1>2 DEF ScanExact
    <2> QED BY <1>1, <2>1 DEF Least
  <1>4. full = SubSeq(L, at + 1, b)
    BY <1>2, <1>3 DEF Page
  <1>5. all = MatchingUpTo(ask, L, b)
    <2>1. matched = MatchingUpTo(ask, L, at)
      BY <1>2 DEF ScanExact
    <2>2. MatchingUpTo(ask, L, b) = MatchingUpTo(ask, L, at) \o Matching(ask, SubSeq(L, at + 1, b))
      <3>1. PartOf(Row, L, at, b)
        BY <1>1, <1>3 DEF PartOf
      <3> QED BY <3>1, MatchingGrows
    <2> QED BY <1>4, <2>1, <2>2
  <1>6. CASE ~(Len(L) > at + ScanLimit(ask))
    <2>1. all = Matching(ask, L)
      BY <1>3, <1>5, <1>6, MatchingWhole
    <2> QED BY <1>2, <1>6, <2>1
  <1>7. CASE Len(L) > at + ScanLimit(ask)
    <2>1. at + ScanLimit(ask) <= Len(table[ask.kind]) /\ all = MatchingUpTo(ask, AllRows, at + ScanLimit(ask))
      BY <1>2, <1>3, <1>5, <1>7
    <2>2. ASSUME Len(all) > ask.offset + Limit
          PROVE  Page(all, ask.offset, Limit) = Page(Matching(ask, L), ask.offset, Limit)
      <3>1. PICK n : n \in Nat /\ n = Len(L) /\ b <= n
        BY <1>3
      <3>a. PartOf(Row, L, b, n)
        BY <3>1 DEF PartOf
      <3>b. \A x, y : PartOf(Row, L, x, y) =>
                MatchingUpTo(ask, L, y) = MatchingUpTo(ask, L, x) \o Matching(ask, SubSeq(L, x + 1, y))
        BY MatchingGrows
      <3>2. MatchingUpTo(ask, L, n) = MatchingUpTo(ask, L, b) \o Matching(ask, SubSeq(L, b + 1, n))
        BY <3>a, <3>b
      <3>3. MatchingUpTo(ask, L, n) = Matching(ask, L)
        BY <3>1, MatchingWhole
      <3>4. PICK rest : rest = Matching(ask, SubSeq(L, b + 1, n))
        OBVIOUS
      <3>5. all \in Seq(Row) /\ rest \in Seq(Row)
        <4>1. SubSeq(L, b + 1, n) \in Seq(Row)
          BY <3>1
        <4> QED BY <1>5, <3>4, <4>1, MatchingSeq
      <3>6. Matching(ask, L) = all \o rest
        BY <1>5, <3>2, <3>3, <3>4
      <3>7. Continued(Row, all, rest, ask.offset)
        BY <1>1, <2>2, <3>5 DEF Continued
      <3> QED BY <3>6, <3>7, PagePrefix
    <2> QED BY <1>2, <1>7, <2>1, <2>2
  <1> QED BY <1>6, <1>7

LEMMA ExactConsume ==
    ASSUME TypesOK, Listing, Unwritten, ScanExact, NEW full \in Seq(Row), NEW listed \in Listed,
           listed = Page(table[ask.kind], at, ScanLimit(ask)), RowsAbout(full, listed.rows),
           Consume(full, listed), TruthInv'
    PROVE  ExactInv'
  <1>1. /\ UNCHANGED <<stores, ask>> /\ matched' = matched \o Matching(ask, full) /\ rows' = full
        /\ \/ pc' = "list" /\ at' = listed.next /\ listed.more
           \/ pc' = "done"
    BY ConsumeIs DEF ConsumeStep, Listed
  <1>2. /\ AllRows' = AllRows /\ ask' = ask /\ table' = table /\ (Lookup' <=> Lookup)
        /\ (Filtered(ask)' <=> Filtered(ask))
    BY <1>1, ExactFrame
  <1>3. ~Lookup /\ ask.kind \in TruthKinds /\ ask.kind # "walk" /\ at \in Nat /\ ask.offset \in Nat
        /\ ScanLimit(ask) \in Nat /\ (~Filtered(ask) => ScanLimit(ask) = Limit)
    BY ListingTable DEF Listing, Lookup
  <1>4. \A m \in DOMAIN full : RowTrue(full[m])
    <2>1. pc' \notin PagePcs /\ ~stale
      BY <1>1 DEF PagePcs, Unwritten
    <2> QED BY <1>1, <1>3, <2>1, CompleteRowsTrue
  <1>5. PICK r : r = Page(AllRows, at, ScanLimit(ask))
    OBVIOUS
  <1>6. full = r.rows /\ (listed.more <=> r.more) /\ listed.next = r.next
    BY <1>4, <1>5, FullPage
  <1>7. /\ AllRows \in Seq(Row)
        /\ r.more \in BOOLEAN /\ (r.more <=> Len(AllRows) > at + ScanLimit(ask)) /\ r.next = at + ScanLimit(ask)
    <2>1. PageOf(Row, AllRows, at, ScanLimit(ask), r)
      BY <1>3, <1>5, AllRowsFacts DEF PageOf
    <2>2. AllRows \in Seq(Row)
      BY AllRowsFacts
    <2> QED BY <2>1, <2>2, PageIs
  <1>8. listed.more \in BOOLEAN
    BY DEF Listed
  <1>9. ASSUME pc' = "list" PROVE ScanExact'
    <2>1. Filtered(ask)
      BY <1>3, <1>9 DEF Consume, Respond, NextPage
    <2>2. at' = at + ScanLimit(ask) /\ Len(AllRows) > at + ScanLimit(ask)
      BY <1>1, <1>6, <1>7, <1>9
    <2>3. /\ at + ScanLimit(ask) <= Len(table[ask.kind])
          /\ matched' = MatchingUpTo(ask, AllRows, at + ScanLimit(ask))
      BY <1>1, <1>5, <1>6, <2>1, <2>2, ScanOn
    <2> QED BY <1>2, <2>1, <2>2, <2>3 DEF ScanExact
  <1>10. ASSUME pc' = "done" PROVE ListShown'
    <2>1. CASE Filtered(ask)
      <3>1. /\ Len(matched') > ask.offset + Limit \/ ~listed.more
            /\ resp' = Page(matched', ask.offset, Limit)
        BY <1>1, <1>3, <1>10, <2>1 DEF Consume, Respond, NextPage, MatchedPage
      <3>2. resp' = Page(Matching(ask, AllRows), ask.offset, Limit)
        BY <1>1, <1>5, <1>6, <1>7, <2>1, <3>1, ScanOn
      <3> QED BY <1>2, <3>2 DEF ListShown
    <2>2. CASE ~Filtered(ask)
      <3>1. resp' = [listed EXCEPT !.rows = matched']
        BY <1>1, <1>3, <1>10, <2>2 DEF Consume, Respond, NextPage
      <3>2. resp'.rows = matched' /\ resp'.more = listed.more /\ resp'.next = listed.next
        BY <3>1 DEF Listed
      <3>3. Matching(ask, AllRows) = AllRows /\ Matching(ask, full) = full
        BY <1>7, <2>2, MatchingAll
      <3>4. matched = <<>> /\ at = ask.offset /\ ScanLimit(ask) = Limit
        BY <1>3, <2>2 DEF ScanExact
      <3>5. matched' = full
        BY <1>1, <3>3, <3>4
      <3>6. r = Page(Matching(ask, AllRows), ask.offset, Limit)
        BY <1>5, <3>3, <3>4
      <3>7. resp'.rows = r.rows /\ resp'.more = r.more /\ resp'.next = r.next
        BY <1>6, <1>7, <1>8, <3>2, <3>5
      <3> QED BY <1>2, <3>6, <3>7 DEF ListShown
    <2> QED BY <2>1, <2>2
  <1>11. pc' \notin PagePcs /\ (pc' = "list" \/ pc' = "done")
    BY <1>1 DEF PagePcs
  <1>12. ExactListing'
    BY <1>9, <1>10, <1>11 DEF ExactListing, PagePcs
  <1> QED BY <1>2, <1>3, <1>12 DEF ExactInv

LEMMA ExactListPage ==
    ASSUME TypesOK, ExactInv, Listing, Unwritten, ListPage, TruthInv'
    PROVE  ExactInv'
  <1> DEFINE listed == Page(table[ask.kind], at, ScanLimit(ask))
  <1>1. TableOf(ask) = ask.kind /\ ~Lookup
    BY ListingTable DEF Listing, Lookup
  <1>2. /\ pc = "list" /\ UNCHANGED <<stores, ask>>
        /\ \/ listed.rows = <<>> /\ Consume(<<>>, listed)
           \/ /\ rows' = NewRows(listed.rows) /\ page' = listed /\ UNCHANGED <<at, matched>>
              /\ pc' \in {"items", "linked"}
    BY <1>1 DEF ListPage, Read, Consume
  <1>3. ScanExact
    BY <1>2 DEF ExactInv, ExactListing
  <1>4. listed \in Listed
    <2>1. PageOf(Keys(TableOf(ask)), table[ask.kind], at, ScanLimit(ask), listed)
      BY ListingTable DEF PageOf
    <2>2. Keys(TableOf(ask)) \subseteq AllKeys
      BY ListingTable
    <2> HIDE DEF listed
    <2>3. listed \in [rows : Seq(Keys(TableOf(ask))), more : BOOLEAN, next : Nat]
      BY <2>1, PageIs
    <2> QED BY <2>2, <2>3 DEF Listed
  <1>5. CASE listed.rows = <<>> /\ Consume(<<>>, listed)
    <2>1. <<>> \in Seq(Row) /\ RowsAbout(<<>>, listed.rows)
      BY <1>5 DEF RowsAbout
    <2> QED BY <1>3, <1>4, <1>5, <2>1, ExactConsume
  <1>6. CASE /\ rows' = NewRows(listed.rows) /\ page' = listed /\ UNCHANGED <<at, matched>>
             /\ pc' \in {"items", "linked"}
    <2>1. /\ AllRows' = AllRows /\ ask' = ask /\ table' = table /\ (Lookup' <=> Lookup)
          /\ (Filtered(ask)' <=> Filtered(ask)) /\ ScanLimit(ask)' = ScanLimit(ask)
      BY <1>2, ExactFrame
    <2>2. RowsAbout(rows', listed.rows)
      <3>1. listed.rows \in Seq(AllKeys)
        BY <1>4 DEF Listed
      <3> HIDE DEF listed
      <3>2. DOMAIN rows' = DOMAIN listed.rows /\ \A i \in DOMAIN listed.rows : rows'[i].id = listed.rows[i]
        BY <1>6, <3>1, NewRowsFacts
      <3> QED BY <3>2 DEF RowsAbout
    <2>3. ScanExact'
      BY <1>3, <1>6, <2>1 DEF ScanExact
    <2>4. page' = Page(table[ask.kind], at, ScanLimit(ask))' /\ RowsAbout(rows, page.rows)'
      BY <1>6, <2>1, <2>2 DEF RowsAbout
    <2>5. pc' # "done"
      BY <1>6
    <2>6. ExactListing'
      BY <2>3, <2>4, <2>5 DEF ExactListing
    <2> QED BY <1>1, <2>1, <2>6 DEF ExactInv
  <1> QED BY <1>2, <1>5, <1>6

\* The rows of a page about given keys.
LEMMA ExactLookupConsume ==
    ASSUME TypesOK, Lookup, Unwritten, ExactLookup, NEW full, ConsumeKind(full), TruthInv'
    PROVE  ExactInv'
  <1>0. AskOK(ask) /\ page \in Listed
    BY DEF TypesOK, TypeOK, ReaderOK, Listed
  <1>1. /\ pc \in PagePcs /\ full \in Seq(Row) /\ Consume(full, page) /\ RowsAbout(full, ask.keys)
        /\ matched = <<>> /\ Range(ask.keys) \subseteq Range(table[TableOf(ask)])
    BY DEF ConsumeKind, SameRows, ExactLookup, RowsAbout
  <1>2. ~Filtered(ask) /\ ask.kind # "walk" /\ ask.kind \in TruthKinds /\ ask.keys \in Seq(Keys(TableOf(ask))) /\ ~Listing
    BY <1>0 DEF AskOK, Lookup, Listings, TruthKinds, Listing
  <1>3. /\ UNCHANGED <<stores, ask>> /\ rows' = full /\ pc' = "done"
        /\ resp' = [page EXCEPT !.rows = matched \o Matching(ask, full)]
    BY <1>1, <1>2 DEF Consume, Respond, NextPage, Read
  <1>4. resp'.rows = full
    <2>1. matched \o Matching(ask, full) = full
      BY <1>1, <1>2, MatchingAll
    <2> QED BY <1>0, <1>3, <2>1 DEF Listed
  <1>5. \A m \in DOMAIN full : RowTrue(full[m])
    <2>1. pc' \notin PagePcs /\ ~stale
      BY <1>3 DEF PagePcs, Unwritten
    <2> QED BY <1>2, <1>3, <2>1, CompleteRowsTrue
  <1>6. full = TrueRows(ask.kind, ask.keys)
    <2>1. PICK t : t = TrueRows(ask.kind, ask.keys)
      OBVIOUS
    <2>2. /\ t \in Seq(Row) /\ DOMAIN t = DOMAIN ask.keys /\ Len(t) = Len(ask.keys)
          /\ \A i \in DOMAIN ask.keys : t[i] = TrueRow(ask.kind, ask.keys[i])
      BY <1>2, <2>1, TrueRowsFacts
    <2>3. DOMAIN full = DOMAIN ask.keys /\ \A i \in DOMAIN ask.keys : full[i].id = ask.keys[i]
      BY <1>1 DEF RowsAbout
    <2>4. ASSUME NEW i \in DOMAIN ask.keys PROVE full[i] = t[i]
      <3>1. full[i] \in Row /\ full[i].id = ask.keys[i] /\ full[i].id \in Keys(TableOf(ask)) /\ RowTrue(full[i])
        BY <1>1, <1>2, <1>5, <2>3
      <3> QED BY <1>2, <2>2, <3>1, TrueRowIs
    <2>5. Len(full) = Len(t) /\ DOMAIN full = 1..Len(full)
      BY <1>1, <2>2, <2>3
    <2> QED BY <1>1, <2>1, <2>2, <2>3, <2>4, <2>5, SameSeq
  <1>7. /\ ask' = ask /\ table' = table /\ TableOf(ask)' = TableOf(ask) /\ (Listing' <=> Listing)
        /\ TrueRows(ask.kind, ask.keys)' = TrueRows(ask.kind, ask.keys)
    BY <1>3, ExactFrame
  <1>8. KeysShown'
    BY <1>1, <1>4, <1>6, <1>7 DEF KeysShown
  <1>9. ExactLookup'
    BY <1>3, <1>8 DEF ExactLookup, PagePcs
  <1> QED BY <1>2, <1>7, <1>9 DEF ExactInv

LEMMA ExactGetRows ==
    ASSUME TypesOK, Lookup, ExactLookup, GetRows
    PROVE  ExactInv'
  <1>0. AskOK(ask)
    BY DEF TypesOK, TypeOK, ReaderOK
  <1>1. /\ ask.keys \in Seq(Keys(TableOf(ask))) /\ ask.keys \in Seq(AllKeys) /\ ~Listing
        /\ ask.kind # "datasets"
    BY <1>0 DEF AskOK, Lookup, Listing, Listings, Keys, AllKeys, TableOf
  <1>2. pc = "get" /\ UNCHANGED <<stores, ask>> /\ matched = <<>>
    BY DEF GetRows, Read, ExactLookup
  <1>3. (\A i \in DOMAIN ask.keys : Key(TableOf(ask), ask.keys[i])) <=>
            Range(ask.keys) \subseteq Range(table[TableOf(ask)])
    BY DEF Key, Range
  <1>4. \/ /\ ~(Range(ask.keys) \subseteq Range(table[TableOf(ask)])) /\ pc' = "done" /\ resp' = NoPage
        \/ /\ Range(ask.keys) \subseteq Range(table[TableOf(ask)])
           /\ rows' = NewRows(ask.keys) /\ pc' \in {"items", "linked"} /\ matched' = matched
    BY <1>1, <1>3 DEF GetRows, Respond
  <1>5. /\ ask' = ask /\ table' = table /\ TableOf(ask)' = TableOf(ask) /\ (Listing' <=> Listing)
    BY <1>2, ExactFrame
  <1>6. CASE ~(Range(ask.keys) \subseteq Range(table[TableOf(ask)])) /\ pc' = "done" /\ resp' = NoPage
    <2>1. KeysShown'
      BY <1>5, <1>6 DEF KeysShown, NoPage
    <2> QED BY <1>1, <1>5, <1>6, <2>1 DEF ExactInv, ExactLookup, PagePcs
  <1>7. CASE /\ Range(ask.keys) \subseteq Range(table[TableOf(ask)])
             /\ rows' = NewRows(ask.keys) /\ pc' \in {"items", "linked"} /\ matched' = matched
    <2>1. RowsAbout(rows, ask.keys)'
      <3>1. DOMAIN rows' = DOMAIN ask.keys /\ \A i \in DOMAIN ask.keys : rows'[i].id = ask.keys[i]
        BY <1>1, <1>7, NewRowsFacts
      <3> QED BY <1>5, <3>1 DEF RowsAbout
    <2> QED BY <1>1, <1>2, <1>5, <1>7, <2>1 DEF ExactInv, ExactLookup, PagePcs
  <1> QED BY <1>4, <1>6, <1>7

LEMMA ExactWrites ==
    ASSUME TypesOK, ExactInv, Others
    PROVE  ExactInv'
  <1>1. UNCHANGED readerVars /\ StoresOK
    BY WritesOf
  <1>2. ask' = ask /\ pc' = pc
    BY <1>1 DEF readerVars
  <1>3. CASE pc = "idle"
    <2>1. ask.kind = "none"
      BY <1>3 DEF TypesOK, TypeOK, ControlOK
    <2> QED BY <1>2, <2>1 DEF ExactInv, Listing, Lookup, Listings
  <1>4. CASE pc # "idle" /\ CaseWrite
    <2>1. stale'
      BY <1>4 DEF CaseWrite
    <2> QED BY <2>1 DEF ExactInv, Unwritten
  <1>5. ASSUME pc # "idle", NEW t \in Tables, NEW key \in Keys(t), NEW n \in Nat, NEW l \in Nat, RowWrite(t, key, n, l)
        PROVE  ExactInv'
    <2>1. key \in touched'[t]
      BY <1>1, <1>5 DEF RowWrite, StoresOK
    <2> QED BY <2>1 DEF ExactInv, Unwritten
  <1> QED BY <1>3, <1>4, <1>5, WritesOf

LEMMA ExactBegin ==
    ASSUME TypesOK, NEW q \in Requests, Begin(q)
    PROVE  ExactInv'
  <1>1. ask' = q /\ matched' = <<>> /\ at' = ScanStart(q) /\ table' = table
        /\ pc' = IF q.keys # <<>> THEN "get" ELSE IF q.kind = "caseQueue" THEN "ids" ELSE "list"
    BY DEF Begin, Cleared
  <1>2. ASSUME Listing' PROVE ExactListing'
    <2>1. q.kind \in Listings /\ q.keys = <<>> /\ pc' = "list"
      BY <1>1, <1>2 DEF Listing, Listings
    <2>2. table[q.kind] \in Seq(Keys(q.kind))
      BY <2>1 DEF TypesOK, TypeOK, StoresOK, IsListing, Listings, Tables
    <2>3. ScanExact'
      <3>1. CASE Filtered(q)
        <4>1. at' = 0 /\ Filtered(ask)'
          BY <1>1, <3>1 DEF ScanStart, Filtered
        <4>2. PICK L : L = AllRows'
          OBVIOUS
        <4>3. DOMAIN L = DOMAIN table[q.kind]
          BY <1>1, <4>2 DEF AllRows, TrueRows
        <4>4. \A i \in DOMAIN L : ~(i <= 0)
          BY <2>2, <4>3
        <4>5. MatchingUpTo(q, L, 0) = <<>>
          BY <4>4, MatchingStart
        <4>6. 0 <= Len(table[q.kind])
          BY <2>2
        <4> QED BY <1>1, <4>1, <4>2, <4>5, <4>6 DEF ScanExact
      <3>2. CASE ~Filtered(q)
        BY <1>1, <2>1, <3>2 DEF ScanStart, Filtered, ScanExact, Listings
      <3> QED BY <3>1, <3>2
    <2> QED BY <2>1, <2>3 DEF ExactListing, PagePcs
  <1>3. ASSUME Lookup' PROVE ExactLookup'
    <2>1. pc' = "get"
      BY <1>1, <1>3 DEF Lookup
    <2> QED BY <1>1, <2>1 DEF ExactLookup, PagePcs
  <1> QED BY <1>2, <1>3 DEF ExactInv

LEMMA ExactFill ==
    ASSUME TypesOK, ExactInv, NEW full, NEW next, FillKind(full, next)
    PROVE  ExactInv'
  <1>1. /\ UNCHANGED <<stores, ask>> /\ pc \in PagePcs /\ pc' \in PagePcs /\ page' = page /\ matched' = matched /\ at' = at
        /\ DOMAIN rows' = DOMAIN rows /\ \A i \in DOMAIN rows : rows'[i].id = rows[i].id
    BY DEF FillKind, SameRows
  <1>2. /\ AllRows' = AllRows /\ (Unwritten' <=> Unwritten) /\ (Listing' <=> Listing) /\ (Lookup' <=> Lookup)
        /\ TableOf(ask)' = TableOf(ask) /\ ask' = ask /\ table' = table /\ ScanLimit(ask)' = ScanLimit(ask)
        /\ (Filtered(ask)' <=> Filtered(ask))
    BY <1>1, ExactFrame
  <1>3. \A keys : RowsAbout(rows, keys) => RowsAbout(rows', keys)
    BY <1>1 DEF RowsAbout
  <1>4. pc' # "done" /\ pc' # "get" /\ pc' # "list"
    BY <1>1 DEF PagePcs
  <1>5. ASSUME Unwritten, Listing PROVE ExactListing'
    <2>1. ScanExact /\ page = Page(table[ask.kind], at, ScanLimit(ask)) /\ RowsAbout(rows, page.rows)
      BY <1>1, <1>5 DEF ExactInv, ExactListing
    <2>2. ScanExact'
      BY <1>1, <1>2, <2>1 DEF ScanExact
    <2>3. RowsAbout(rows', page.rows)
      BY <1>3, <2>1
    <2>4. page' = Page(table[ask.kind], at, ScanLimit(ask))' /\ RowsAbout(rows, page.rows)'
      BY <1>1, <1>2, <2>1, <2>3 DEF RowsAbout
    <2> QED BY <1>4, <2>2, <2>4 DEF ExactListing
  <1>6. ASSUME Unwritten, Lookup PROVE ExactLookup'
    <2>1. matched = <<>> /\ Range(ask.keys) \subseteq Range(table[TableOf(ask)]) /\ RowsAbout(rows, ask.keys)
      BY <1>1, <1>6 DEF ExactInv, ExactLookup
    <2>2. RowsAbout(rows', ask.keys)
      BY <1>3, <2>1
    <2>3. RowsAbout(rows, ask.keys)'
      BY <1>2, <2>2 DEF RowsAbout
    <2> QED BY <1>1, <1>2, <1>4, <2>1, <2>3 DEF ExactLookup
  <1> QED BY <1>2, <1>5, <1>6 DEF ExactInv

LEMMA ExactReader ==
    ASSUME TypesOK, ExactInv, Reader, TruthInv'
    PROVE  ExactInv'
  <1>0. TypeOK /\ RowsOfTable /\ ControlOK /\ ReaderOK
    BY DEF TypesOK, TypeOK
  <1>1. \A q \in Requests : Begin(q) => ExactInv'
    BY ExactBegin
  <1>2. CASE Leave
    BY <1>2 DEF Leave, NoAsk, Ask, ExactInv, Listing, Lookup, Listings
  <1>3. ASSUME UNCHANGED <<stores, ask>>, Unwritten, Listing \/ Lookup PROVE ExactInv'
    <2>1. ask.kind \notin {"datasets", "caseQueue"}
      BY <1>3 DEF Listing, Lookup, Listings
    <2>2. \A full, next : FillKind(full, next) => ExactInv'
      BY ExactFill
    <2>3. ASSUME NEW full, ConsumeKind(full) PROVE ExactInv'
      <3>1. CASE Listing
        <4>1. pc \in PagePcs /\ full \in Seq(Row) /\ Consume(full, page) /\ SameRows(full, rows) /\ page \in Listed
          BY <1>0, <2>3 DEF ConsumeKind, SameRows, ReaderOK, Listed
        <4>2. ScanExact /\ page = Page(table[ask.kind], at, ScanLimit(ask)) /\ RowsAbout(rows, page.rows)
          BY <1>3, <3>1, <4>1 DEF ExactInv, ExactListing
        <4>3. RowsAbout(full, page.rows)
          BY <4>1, <4>2 DEF RowsAbout, SameRows
        <4> QED BY <1>3, <3>1, <4>1, <4>2, <4>3, ExactConsume
      <3>2. CASE Lookup
        <4>1. ExactLookup
          BY <1>3, <3>2 DEF ExactInv
        <4> QED BY <1>3, <2>3, <3>2, <4>1, ExactLookupConsume
      <3> QED BY <1>3, <3>1, <3>2
    <2>4. CASE ListPage
      <3>1. Listing
        BY <1>0, <1>3, <2>4 DEF ListPage, ControlOK, Lookup
      <3> QED BY <1>3, <2>4, <3>1, ExactListPage
    <2>5. CASE GetRows
      <3>1. Lookup /\ ExactLookup
        BY <1>0, <1>3, <2>5 DEF GetRows, ControlOK, Listing, ExactInv
      <3> QED BY <2>5, <3>1, ExactGetRows
    <2>6. ~(\E full, next : CandidateKind(full, next)) /\ ~ListDatasets
          /\ ~collectEvalReportIDsByDataset /\ ~collectEvalReportIDsForDataset
      BY <2>1 DEF CandidateKind, ListDatasets, collectEvalReportIDsByDataset, collectEvalReportIDsForDataset
    <2>7. ~collectLatestEvalRunsByDataset /\ ~ReadRunBackedCases /\ ~ListCases
      BY <1>0, <2>1 DEF ControlOK, collectLatestEvalRunsByDataset, ReadRunBackedCases, ListCases
    <2> QED BY <1>0, <1>1, <1>2, <2>2, <2>3, <2>4, <2>5, <2>6, <2>7, ReaderKinds
  <1>4. ASSUME UNCHANGED <<stores, ask>>, ~(Unwritten /\ (Listing \/ Lookup)) PROVE ExactInv'
    <2>1. (Unwritten' <=> Unwritten) /\ (Listing' <=> Listing) /\ (Lookup' <=> Lookup)
      BY <1>4, ExactFrame
    <2> QED BY <1>4, <2>1 DEF ExactInv
  <1> QED BY <1>1, <1>2, <1>3, <1>4, ReaderFrame

LEMMA ExactStep == TypesOK /\ ExactInv /\ TruthInv' /\ [Next]_vars => ExactInv'
  <1>1. ASSUME ExactInv, UNCHANGED vars PROVE ExactInv'
    <2>1. UNCHANGED <<stores, ask>> /\ UNCHANGED <<pc, at, page, rows, matched, resp>>
      BY <1>1 DEF vars
    <2>2. /\ AllRows' = AllRows /\ (Unwritten' <=> Unwritten) /\ (Listing' <=> Listing) /\ (Lookup' <=> Lookup)
          /\ TableOf(ask)' = TableOf(ask) /\ ask' = ask /\ table' = table /\ ScanLimit(ask)' = ScanLimit(ask)
          /\ (Filtered(ask)' <=> Filtered(ask))
          /\ TrueRows(ask.kind, ask.keys)' = TrueRows(ask.kind, ask.keys)
      BY <2>1, ExactFrame
    <2>3. ExactListing => ExactListing'
      BY <2>1, <2>2 DEF ExactListing, ScanExact, ListShown, RowsAbout
    <2>4. ExactLookup => ExactLookup'
      BY <2>1, <2>2 DEF ExactLookup, KeysShown, RowsAbout
    <2> QED BY <1>1, <2>2, <2>3, <2>4 DEF ExactInv
  <1> QED BY <1>1, ExactWrites, ExactReader DEF Next

\* A response of a request during which nothing was written is the page of the
\* rows that match, with has_more and next_offset as they are for all matches,
\* for every offset, limit, filter and size of the pages in between.
THEOREM PageExact == Spec => []PageIsExact
  <1> DEFINE Inv == TypesOK /\ TruthInv /\ ExactInv
  <1>1. Init => Inv
    <2>1. Init => ExactInv
      BY DEF Init, NoAsk, Ask, ExactInv, Listing, Lookup, Listings
    <2> QED BY <2>1, TypesInit, TruthInit
  <1>2. Inv /\ [Next]_vars => Inv'
    BY TypesStep, TruthStep, ExactStep
  <1>3. Inv => PageIsExact
    BY DEF ExactInv, ExactListing, ExactLookup, Listing, Lookup, ListShown, KeysShown, AllRows, PageIsExact, Done
  <1> QED BY <1>1, <1>2, <1>3, PTL DEF Spec

==============================================================================

---------------------------- MODULE Feeds_proofs ----------------------------
(***************************************************************************)
(* Proofs about the pages of the listings, for any size of a page and any  *)
(* number of rows and of changes between two pages.  Where a row stands in *)
(* a listing is how many newer ones there are: its rank.                   *)
(***************************************************************************)
EXTENDS Feeds, FiniteSetTheorems, SequenceTheorems, TLAPS

(* How many of a set are newer.                                            *)
Rank(S, j) == Cardinality({q \in S : q > j})

(* Ranks are below the number of elements, and the older the greater.      *)
LEMMA RankFacts ==
    ASSUME NEW S \in SUBSET Nat, IsFiniteSet(S)
    PROVE  /\ Cardinality(S) \in Nat
           /\ \A j : Rank(S, j) \in Nat /\ Rank(S, j) <= Cardinality(S)
           /\ \A j \in S : Rank(S, j) < Cardinality(S)
           /\ \A j, k \in S : j < k => Rank(S, k) < Rank(S, j)
<1> DEFINE Above(j) == {q \in S : q > j}
<1>1. \A j : Above(j) \in SUBSET S /\ IsFiniteSet(Above(j)) /\ Cardinality(Above(j)) \in Nat
  BY FS_Subset, FS_CardinalityType
<1>2. \A j : Rank(S, j) = Cardinality(Above(j))
  BY DEF Rank
<1>3. ASSUME NEW T \in SUBSET S, NEW U \in SUBSET T, NEW x \in T, x \notin U
      PROVE  Cardinality(U) < Cardinality(T)
  <2>1. IsFiniteSet(T) /\ Cardinality(T) \in Nat /\ Cardinality(U) \in Nat
    BY <1>3, FS_Subset, FS_CardinalityType
  <2>2. Cardinality(U) <= Cardinality(T) /\ Cardinality(U) # Cardinality(T)
    BY <1>3, <2>1, FS_Subset
  <2>. QED  BY <2>1, <2>2
<1>4. \A j \in S : Cardinality(Above(j)) < Cardinality(S)
  <2>1. \A j \in S : j \notin Above(j)
    OBVIOUS
  <2>. QED  BY <1>1, <1>3, <2>1
<1>5. ASSUME NEW j \in S, NEW k \in S, j < k
      PROVE  Cardinality(Above(k)) < Cardinality(Above(j))
  <2>1. j \in Nat /\ k \in Nat /\ \A q \in S : q \in Nat
    OBVIOUS
  <2>2. \A q \in S : q > k => q > j
    BY <1>5, <2>1
  <2>3. k > j /\ ~(k > k)
    BY <1>5, <2>1
  <2>4. Above(k) \in SUBSET Above(j) /\ k \in Above(j) /\ k \notin Above(k)
    BY <2>2, <2>3
  <2>. QED  BY <1>1, <1>3, <2>4
<1> HIDE DEF Above
<1>6. Cardinality(S) \in Nat /\ \A j : Cardinality(Above(j)) <= Cardinality(S)
  BY <1>1, FS_Subset, FS_CardinalityType
<1>. QED  BY <1>1, <1>2, <1>4, <1>5, <1>6

(* The rank in a part of a set is no greater.                              *)
LEMMA RankGrows ==
    ASSUME NEW S \in SUBSET Nat, IsFiniteSet(S), NEW T \in SUBSET S, NEW j
    PROVE  Rank(T, j) <= Rank(S, j)
<1>1. {q \in T : q > j} \in SUBSET {q \in S : q > j}
  OBVIOUS
<1>2. IsFiniteSet({q \in S : q > j})
  BY FS_Subset
<1>. QED  BY <1>1, <1>2, FS_Subset DEF Rank

(* SortDown: the one with i - 1 newer ones comes at i.                     *)
LEMMA SortedDown ==
    ASSUME NEW S \in SUBSET Nat, IsFiniteSet(S)
    PROVE  /\ SortDown(S) \in [1..Cardinality(S) -> S]
           /\ \A r \in S : SortDown(S)[Rank(S, r) + 1] = r
           /\ \A i \in 1..Cardinality(S) : Rank(S, SortDown(S)[i]) = i - 1
<1> DEFINE n == Cardinality(S)
           at == [r \in S |-> Rank(S, r) + 1]
<1>1. /\ n \in Nat /\ \A r \in S : Rank(S, r) \in Nat /\ Rank(S, r) < n
      /\ \A q, r \in S : q < r => Rank(S, r) < Rank(S, q)
  BY RankFacts
<1>2. \A q, r \in S : Rank(S, q) = Rank(S, r) => q = r
  <2>1. \A q, r \in S : q < r \/ r < q \/ q = r
    OBVIOUS
  <2>. QED  BY <1>1, <2>1
<1>3. at \in Injection(S, 1..n)
  BY <1>1, <1>2 DEF Injection, IsInjective
<1>4. at \in Surjection(S, 1..n)
  <2>1. IsFiniteSet(1..n) /\ Cardinality(1..n) = n
    BY <1>1, FS_Interval
  <2>. QED  BY <1>3, <2>1, FS_Injection
<1>5. \A i \in 1..n : \E r \in S : Rank(S, r) = i - 1
  <2>1. \A i \in 1..n : \E r \in S : at[r] = i
    BY <1>4 DEF Surjection
  <2>2. \A r \in S : at[r] = Rank(S, r) + 1 /\ Rank(S, r) \in Nat
    BY <1>1
  <2> HIDE DEF at
  <2>. QED  BY <1>1, <2>1, <2>2
<1>6. \A i \in 1..n : SortDown(S)[i] = CHOOSE r \in S : Rank(S, r) = i - 1
  BY DEF SortDown, Rank
<1>7. \A i \in 1..n : SortDown(S)[i] \in S /\ Rank(S, SortDown(S)[i]) = i - 1
  BY <1>5, <1>6
<1>8. SortDown(S) \in [1..n -> S]
  <2> DEFINE nth(i) == CHOOSE r \in S : Rank(S, r) = i - 1
  <2>1. SortDown(S) = [i \in 1..n |-> nth(i)]
    BY DEF SortDown, Rank
  <2>2. \A i \in 1..n : nth(i) \in S
    BY <1>6, <1>7
  <2> HIDE DEF nth, n
  <2>. QED  BY <2>1, <2>2
<1>9. \A r \in S : SortDown(S)[Rank(S, r) + 1] = r
  <2>1. SUFFICES ASSUME NEW r \in S
                 PROVE  SortDown(S)[Rank(S, r) + 1] = r
    OBVIOUS
  <2> DEFINE i == Rank(S, r) + 1
  <2>2. i \in 1..n /\ i - 1 = Rank(S, r)
    BY <1>1
  <2> HIDE DEF i, n
  <2>3. SortDown(S)[i] \in S /\ Rank(S, SortDown(S)[i]) = Rank(S, r)
    BY <1>7, <2>2
  <2>4. SortDown(S)[i] = r
    BY <1>2, <2>3
  <2>. QED  BY <2>4 DEF i
<1>. QED  BY <1>7, <1>8, <1>9

(* A part of a sequence.                                                   *)
Fits(n, a, l) == IF a + l < n THEN l ELSE IF a < n THEN n - a ELSE 0
(* A cut has the elements of the sequence from the offset on, as many as   *)
(* there are and at most the limit.                                        *)
LEMMA CutIs ==
    ASSUME NEW X, NEW s \in Seq(X), NEW a \in Nat, NEW l \in Nat
    PROVE  /\ Len(Cut(s, a, l)) = Fits(Len(s), a, l)
           /\ DOMAIN Cut(s, a, l) = 1..Fits(Len(s), a, l)
           /\ \A i \in 1..Fits(Len(s), a, l) : Cut(s, a, l)[i] = s[a + i]
<1> DEFINE n == Len(s)
           e == IF a + l < n THEN a + l ELSE n
           c == Cut(s, a, l)
           m == Fits(n, a, l)
<1>1. c = SubSeq(s, a + 1, e) /\ e \in Nat /\ e <= n
  BY DEF Cut
<1>2. \A i \in (a + 1)..e : s[i] \in X
  BY <1>1
<1>3. /\ c \in Seq(X)
      /\ Len(c) = IF a + 1 <= e THEN e - (a + 1) + 1 ELSE 0
      /\ \A i \in 1..(e - (a + 1) + 1) : c[i] = s[(a + 1) + i - 1]
  <2> HIDE DEF e, c
  <2>. QED  BY <1>1, <1>2, SubSeqProperties
<1>4. Len(c) = m /\ DOMAIN c = 1..Len(c)
  BY <1>3 DEF Fits
<1>5. \A i \in 1..m : i \in 1..(e - (a + 1) + 1) /\ (a + 1) + i - 1 = a + i
  BY DEF Fits
<1> HIDE DEF c, m, e
<1>6. \A i \in 1..m : c[i] = s[a + i]
  BY <1>3, <1>5
<1>. QED  BY <1>4, <1>6 DEF c, m

(* A cut is a sequence of the same things.                                 *)
LEMMA CutStays ==
    ASSUME NEW X, NEW s \in Seq(X), NEW a \in Nat, NEW l \in Nat
    PROVE  Cut(s, a, l) \in Seq(X)
<1> DEFINE e == IF a + l < Len(s) THEN a + l ELSE Len(s)
<1>1. Cut(s, a, l) = SubSeq(s, a + 1, e) /\ e \in Nat /\ e <= Len(s)
  BY DEF Cut
<1>2. \A i \in (a + 1)..e : s[i] \in X
  BY <1>1
<1> HIDE DEF e
<1>. QED  BY <1>1, <1>2, SubSeqProperties

(* Something is in a sequence as often as there are places it is at: none, *)
(* one or two.                                                             *)
LEMMA TimesIs ==
    ASSUME NEW m \in Nat, NEW s, DOMAIN s = 1..m, NEW r
    PROVE  /\ (\A i \in 1..m : s[i] # r) => Times(s, r) = 0
           /\ \A k \in 1..m :
                 s[k] = r /\ (\A i \in 1..m : s[i] = r => i = k) => Times(s, r) = 1
           /\ \A j, k \in 1..m :
                 j # k /\ s[j] = r /\ s[k] = r /\ (\A i \in 1..m : s[i] = r => i \in {j, k})
                    => Times(s, r) = 2
<1> DEFINE I == {i \in DOMAIN s : s[i] = r}
<1>1. Times(s, r) = Cardinality(I)
  BY DEF Times
<1>2. ASSUME \A i \in 1..m : s[i] # r
      PROVE  Times(s, r) = 0
  <2>1. I = {}
    BY <1>2
  <2>. QED  BY <1>1, <2>1, FS_EmptySet
<1>3. ASSUME NEW k \in 1..m, s[k] = r, \A i \in 1..m : s[i] = r => i = k
      PROVE  Times(s, r) = 1
  <2>1. I = {k}
    BY <1>3
  <2>. QED  BY <1>1, <2>1, FS_Singleton
<1>4. ASSUME NEW j \in 1..m, NEW k \in 1..m, j # k, s[j] = r, s[k] = r,
             \A i \in 1..m : s[i] = r => i \in {j, k}
      PROVE  Times(s, r) = 2
  <2>1. I = {j} \cup {k}
    <3>1. j \in I /\ k \in I /\ I \subseteq {j, k}
      BY <1>4
    <3>. QED  BY <3>1
  <2> DEFINE J == {j}
  <2>2. IsFiniteSet(J) /\ Cardinality(J) = 1 /\ k \notin J
    BY <1>4, FS_Singleton
  <2>3. Cardinality(J \cup {k}) = 2
    <3> HIDE DEF J
    <3>. QED  BY <2>2, FS_AddElement
  <2>. QED  BY <1>1, <2>1, <2>3
<1>. QED  BY <1>2, <1>3, <1>4

(* A page of a set that is read newest first.                              *)
Window(S, a, l) == {r \in S : a <= Rank(S, r) /\ Rank(S, r) < a + l}

(* A page cut from the newest first holds exactly the rows whose rank is   *)
(* in the window of the page, each once and at its place.                  *)
LEMMA PageIs ==
    ASSUME NEW S \in SUBSET Nat, IsFiniteSet(S), NEW a \in Nat, NEW l \in Nat
    PROVE  LET c == Cut(SortDown(S), a, l)
           IN  /\ Len(c) = Fits(Cardinality(S), a, l) /\ DOMAIN c = 1..Len(c)
               /\ ToSet(c) = Window(S, a, l)
               /\ \A r : Times(c, r) = IF r \in Window(S, a, l) THEN 1 ELSE 0
               /\ \A i \in 1..Len(c) : c[i] = SortDown(S)[a + i]
               /\ \A r \in Window(S, a, l) :
                     /\ Rank(S, r) - a + 1 \in 1..Len(c) /\ c[Rank(S, r) - a + 1] = r
                     /\ \A i \in 1..Len(c) : c[i] = r => i = Rank(S, r) - a + 1
<1> DEFINE c == Cut(SortDown(S), a, l)
           n == Cardinality(S)
           m == Fits(n, a, l)
           W == Window(S, a, l)
<1>1. n \in Nat /\ \A r \in S : Rank(S, r) \in Nat /\ Rank(S, r) < n
  BY RankFacts
<1>2. /\ SortDown(S) \in [1..n -> S]
      /\ \A r \in S : SortDown(S)[Rank(S, r) + 1] = r
      /\ \A i \in 1..n : Rank(S, SortDown(S)[i]) = i - 1
  BY SortedDown
<1>3. Len(c) = m /\ DOMAIN c = 1..m /\ \A i \in 1..m : c[i] = SortDown(S)[a + i]
  <2> DEFINE d == SortDown(S)
  <2>1. d \in Seq(S) /\ Len(d) = n
    BY <1>1, <1>2
  <2>2. c = Cut(d, a, l) /\ m = Fits(n, a, l)
    OBVIOUS
  <2>3. SortDown(S) = d
    OBVIOUS
  <2> HIDE DEF n, d, c, m
  <2>4. /\ Len(Cut(d, a, l)) = Fits(n, a, l) /\ DOMAIN Cut(d, a, l) = 1..Fits(n, a, l)
        /\ \A i \in 1..Fits(n, a, l) : Cut(d, a, l)[i] = d[a + i]
    BY <2>1, CutIs
  <2>. QED  BY <2>4, <2>2, <2>3
<1>4. m \in Nat /\ \A i \in 1..m : a + i \in 1..n /\ i <= l
  <2> HIDE DEF n
  <2>. QED  BY <1>1 DEF Fits
<1>5. ASSUME NEW i \in 1..m
      PROVE  c[i] \in W /\ Rank(S, c[i]) = a + i - 1
  <2>1. c[i] \in S /\ Rank(S, c[i]) = a + i - 1
    BY <1>2, <1>3, <1>4
  <2>. QED  BY <1>4, <2>1 DEF Window
<1>6. ASSUME NEW r \in W
      PROVE  /\ Rank(S, r) - a + 1 \in 1..m /\ c[Rank(S, r) - a + 1] = r
             /\ \A i \in 1..m : c[i] = r => i = Rank(S, r) - a + 1
  <2>1. r \in S /\ a <= Rank(S, r) /\ Rank(S, r) < a + l /\ Rank(S, r) < n /\ Rank(S, r) \in Nat
    BY <1>1 DEF Window
  <2>2. Rank(S, r) - a + 1 \in 1..m
    <3> HIDE DEF n
    <3>1. m = Fits(n, a, l)
      OBVIOUS
    <3> HIDE DEF m
    <3>2. CASE a + l < n
      BY <1>1, <2>1, <3>1, <3>2 DEF Fits
    <3>3. CASE ~(a + l < n)
      BY <1>1, <2>1, <3>1, <3>3 DEF Fits
    <3>. QED  BY <3>2, <3>3
  <2>3. c[Rank(S, r) - a + 1] = SortDown(S)[a + (Rank(S, r) - a + 1)]
    BY <1>3, <2>2
  <2>4. a + (Rank(S, r) - a + 1) = Rank(S, r) + 1
    BY <2>1
  <2>5. c[Rank(S, r) - a + 1] = r
    BY <1>2, <2>1, <2>3, <2>4
  <2>6. \A i \in 1..m : c[i] = r => i = Rank(S, r) - a + 1
    BY <1>5, <2>1
  <2>. QED  BY <2>2, <2>5, <2>6
<1> HIDE DEF c, m, W
<1>7. ToSet(c) = W
  <2>1. \A r \in ToSet(c) : r \in W
    BY <1>3, <1>5 DEF ToSet
  <2>2. \A r \in W : r \in ToSet(c)
    BY <1>3, <1>6 DEF ToSet
  <2>. QED  BY <2>1, <2>2
<1>8. ASSUME NEW r
      PROVE  Times(c, r) = IF r \in W THEN 1 ELSE 0
  <2>1. CASE r \in W
    <3> DEFINE k == Rank(S, r) - a + 1
    <3>1. k \in 1..m /\ c[k] = r /\ \A i \in 1..m : c[i] = r => i = k
      BY <1>6, <2>1
    <3> HIDE DEF k
    <3>. QED  BY <1>3, <1>4, <2>1, <3>1, TimesIs
  <2>2. CASE r \notin W
    <3>1. \A i \in 1..m : c[i] # r
      BY <1>5, <2>2
    <3>. QED  BY <1>3, <1>4, <2>2, <3>1, TimesIs
  <2>. QED  BY <2>1, <2>2
<1>9. \A i \in 1..m : c[i] = SortDown(S)[a + i]
  BY <1>3
<1>. QED  BY <1>3, <1>6, <1>7, <1>8, <1>9 DEF c, m, W

(* The same, as how often a row is on the page.                            *)
LEMMA PageTimes ==
    ASSUME NEW S \in SUBSET Nat, IsFiniteSet(S), NEW a \in Nat, NEW l \in Nat
    PROVE  \A r : Times(Cut(SortDown(S), a, l), r) = IF r \in Window(S, a, l) THEN 1 ELSE 0
BY PageIs

(* A page of threads: of each the slots that are in the window.            *)
Joined == {2 * t : t \in rows} \cup {2 * t + 1 : t \in tied}

(* The rows a join of threads with their latest messages gives: the even   *)
(* one for a thread, the odd one for its second message.                   *)
LEMMA JoinedIs ==
    ASSUME rows \in SUBSET Nat, IsFiniteSet(rows), tied \in SUBSET rows
    PROVE  /\ Joined \in SUBSET Nat /\ IsFiniteSet(Joined)
           /\ Cardinality(Joined) <= Cardinality(rows) + Cardinality(rows)
           /\ \A t \in Nat : (2 * t \in Joined <=> t \in rows) /\ (2 * t + 1 \in Joined <=> t \in tied)
           /\ \A j \in Joined : j \div 2 \in rows
<1> DEFINE Even(t) == 2 * t
           Odd(t) == 2 * t + 1
           E == {Even(t) : t \in rows}
           O == {Odd(t) : t \in tied}
<1>1. Joined = E \cup O
  BY DEF Joined
<1>2. IsFiniteSet(tied) /\ Cardinality(tied) <= Cardinality(rows)
  BY FS_Subset
<1>3. /\ IsFiniteSet(E) /\ Cardinality(E) <= Cardinality(rows)
      /\ IsFiniteSet(O) /\ Cardinality(O) <= Cardinality(tied)
  <2> DEFINE f == [t \in rows |-> Even(t)]
             g == [t \in tied |-> Odd(t)]
  <2>1. f \in Surjection(rows, E) /\ g \in Surjection(tied, O)
    <3> HIDE DEF Even, Odd
    <3>. QED  BY DEF Surjection
  <2> HIDE DEF E, O, f, g
  <2>. QED  BY <1>2, <2>1, FS_Surjection
<1>4. /\ Cardinality(rows) \in Nat /\ Cardinality(tied) \in Nat /\ Cardinality(E) \in Nat
      /\ Cardinality(O) \in Nat
  <2> HIDE DEF E, O
  <2>. QED  BY <1>2, <1>3, FS_CardinalityType
<1>5. IsFiniteSet(Joined) /\ Cardinality(Joined) <= Cardinality(rows) + Cardinality(rows)
  <2> HIDE DEF E, O
  <2>1. E \cap O \in SUBSET E
    OBVIOUS
  <2>2. Cardinality(E \cap O) \in Nat
    BY <1>3, <2>1, FS_Subset, FS_CardinalityType
  <2>3. Cardinality(E \cup O) = Cardinality(E) + Cardinality(O) - Cardinality(E \cap O)
    BY <1>3, FS_Union
  <2>4. IsFiniteSet(E \cup O)
    BY <1>3, FS_Union
  <2>. QED  BY <1>1, <1>2, <1>3, <1>4, <2>2, <2>3, <2>4
<1>6. \A s, t \in Nat : 2 * s # 2 * t + 1 /\ (2 * s = 2 * t => s = t) /\ (2 * s + 1 = 2 * t + 1 => s = t)
  OBVIOUS
<1>7. \A t \in Nat : (2 * t \in Joined <=> t \in rows) /\ (2 * t + 1 \in Joined <=> t \in tied)
  BY <1>6 DEF Joined
<1>8. \A t \in Nat : (2 * t) \div 2 = t /\ (2 * t + 1) \div 2 = t
  OBVIOUS
<1>9. \A j \in Joined : j \div 2 \in rows
  BY <1>8 DEF Joined
<1>10. Joined \in SUBSET Nat
  BY DEF Joined
<1>. QED  BY <1>5, <1>7, <1>9, <1>10

(* The listing of threads is that of the joined rows, each by its thread.  *)
LEMMA ThreadRowsAre ==
    ASSUME rows \in SUBSET Nat, IsFiniteSet(rows), tied \in SUBSET rows
    PROVE  /\ ThreadRows \in Seq(rows) /\ Len(ThreadRows) = Cardinality(Joined)
           /\ \A i \in 1..Cardinality(Joined) : ThreadRows[i] = SortDown(Joined)[i] \div 2
<1> DEFINE J == Joined
           d == SortDown(J)
<1>1. J \in SUBSET Nat /\ IsFiniteSet(J) /\ \A j \in J : j \div 2 \in rows
  BY JoinedIs
<1>2. /\ Cardinality(J) \in Nat /\ DOMAIN d = 1..Cardinality(J)
      /\ \A i \in 1..Cardinality(J) : d[i] \in J
  <2> HIDE DEF J
  <2>1. d \in [1..Cardinality(J) -> J] /\ Cardinality(J) \in Nat
    BY <1>1, SortedDown, RankFacts
  <2> HIDE DEF d
  <2>. QED  BY <2>1
<1>3. /\ ThreadRows \in Seq(rows) /\ Len(ThreadRows) = Cardinality(J)
      /\ \A i \in 1..Cardinality(J) : ThreadRows[i] = d[i] \div 2
  <2>1. ThreadRows = [i \in DOMAIN d |-> d[i] \div 2]
    BY DEF ThreadRows, Joined
  <2> HIDE DEF d, J
  <2> DEFINE half(i) == d[i] \div 2
  <2>2. \A i \in DOMAIN d : half(i) \in rows
    BY <1>1, <1>2
  <2> HIDE DEF half
  <2>3. ThreadRows = [i \in 1..Cardinality(J) |-> half(i)]
    BY <1>2, <2>1 DEF half
  <2>4. \A i \in 1..Cardinality(J) : ThreadRows[i] = half(i)
    BY <2>3
  <2>5. ThreadRows \in [1..Cardinality(J) -> rows]
    BY <1>2, <2>2, <2>3
  <2>6. ThreadRows \in Seq(rows) /\ Len(ThreadRows) = Cardinality(J)
    BY <1>2, <2>5
  <2>. QED  BY <2>4, <2>6 DEF half
<1>. QED  BY <1>3

(* A page of threads holds one as often as its joined rows are in the      *)
(* window of the page.                                                     *)
LEMMA ThreadPageIs ==
    ASSUME rows \in SUBSET Nat, IsFiniteSet(rows), tied \in SUBSET rows, NEW a \in Nat, NEW l \in Nat
    PROVE  LET c == Cut(ThreadRows, a, l)
               W == Window(Joined, a, l)
           IN  /\ Len(c) = Fits(Cardinality(Joined), a, l)
               /\ \A t \in Nat : Times(c, t) =
                     (IF 2 * t \in W THEN 1 ELSE 0) + (IF 2 * t + 1 \in W THEN 1 ELSE 0)
<1> DEFINE J == Joined
           d == SortDown(J)
           p == Cut(d, a, l)
           c == Cut(ThreadRows, a, l)
           W == Window(J, a, l)
           m == Len(p)
           At(r) == Rank(J, r) - a + 1
<1>1. J \in SUBSET Nat /\ IsFiniteSet(J) /\ \A j \in J : j \div 2 \in rows
  BY JoinedIs
<1>2. /\ Len(p) = Fits(Cardinality(J), a, l) /\ DOMAIN p = 1..m
      /\ ToSet(p) = W
      /\ \A i \in 1..m : p[i] = d[a + i]
      /\ \A r \in W : /\ At(r) \in 1..m /\ p[At(r)] = r
                      /\ \A i \in 1..m : p[i] = r => i = At(r)
  <2> HIDE DEF J
  <2>. QED  BY <1>1, PageIs
<1>3. Cardinality(J) \in Nat
  BY <1>1, FS_CardinalityType
<1>4. /\ ThreadRows \in Seq(rows) /\ Len(ThreadRows) = Cardinality(J)
      /\ \A i \in 1..Cardinality(J) : ThreadRows[i] = d[i] \div 2
  BY ThreadRowsAre
<1>5. /\ Len(c) = m /\ DOMAIN c = 1..m
      /\ \A i \in 1..m : c[i] = p[i] \div 2
  <2> DEFINE n == Cardinality(J)
  <2>1. m = Fits(n, a, l)
    BY <1>2
  <2>2. ThreadRows \in Seq(rows) /\ Len(ThreadRows) = n
    BY <1>4
  <2> HIDE DEF d, p, W, J, n, m
  <2>3. /\ Len(c) = Fits(n, a, l) /\ DOMAIN c = 1..Fits(n, a, l)
        /\ \A i \in 1..Fits(n, a, l) : c[i] = ThreadRows[a + i]
    BY <2>2, CutIs
  <2>4. /\ Len(c) = m /\ DOMAIN c = 1..m
        /\ \A i \in 1..m : c[i] = ThreadRows[a + i]
    BY <2>1, <2>3
  <2>5. \A i \in 1..m : a + i \in 1..Cardinality(J)
    BY <1>3, <2>1 DEF Fits, n
  <2>. QED  BY <1>2, <1>4, <2>4, <2>5 DEF n, m
<1>6. m \in Nat /\ \A i \in 1..m : p[i] \in W /\ p[i] \in Nat
  <2>1. m \in Nat
    BY <1>2, <1>3 DEF Fits
  <2>2. \A i \in 1..m : p[i] \in ToSet(p)
    BY <1>2 DEF ToSet
  <2>. QED  BY <1>1, <1>2, <2>1, <2>2 DEF Window
<1>7. ASSUME NEW t \in Nat
      PROVE  Times(c, t) = (IF 2 * t \in W THEN 1 ELSE 0) + (IF 2 * t + 1 \in W THEN 1 ELSE 0)
  <2>1. \A x \in Nat : x \div 2 = t <=> x = 2 * t \/ x = 2 * t + 1
    OBVIOUS
  <2> DEFINE e == 2 * t
             o == 2 * t + 1
             ke == At(e)
             ko == At(o)
  <2>2. e # o
    OBVIOUS
  <2> HIDE DEF d, p, W, J, m, c, At
  <2>3. \A i \in 1..m : c[i] = t <=> p[i] = e \/ p[i] = o
    BY <1>5, <1>6, <2>1
  <2> HIDE DEF e, o
  <2>4. /\ e \in W => ke \in 1..m /\ p[ke] = e /\ \A i \in 1..m : p[i] = e => i = ke
        /\ o \in W => ko \in 1..m /\ p[ko] = o /\ \A i \in 1..m : p[i] = o => i = ko
    BY <1>2
  <2> HIDE DEF ke, ko
  <2>5. CASE e \in W /\ o \in W
    <3>1. /\ ke \in 1..m /\ ko \in 1..m /\ ke # ko /\ c[ke] = t /\ c[ko] = t
          /\ \A i \in 1..m : c[i] = t => i \in {ke, ko}
      BY <2>2, <2>3, <2>4, <2>5
    <3>2. Times(c, t) = 2
      BY <1>5, <1>6, <3>1, TimesIs
    <3>. QED  BY <2>5, <3>2 DEF e, o
  <2>6. CASE e \in W /\ o \notin W
    <3>1. ke \in 1..m /\ c[ke] = t /\ \A i \in 1..m : c[i] = t => i = ke
      BY <1>6, <2>3, <2>4, <2>6
    <3>2. Times(c, t) = 1
      BY <1>5, <1>6, <3>1, TimesIs
    <3>. QED  BY <2>6, <3>2 DEF e, o
  <2>7. CASE e \notin W /\ o \in W
    <3>1. ko \in 1..m /\ c[ko] = t /\ \A i \in 1..m : c[i] = t => i = ko
      BY <1>6, <2>3, <2>4, <2>7
    <3>2. Times(c, t) = 1
      BY <1>5, <1>6, <3>1, TimesIs
    <3>. QED  BY <2>7, <3>2 DEF e, o
  <2>8. CASE e \notin W /\ o \notin W
    <3>1. \A i \in 1..m : c[i] # t
      BY <1>6, <2>3, <2>8
    <3>2. Times(c, t) = 0
      BY <1>5, <1>6, <3>1, TimesIs
    <3>. QED  BY <2>8, <3>2 DEF e, o
  <2>. QED  BY <2>5, <2>6, <2>7, <2>8
<1>8. Len(c) = Fits(Cardinality(J), a, l)
  BY <1>2, <1>5
<1>. QED  BY <1>7, <1>8

(* Sorting neither loses nor repeats a row.                                *)
LEMMA SortedIs ==
    ASSUME NEW S \in SUBSET Nat, IsFiniteSet(S)
    PROVE  /\ SortDown(S) \in Seq(S) /\ Len(SortDown(S)) = Cardinality(S)
           /\ \A r : Times(SortDown(S), r) = IF r \in S THEN 1 ELSE 0
<1> DEFINE n == Cardinality(S)
           d == SortDown(S)
<1>1. n \in Nat /\ \A r \in S : Rank(S, r) \in Nat /\ Rank(S, r) < n
  BY RankFacts
<1>2. /\ d \in [1..n -> S]
      /\ \A r \in S : d[Rank(S, r) + 1] = r
      /\ \A i \in 1..n : Rank(S, d[i]) = i - 1
  BY SortedDown
<1> HIDE DEF d, n
<1>3. d \in Seq(S) /\ Len(d) = n
  BY <1>1, <1>2
<1>4. DOMAIN d = 1..n /\ \A i \in 1..n : d[i] \in S
  BY <1>2
<1>5. ASSUME NEW r \in S
      PROVE  Times(d, r) = 1
  <2> DEFINE k == Rank(S, r) + 1
  <2>1. k \in 1..n /\ d[k] = r
    BY <1>1, <1>2
  <2>2. \A i \in 1..n : d[i] = r => i = k
    BY <1>2
  <2> HIDE DEF k
  <2>. QED  BY <1>1, <1>4, <2>1, <2>2, TimesIs
<1>6. ASSUME NEW r, r \notin S
      PROVE  Times(d, r) = 0
  <2>1. \A i \in 1..n : d[i] # r
    BY <1>4, <1>6
  <2>. QED  BY <1>1, <1>4, <2>1, TimesIs
<1>. QED  BY <1>3, <1>5, <1>6 DEF d, n

(* The rows of a page that was fetched with one more.                      *)
LEMMA CutOfCut ==
    ASSUME NEW X, NEW s \in Seq(X), NEW a \in Nat, NEW l \in Nat
    PROVE  Cut(Cut(s, a, l + 1), 0, l) = Cut(s, a, l)
<1> DEFINE n == Len(s)
           c == Cut(s, a, l + 1)
           d == Cut(s, a, l)
           m == Fits(n, a, l + 1)
           k == Fits(n, a, l)
           b == Cut(c, 0, l)
<1>1. n \in Nat /\ l + 1 \in Nat /\ 0 \in Nat
  OBVIOUS
<1>2. m \in Nat /\ k \in Nat /\ k <= m /\ Fits(m, 0, l) = k
  <2> HIDE DEF n
  <2>. QED  BY <1>1 DEF Fits
<1>3. /\ DOMAIN d = 1..k /\ \A i \in 1..k : d[i] = s[a + i]
  BY CutIs
<1>4. /\ Len(c) = m /\ \A i \in 1..m : c[i] = s[a + i]
  BY <1>1, CutIs
<1>5. c \in Seq(X) /\ d \in Seq(X)
  BY <1>1, CutStays
<1> HIDE DEF n, c, d, m, k
<1>6. DOMAIN b = 1..Fits(Len(c), 0, l) /\ \A i \in 1..Fits(Len(c), 0, l) : b[i] = c[0 + i]
  BY <1>1, <1>5, CutIs
<1>7. b \in Seq(X)
  BY <1>1, <1>5, CutStays
<1> HIDE DEF b
<1>8. DOMAIN b = 1..k /\ \A i \in 1..k : b[i] = s[a + i]
  <2>1. DOMAIN b = 1..k /\ \A i \in 1..k : b[i] = c[0 + i]
    BY <1>2, <1>4, <1>6
  <2>2. \A i \in 1..k : i \in 1..m /\ 0 + i = i
    BY <1>2
  <2>. QED  BY <1>4, <2>1, <2>2
<1>9. b = [i \in 1..k |-> b[i]] /\ d = [i \in 1..k |-> d[i]]
  BY <1>3, <1>5, <1>7, <1>8
<1>. QED  BY <1>3, <1>8, <1>9 DEF b, c, d

(* In two sequences, one after the other, something is as often as in      *)
(* both.                                                                   *)
LEMMA TimesOfBoth ==
    ASSUME NEW X, NEW s \in Seq(X), NEW t \in Seq(X), NEW r
    PROVE  /\ Times(s, r) \in Nat /\ Times(t, r) \in Nat
           /\ Times(s \o t, r) = Times(s, r) + Times(t, r)
<1> DEFINE n == Len(s)
           m == Len(t)
           b == s \o t
           A == {i \in 1..n : s[i] = r}
           B == {i \in 1..m : t[i] = r}
           C == {i \in 1..(n + m) : b[i] = r}
           D == {i \in (n + 1)..(n + m) : b[i] = r}
<1>1. n \in Nat /\ m \in Nat /\ b \in Seq(X) /\ Len(b) = n + m
  BY ConcatProperties
<1>2. Times(s, r) = Cardinality(A) /\ Times(t, r) = Cardinality(B) /\ Times(b, r) = Cardinality(C)
  <2>1. DOMAIN s = 1..n /\ DOMAIN t = 1..m /\ DOMAIN b = 1..(n + m)
    BY <1>1
  <2>. QED  BY <2>1 DEF Times
<1>3. /\ \A i \in 1..n : b[i] = s[i]
      /\ \A i \in 1..m : b[n + i] = t[i]
  BY <1>1
<1> HIDE DEF n, m, b
<1>4. C = A \cup D /\ A \cap D = {}
  BY <1>1, <1>3
<1>5. IsFiniteSet(A) /\ IsFiniteSet(B)
  <2>0. 1 \in Int /\ n \in Int /\ m \in Int
    BY <1>1
  <2>1. IsFiniteSet(1..n) /\ IsFiniteSet(1..m)
    BY <2>0, FS_Interval
  <2>2. A \in SUBSET (1..n) /\ B \in SUBSET (1..m)
    OBVIOUS
  <2> HIDE DEF A, B
  <2>. QED  BY <2>1, <2>2, FS_Subset
<1> DEFINE f == [i \in B |-> n + i]
<1>6. f \in Bijection(B, D)
  <2>1. f \in [B -> D]
    BY <1>1, <1>3
  <2>2. \A i, j \in B : f[i] = f[j] => i = j
    BY <1>1
  <2>3. \A k \in D : k - n \in B /\ f[k - n] = k
    <3>1. ASSUME NEW k \in D
          PROVE  k - n \in 1..m /\ n + (k - n) = k /\ b[k] = r
      BY <1>1
    <3>2. \A k \in D : k - n \in B
      BY <1>3, <3>1
    <3>. QED  BY <3>1, <3>2
  <2> HIDE DEF f, B, D
  <2>. QED  BY <2>1, <2>2, <2>3 DEF Bijection, Injection, Surjection, IsInjective
<1> HIDE DEF A, B, C, D, f
<1>7. IsFiniteSet(D) /\ Cardinality(D) = Cardinality(B)
  BY <1>5, <1>6, FS_Bijection DEF ExistsBijection
<1>8. Cardinality(C) = Cardinality(A) + Cardinality(D) - Cardinality(A \cap D)
  BY <1>4, <1>5, <1>7, FS_Union
<1>9. Cardinality(A) \in Nat /\ Cardinality(B) \in Nat /\ Cardinality({}) = 0
  BY <1>5, FS_CardinalityType, FS_EmptySet
<1>10. Cardinality(C) = Cardinality(A) + Cardinality(B)
  <2>1. Cardinality(A \cap D) = 0
    BY <1>4, FS_EmptySet
  <2>2. Cardinality(C) = Cardinality(A) + Cardinality(B) - 0
    BY <1>7, <1>8, <2>1
  <2>. QED  BY <1>9, <2>2
<1>11. /\ Times(s, r) \in Nat /\ Times(t, r) \in Nat
       /\ Times(b, r) = Times(s, r) + Times(t, r)
  BY <1>2, <1>9, <1>10
<1>12. Times(s \o t, r) = Times(b, r)
  BY DEF b
<1>. QED  BY <1>11, <1>12

(* A window that does not reach the end is full.                           *)
LEMMA WindowHolds ==
    ASSUME NEW S \in SUBSET Nat, IsFiniteSet(S), NEW a \in Nat, NEW l \in Nat, a + l <= Cardinality(S)
    PROVE  IsFiniteSet(Window(S, a, l)) /\ Cardinality(Window(S, a, l)) = l
<1> DEFINE W == Window(S, a, l)
           d == SortDown(S)
           f == [i \in 1..l |-> d[a + i]]
           n == Cardinality(S)
<1>1. n \in Nat /\ \A r \in S : Rank(S, r) \in Nat /\ Rank(S, r) < n
  BY RankFacts
<1>2. /\ d \in [1..n -> S]
      /\ \A r \in S : d[Rank(S, r) + 1] = r
      /\ \A i \in 1..n : Rank(S, d[i]) = i - 1
  BY SortedDown
<1> HIDE DEF n, d
<1>3. \A i \in 1..l : a + i \in 1..n
  BY <1>1 DEF n
<1>4. \A i \in 1..l : d[a + i] \in W
  BY <1>1, <1>2, <1>3 DEF Window
<1>5. ASSUME NEW r \in W
      PROVE  Rank(S, r) + 1 - a \in 1..l /\ f[Rank(S, r) + 1 - a] = r
  <2>1. Rank(S, r) \in Nat /\ a <= Rank(S, r) /\ Rank(S, r) < a + l /\ r \in S
    BY <1>1 DEF Window
  <2>2. Rank(S, r) + 1 - a \in 1..l /\ a + (Rank(S, r) + 1 - a) = Rank(S, r) + 1
    BY <2>1
  <2>. QED  BY <1>2, <2>1, <2>2
<1>6. \A i, j \in 1..l : f[i] = f[j] => i = j
  <2>1. \A i \in 1..l : Rank(S, f[i]) = a + i - 1
    BY <1>2, <1>3
  <2>. QED  BY <2>1
<1>7. f \in [1..l -> W]
  BY <1>4
<1> HIDE DEF f, W
<1>8. f \in Bijection(1..l, W)
  BY <1>5, <1>6, <1>7 DEF Bijection, Injection, Surjection, IsInjective
<1>9. IsFiniteSet(1..l) /\ Cardinality(1..l) = l
  BY FS_Interval
<1>. QED  BY <1>8, <1>9, FS_Bijection DEF ExistsBijection, W

----------------------------------------------------------------------------
(* The inductive invariant.                                                *)

(* What a listing with an order gives one after the other: a thread twice  *)
(* while two of its messages share the latest timestamp.                   *)
Slots == IF listing = "threads" THEN Joined ELSE Shown
(* The slot a row has at any rate, and what the next page has passed.      *)
SlotOf(r) == IF listing = "threads" THEN 2 * r ELSE r
Behind(j) == Rank(Slots, j) < Offset

(* Before the first page nothing was given and nothing is on record.       *)
StartInv ==
    /\ page = 0 => got = [r \in RowIds |-> 0] /\ ~ended
    /\ ~Reading => base = {} /\ changed = {}
    /\ listing # "latest" => held = NotAsked
    /\ page = MaxPage => ended
    /\ page <= MaxPage
    /\ listing = "latest" /\ ended => page = MaxPage
    /\ ended => held = NotAsked
    /\ listing # "threads" => tied = {}

(* While nothing is removed, what was there is given or ahead.             *)
AheadInv ==
    listing \in Ordered =>
        /\ "removed" \notin changed =>
              \A r \in base : r \in Shown /\ (got[r] > 0 \/ ~Behind(SlotOf(r)))
        /\ ended => Cardinality(Slots) <= Offset

(* While nothing is inserted, what was given is behind.                    *)
BehindInv ==
    listing \in Ordered \ {"threads"} /\ "inserted" \notin changed =>
        \A r \in RowIds : got[r] <= 1 /\ (got[r] > 0 /\ r \in Shown => Behind(r))
(* A thread was given for its slots that are behind, and twice only for    *)
(* both.                                                                   *)
ThreadInv ==
    listing = "threads" /\ "inserted" \notin changed =>
        \A t \in RowIds :
            /\ got[t] <= 2
            /\ got[t] > 0 => t \in rows /\ (Behind(2 * t) \/ (t \in tied /\ Behind(2 * t + 1)))
            /\ got[t] = 2 => Behind(2 * t) /\ ("removed" \notin changed => t \in tied)

(* discover with seen_ids: every page before the last one was full.        *)
SeenInv ==
    listing = "seen" =>
        /\ \A r \in RowIds : got[r] <= 1
        /\ "removed" \notin changed => base \subseteq approved
        /\ ended => \A r \in approved : got[r] > 0
        /\ ~ended => Offset <= Cardinality({r \in RowIds : got[r] > 0})

(* Without an order, one page that holds all gave what was there.          *)
OnePageInv ==
    listing \in Unordered /\ changed = {} /\ Cardinality(rows) <= Size =>
        \/ page = 0
        \/ base = Shown /\ \A r \in RowIds : got[r] = IF r \in base THEN 1 ELSE 0

(* Redis has the newest, and its ids do not end inside a page after the    *)
(* first.                                                                  *)
RedisFits == RedisIsNewest /\ (Cardinality(newest) <= Size \/ Cardinality(newest) % Size = 0)
(* The latest properties: those above the offset were given, and Redis was *)
(* asked for those of the page.                                            *)
LatestInv ==
    listing = "latest" /\ changed = {} /\ RedisFits =>
        /\ \A r \in RowIds : got[r] = IF r \in approved /\ Rank(rows, r) < Offset THEN 1 ELSE 0
        /\ Reading => base = approved
        /\ held # NotAsked => held = ToSet(Cut(SortDown(newest), Offset, Size))

(* The inductive invariant.                                                *)
FeedInv ==
    /\ FeedTypeOK /\ StartInv
    /\ AheadInv /\ BehindInv /\ ThreadInv /\ SeenInv /\ OnePageInv /\ LatestInv

(* All sets of rows are finite sets of ids.                                *)
LEMMA FeedFacts ==
    ASSUME FeedTypeOK, StartInv
    PROVE  /\ Size \in Nat /\ Size > 0 /\ MaxRow \in Nat /\ Offset \in Nat
           /\ rows \in SUBSET Nat /\ approved \in SUBSET Nat /\ newest \in SUBSET Nat
           /\ \A S \in SUBSET RowIds :
                 S \in SUBSET Nat /\ IsFiniteSet(S) /\ Cardinality(S) \in Nat /\ Cardinality(S) <= MaxRow
           /\ rows \in SUBSET RowIds /\ approved \in SUBSET RowIds /\ newest \in SUBSET RowIds
           /\ tied \in SUBSET rows /\ Shown \in SUBSET rows
<1>1. /\ Size \in Nat /\ Size > 0 /\ MaxRow \in Nat /\ made \in 0..MaxRow /\ page \in Nat
  BY FeedsAssumption DEF FeedTypeOK
<1>2. page * Size \in Nat
  BY <1>1
<1>3. RowIds \in SUBSET Nat /\ IsFiniteSet(RowIds) /\ Cardinality(RowIds) = MaxRow
  <2>1. 1 \in Int /\ MaxRow \in Int /\ ~(1 > MaxRow) => MaxRow - 1 + 1 = MaxRow
    BY <1>1
  <2>2. IsFiniteSet(RowIds) /\ Cardinality(RowIds) = IF 1 > MaxRow THEN 0 ELSE MaxRow - 1 + 1
    BY <1>1, FS_Interval DEF RowIds
  <2>. QED  BY <1>1, <2>2 DEF RowIds
<1>4. \A S \in SUBSET RowIds :
         S \in SUBSET Nat /\ IsFiniteSet(S) /\ Cardinality(S) \in Nat /\ Cardinality(S) <= MaxRow
  BY <1>3, FS_Subset, FS_CardinalityType
<1>5. 1..made \in SUBSET RowIds
  BY <1>1 DEF RowIds
<1>6. /\ rows \in SUBSET RowIds /\ approved \in SUBSET RowIds /\ newest \in SUBSET RowIds
      /\ tied \in SUBSET rows /\ Shown \in SUBSET rows
  BY <1>5 DEF FeedTypeOK, Shown, AgentRows, UnverifiedRows
<1>. QED  BY <1>1, <1>2, <1>3, <1>4, <1>6 DEF Offset

(* Slots are finitely many and ordered, and every row shown has one.       *)
LEMMA SlotFacts ==
    ASSUME FeedTypeOK, StartInv
    PROVE  /\ Slots \in SUBSET Nat /\ IsFiniteSet(Slots)
           /\ Cardinality(Slots) \in Nat /\ Cardinality(Slots) <= 2 * MaxRow
           /\ \A r \in Shown : SlotOf(r) \in Slots
           /\ \A j : Rank(Slots, j) \in Nat
           /\ \A j \in Slots : Rank(Slots, j) < Cardinality(Slots)
           /\ \A j, k \in Slots : j < k => Rank(Slots, k) < Rank(Slots, j)
           /\ listing = "threads" => Shown = rows
<1>1. /\ rows \in SUBSET Nat /\ IsFiniteSet(rows) /\ tied \in SUBSET rows /\ Shown \in SUBSET rows
      /\ Cardinality(rows) \in Nat /\ Cardinality(rows) <= MaxRow /\ MaxRow \in Nat
      /\ Shown \in SUBSET Nat /\ IsFiniteSet(Shown) /\ Cardinality(Shown) \in Nat
      /\ Cardinality(Shown) <= MaxRow
  BY FeedFacts
<1>2. listing = "threads" => Shown = rows
  BY DEF Shown, Verifiable
<1>3. /\ Slots \in SUBSET Nat /\ IsFiniteSet(Slots)
      /\ Cardinality(Slots) \in Nat /\ Cardinality(Slots) <= 2 * MaxRow
      /\ \A r \in Shown : SlotOf(r) \in Slots
  <2>1. CASE listing = "threads"
    <3>1. /\ Joined \in SUBSET Nat /\ IsFiniteSet(Joined)
          /\ Cardinality(Joined) <= Cardinality(rows) + Cardinality(rows)
          /\ \A t \in Nat : 2 * t \in Joined <=> t \in rows
      BY <1>1, JoinedIs
    <3>2. Cardinality(Joined) \in Nat
      BY <3>1, FS_CardinalityType
    <3>3. Slots = Joined /\ \A r \in Shown : SlotOf(r) = 2 * r /\ r \in Nat /\ r \in rows
      BY <1>1, <1>2, <2>1 DEF Slots, SlotOf
    <3>. QED  BY <1>1, <3>1, <3>2, <3>3
  <2>2. CASE listing # "threads"
    BY <1>1, <2>2 DEF Slots, SlotOf
  <2>. QED  BY <2>1, <2>2
<1>. QED  BY <1>2, <1>3, RankFacts

----------------------------------------------------------------------------
(* A page of a listing with an order.                                      *)

In(j) == IF j \in Window(Slots, Offset, Size) THEN 1 ELSE 0
(* What the next page gives of a row.                                      *)
Part(r) == IF listing = "threads" THEN In(2 * r) + In(2 * r + 1) ELSE In(r)
(* One page of a listing with an order, in terms of windows.               *)
PageTurned ==
    /\ listing \in Ordered /\ ~ended
    /\ UNCHANGED <<tables, listing, held, changed, moves>>
    /\ page' = page + 1
    /\ got' = [r \in RowIds |-> got[r] + Part(r)]
    /\ base' = IF page = 0 THEN Shown ELSE base
    /\ ended' \in BOOLEAN
    /\ ended' => Cardinality(Slots) <= Offset + Size
    /\ page + 1 = MaxPage => ended'

(* The next page begins where this one ended.                              *)
LEMMA OffsetTurns ==
    ASSUME FeedTypeOK, page' = page + 1
    PROVE  Offset' = Offset + Size
<1>1. page \in Nat /\ Size \in Nat
  BY FeedsAssumption DEF FeedTypeOK
<1>2. (page + 1) * Size = page * Size + Size
  BY <1>1
<1>. QED  BY <1>2 DEF Offset

(* The bound on pages is beyond every listing.                             *)
LEMMA LastPage ==
    ASSUME FeedTypeOK, page + 1 = MaxPage
    PROVE  2 * MaxRow < Offset + Size
<1>1. page \in Nat /\ Size \in Nat /\ MaxRow \in Nat /\ (page + 1) * Size > 2 * MaxRow
  BY FeedsAssumption DEF FeedTypeOK
<1>2. (page + 1) * Size = page * Size + Size
  BY <1>1
<1>. QED  BY <1>1, <1>2 DEF Offset

(* A sequence of some things is one of more things.                        *)
LEMMA SeqWider ==
    ASSUME NEW X, NEW Y, X \in SUBSET Y, NEW s \in Seq(X)
    PROVE  s \in Seq(Y)
<1>1. Len(s) \in Nat /\ s \in [1..Len(s) -> X]
  OBVIOUS
<1>2. s \in [1..Len(s) -> Y]
  BY <1>1
<1>. QED  BY <1>1, <1>2

(* The page that is cut from a listing with an order gives every row its   *)
(* part.                                                                   *)
LEMMA OrderedPage ==
    ASSUME FeedTypeOK, StartInv, NEW s,
           s = IF listing = "threads" THEN ThreadRows ELSE SortDown(Shown)
    PROVE  /\ s \in Seq(Nat) /\ Len(s) = Cardinality(Slots)
           /\ Len(Cut(s, Offset, Size)) = Fits(Cardinality(Slots), Offset, Size)
           /\ \A r \in RowIds : Times(Cut(s, Offset, Size), r) = Part(r)
<1>1. /\ rows \in SUBSET Nat /\ IsFiniteSet(rows) /\ tied \in SUBSET rows
      /\ Shown \in SUBSET Nat /\ IsFiniteSet(Shown) /\ Offset \in Nat /\ Size \in Nat
      /\ RowIds \in SUBSET Nat
  BY FeedFacts
<1>2. CASE listing = "threads"
  <2>1. Slots = Joined /\ s = ThreadRows
    BY <1>2 DEF Slots
  <2>2. ThreadRows \in Seq(rows) /\ Len(ThreadRows) = Cardinality(Joined)
    BY <1>1, ThreadRowsAre
  <2>3. /\ Len(Cut(ThreadRows, Offset, Size)) = Fits(Cardinality(Joined), Offset, Size)
        /\ \A t \in Nat : Times(Cut(ThreadRows, Offset, Size), t) =
              (IF 2 * t \in Window(Joined, Offset, Size) THEN 1 ELSE 0)
              + (IF 2 * t + 1 \in Window(Joined, Offset, Size) THEN 1 ELSE 0)
    BY <1>1, ThreadPageIs
  <2>4. s \in Seq(Nat)
    BY <1>1, <2>1, <2>2, SeqWider
  <2>5. \A r \in RowIds : Times(Cut(s, Offset, Size), r) = Part(r)
    BY <1>1, <1>2, <2>1, <2>3 DEF Part, In
  <2>6. Len(s) = Cardinality(Slots)
    BY <2>1, <2>2
  <2>7. Len(Cut(s, Offset, Size)) = Fits(Cardinality(Slots), Offset, Size)
    BY <2>1, <2>3
  <2>. QED  BY <2>4, <2>5, <2>6, <2>7
<1>3. CASE listing # "threads"
  <2>1. Slots = Shown /\ s = SortDown(Shown)
    BY <1>3 DEF Slots
  <2>2. SortDown(Shown) \in Seq(Shown) /\ Len(SortDown(Shown)) = Cardinality(Shown)
    BY <1>1, SortedIs
  <2>3. /\ Len(Cut(SortDown(Shown), Offset, Size)) = Fits(Cardinality(Shown), Offset, Size)
        /\ \A r : Times(Cut(SortDown(Shown), Offset, Size), r) =
              IF r \in Window(Shown, Offset, Size) THEN 1 ELSE 0
    BY <1>1, PageIs
  <2>4. s \in Seq(Nat)
    BY <1>1, <2>1, <2>2, SeqWider
  <2>5. \A r \in RowIds : Times(Cut(s, Offset, Size), r) = Part(r)
    BY <1>3, <2>1, <2>3 DEF Part, In
  <2>6. Len(s) = Cardinality(Slots)
    BY <2>1, <2>2
  <2>7. Len(Cut(s, Offset, Size)) = Fits(Cardinality(Slots), Offset, Size)
    BY <2>1, <2>3
  <2>. QED  BY <2>4, <2>5, <2>6, <2>7
<1>. QED  BY <1>2, <1>3

(* The reads of all listings with an order turn the page.                  *)
LEMMA OrderedReads ==
    ASSUME FeedInv, ReadAll \/ ReadRequests \/ ReadWishes \/ ReadThreads \/ ReadMessages \/ Discover
    PROVE  PageTurned
<1> DEFINE s == IF listing = "threads" THEN ThreadRows ELSE SortDown(Shown)
           n == Cardinality(Slots)
<1>1. /\ s \in Seq(Nat) /\ Len(s) = n
      /\ Len(Cut(s, Offset, Size)) = Fits(n, Offset, Size)
      /\ \A r \in RowIds : Times(Cut(s, Offset, Size), r) = Part(r)
  <2> HIDE DEF s
  <2>. QED  BY OrderedPage DEF FeedInv, s
<1>2. Offset \in Nat /\ Size \in Nat /\ n \in Nat /\ n <= 2 * MaxRow /\ MaxRow \in Nat
  BY FeedFacts, SlotFacts DEF FeedInv
<1>3. page + 1 = MaxPage => n <= Offset + Size
  <2> HIDE DEF n
  <2>1. page + 1 = MaxPage => 2 * MaxRow < Offset + Size
    BY LastPage DEF FeedInv
  <2>. QED  BY <1>2, <2>1
<1>4. ASSUME listing \in Ordered \ {"discover"}, ~ended, ReadByOffset(Cut(s, Offset, Size))
      PROVE  PageTurned
  <2>1. Fits(n, Offset, Size) < Size => n <= Offset + Size
    <3> HIDE DEF n
    <3>. QED  BY <1>2 DEF Fits
  <2> HIDE DEF s, n
  <2>2. ended' <=> Fits(n, Offset, Size) < Size \/ page + 1 = MaxPage
    BY <1>1, <1>4 DEF ReadByOffset, Turn
  <2>3. got' = [r \in RowIds |-> got[r] + Part(r)]
    BY <1>1, <1>4 DEF ReadByOffset, Turn, Given
  <2>4. ended' \in BOOLEAN
    BY <1>4 DEF ReadByOffset, Turn
  <2>. QED  BY <1>3, <1>4, <2>1, <2>2, <2>3, <2>4 DEF ReadByOffset, Turn, PageTurned, n
<1>5. ASSUME listing = "discover", ~ended, ReadWithMore(Cut(s, Offset, Size + 1))
      PROVE  PageTurned
  <2>1. Fits(n, Offset, Size + 1) <= Size => n <= Offset + Size
    <3> HIDE DEF n
    <3>. QED  BY <1>2 DEF Fits
  <2> HIDE DEF s
  <2>2. Size + 1 \in Nat
    BY <1>2
  <2>3. Len(Cut(s, Offset, Size + 1)) = Fits(Len(s), Offset, Size + 1)
    BY <1>1, <1>2, <2>2, CutIs
  <2>4. Cut(Cut(s, Offset, Size + 1), 0, Size) = Cut(s, Offset, Size)
    BY <1>1, <1>2, CutOfCut
  <2>5. Turn(Cut(s, Offset, Size), Len(Cut(s, Offset, Size + 1)) <= Size \/ page + 1 = MaxPage)
    BY <1>5, <2>4 DEF ReadWithMore
  <2> HIDE DEF n
  <2>6. ended' <=> Fits(n, Offset, Size + 1) <= Size \/ page + 1 = MaxPage
    BY <1>1, <2>3, <2>5 DEF Turn
  <2>7. got' = [r \in RowIds |-> got[r] + Part(r)]
    BY <1>1, <2>5 DEF Turn, Given
  <2>8. ended' \in BOOLEAN
    BY <2>5 DEF Turn
  <2>. QED
    BY <1>3, <1>5, <2>1, <2>5, <2>6, <2>7, <2>8 DEF ReadWithMore, Turn, PageTurned, Ordered, n
<1>6. ASSUME listing \in Ordered
      PROVE  Shown = IF listing = "discover" THEN approved ELSE rows
  BY <1>6 DEF Shown, Verifiable, Ordered
<1>7. CASE ReadAll
  BY <1>4, <1>6, <1>7 DEF ReadAll, AllRows, Ordered
<1>8. CASE ReadRequests
  BY <1>4, <1>6, <1>8 DEF ReadRequests, RequestRows, Ordered
<1>9. CASE ReadWishes
  BY <1>4, <1>6, <1>9 DEF ReadWishes, WishRows, Ordered
<1>10. CASE ReadThreads
  BY <1>4, <1>10 DEF ReadThreads, Ordered
<1>11. CASE ReadMessages
  BY <1>4, <1>6, <1>11 DEF ReadMessages, MessageRows, Ordered
<1>12. CASE Discover
  BY <1>5, <1>6, <1>12 DEF Discover, DiscoverRows, Ordered
<1>. QED  BY <1>7, <1>8, <1>9, <1>10, <1>11, <1>12

(* What a page leaves behind.                                              *)
LEMMA PageTurnedFacts ==
    ASSUME FeedInv, PageTurned
    PROVE  /\ Offset' = Offset + Size
           /\ UNCHANGED <<Slots, Shown, listing, rows, tied, changed>>
           /\ \A j : Rank(Slots, j) \in Nat
           /\ \A j : In(j) \in {0, 1} /\
                 (In(j) = 1 <=> j \in Slots /\ ~Behind(j) /\ Rank(Slots, j) < Offset + Size)
           /\ \A j : Behind(j)' <=> Rank(Slots, j) < Offset + Size
           /\ \A j : Behind(j) => Behind(j)'
           /\ \A r \in RowIds : got'[r] = got[r] + Part(r) /\ got[r] \in Nat
           /\ Offset \in Nat /\ Size \in Nat /\ Size > 0
<1>1. /\ Offset \in Nat /\ Size \in Nat /\ Size > 0 /\ \A j : Rank(Slots, j) \in Nat
  BY FeedFacts, SlotFacts DEF FeedInv
<1>2. Offset' = Offset + Size
  BY OffsetTurns DEF PageTurned, FeedInv
<1>3. UNCHANGED <<rows, approved, tied, listing, changed>>
  BY DEF PageTurned, tables
<1>4. UNCHANGED <<Slots, Shown, listing, rows, tied, changed>>
  BY <1>3 DEF Slots, Joined, Shown, AgentRows, UnverifiedRows, Verifiable
<1>5. \A j : In(j) \in {0, 1} /\
             (In(j) = 1 <=> j \in Slots /\ ~Behind(j) /\ Rank(Slots, j) < Offset + Size)
  BY <1>1 DEF In, Window, Behind
<1>6. \A j : Rank(Slots, j)' = Rank(Slots, j)
  BY <1>4 DEF Rank
<1>7. \A j : Behind(j)' <=> Rank(Slots, j) < Offset + Size
  BY <1>2, <1>6 DEF Behind
<1>8. \A j : Behind(j) => Behind(j)'
  BY <1>1, <1>7 DEF Behind
<1>9. \A r \in RowIds : got'[r] = got[r] + Part(r) /\ got[r] \in Nat
  BY DEF PageTurned, FeedInv, FeedTypeOK
<1>. QED  BY <1>1, <1>2, <1>4, <1>5, <1>7, <1>8, <1>9

(* Turning the page keeps the types.                                       *)
LEMMA PageTurnedTypes ==
    ASSUME FeedInv, PageTurned
    PROVE  FeedTypeOK' /\ StartInv'
<1>1. \A j : In(j) \in {0, 1}
  BY PageTurnedFacts
<1>2. \A r \in RowIds : Part(r) \in Nat
  BY <1>1 DEF Part
<1>3. got' \in [RowIds -> Nat]
  BY <1>2 DEF PageTurned, FeedInv, FeedTypeOK
<1>4. base' \subseteq RowIds /\ rows \in SUBSET RowIds
  BY FeedFacts DEF PageTurned, FeedInv, FeedTypeOK
<1>5. FeedTypeOK'
  BY <1>3, <1>4 DEF PageTurned, FeedInv, FeedTypeOK, tables
<1>6. page \in Nat /\ MaxPage \in Nat /\ page <= MaxPage /\ page # MaxPage
  BY FeedsAssumption DEF PageTurned, FeedInv, FeedTypeOK, StartInv
<1>7. listing # "latest" /\ held = NotAsked
  BY DEF PageTurned, Ordered, FeedInv, StartInv
<1>8. page' = page + 1 /\ UNCHANGED <<tied, listing, held>> /\ (page + 1 = MaxPage => ended')
  BY DEF PageTurned, tables
<1>9. StartInv'
  BY <1>6, <1>7, <1>8 DEF FeedInv, StartInv, Reading
<1>. QED  BY <1>5, <1>9

(* What was there is given by the page that passes it.                     *)
LEMMA PageTurnedAhead ==
    ASSUME FeedInv, PageTurned
    PROVE  AheadInv'
<1>1. ended' => Cardinality(Slots') <= Offset'
  BY PageTurnedFacts DEF PageTurned
<1>2. ASSUME "removed" \notin changed', NEW r \in base'
      PROVE  r \in Shown' /\ (got'[r] > 0 \/ ~Behind(SlotOf(r))')
  <2>1. r \in Shown /\ (got[r] > 0 \/ ~Behind(SlotOf(r)))
    <3>1. CASE page = 0
      <4>1. Offset = 0 /\ \A j : Rank(Slots, j) \in Nat
        BY <3>1, PageTurnedFacts DEF Offset
      <4>2. ~Behind(SlotOf(r))
        BY <4>1 DEF Behind
      <4>. QED  BY <1>2, <3>1, <4>2 DEF PageTurned
    <3>2. CASE page # 0
      <4>1. r \in base /\ "removed" \notin changed /\ listing \in Ordered
        BY <1>2, <3>2 DEF PageTurned
      <4>. QED  BY <4>1 DEF FeedInv, AheadInv
    <3>. QED  BY <3>1, <3>2
  <2>2. r \in RowIds /\ SlotOf(r) \in Slots /\ SlotOf(r)' = SlotOf(r)
    BY <2>1, FeedFacts, SlotFacts, PageTurnedFacts DEF FeedInv, SlotOf
  <2>3. got'[r] = got[r] + Part(r) /\ got[r] \in Nat
    BY <2>2, PageTurnedFacts
  <2>4. In(2 * r) \in {0, 1} /\ In(2 * r + 1) \in {0, 1} /\ In(r) \in {0, 1}
    BY PageTurnedFacts
  <2>5. In(SlotOf(r)) = 1 => Part(r) > 0
    BY <2>4 DEF Part, SlotOf
  <2>6. Part(r) \in Nat
    BY <2>4 DEF Part
  <2>7. ~Behind(SlotOf(r)) => In(SlotOf(r)) = 1 \/ ~(Rank(Slots, SlotOf(r)) < Offset + Size)
    BY <2>2, PageTurnedFacts
  <2>8. Behind(SlotOf(r))' <=> Rank(Slots, SlotOf(r)) < Offset + Size
    <3> DEFINE j == SlotOf(r)
    <3>1. j' = j
      BY <2>2
    <3>2. Behind(j)' <=> Rank(Slots, j) < Offset + Size
      BY <3>1, PageTurnedFacts DEF Behind, Rank
    <3>. QED  BY <3>2
  <2>9. r \in Shown'
    BY <2>1, PageTurnedFacts
  <2>. QED  BY <2>1, <2>3, <2>5, <2>6, <2>7, <2>8, <2>9
<1>. QED  BY <1>1, <1>2 DEF AheadInv

(* What the page gives is behind afterwards, and was not before.           *)
LEMMA PageTurnedBehind ==
    ASSUME FeedInv, PageTurned
    PROVE  BehindInv'
<1> SUFFICES ASSUME listing # "threads", "inserted" \notin changed, NEW r \in RowIds
             PROVE  got'[r] <= 1 /\ (got'[r] > 0 /\ r \in Shown => Behind(r)')
  BY PageTurnedFacts DEF BehindInv
<1>1. got[r] <= 1 /\ (got[r] > 0 /\ r \in Shown => Behind(r))
  BY DEF PageTurned, FeedInv, BehindInv
<1>2. got'[r] = got[r] + In(r) /\ got[r] \in Nat
  BY PageTurnedFacts DEF Part
<1>3. /\ In(r) \in {0, 1}
      /\ In(r) = 1 <=> r \in Slots /\ ~Behind(r) /\ Rank(Slots, r) < Offset + Size
      /\ Behind(r)' <=> Rank(Slots, r) < Offset + Size
      /\ Behind(r) => Behind(r)'
  BY PageTurnedFacts
<1>4. Slots = Shown
  BY DEF Slots
<1>. QED  BY <1>1, <1>2, <1>3, <1>4

(* The same of threads, whose second row may be on the next page.          *)
LEMMA PageTurnedThread ==
    ASSUME FeedInv, PageTurned
    PROVE  ThreadInv'
<1> DEFINE e(t) == 2 * t
           o(t) == 2 * t + 1
<1> SUFFICES ASSUME listing = "threads", "inserted" \notin changed, NEW t \in RowIds
             PROVE  /\ got'[t] <= 2
                    /\ got'[t] > 0 => t \in rows /\ (Behind(e(t))' \/ (t \in tied /\ Behind(o(t))'))
                    /\ got'[t] = 2 => Behind(e(t))' /\ ("removed" \notin changed => t \in tied)
  BY PageTurnedFacts DEF ThreadInv
<1>1. /\ got[t] <= 2
      /\ got[t] > 0 => t \in rows /\ (Behind(e(t)) \/ (t \in tied /\ Behind(o(t))))
      /\ got[t] = 2 => Behind(e(t)) /\ ("removed" \notin changed => t \in tied)
  BY DEF FeedInv, ThreadInv
<1>2. t \in Nat
  BY DEF RowIds
<1>3. /\ e(t) \in Slots <=> t \in rows
      /\ o(t) \in Slots <=> t \in tied
      /\ tied \subseteq rows
  <2>1. rows \in SUBSET Nat /\ IsFiniteSet(rows) /\ tied \in SUBSET rows
    BY FeedFacts DEF FeedInv
  <2>. QED  BY <1>2, <2>1, JoinedIs DEF Slots
<1>4. e(t) \in Nat /\ o(t) \in Nat /\ e(t) < o(t)
  BY <1>2
<1>5. got'[t] = got[t] + (In(e(t)) + In(o(t))) /\ got[t] \in Nat
  BY PageTurnedFacts DEF Part
<1> HIDE DEF e, o
<1>6. \A j \in {e(t), o(t)} :
          /\ In(j) \in {0, 1}
          /\ In(j) = 1 <=> j \in Slots /\ ~Behind(j) /\ Rank(Slots, j) < Offset + Size
          /\ Behind(j)' <=> Rank(Slots, j) < Offset + Size
          /\ Behind(j) => Behind(j)'
          /\ Behind(j) <=> Rank(Slots, j) < Offset
          /\ Rank(Slots, j) \in Nat
  BY PageTurnedFacts DEF Behind
<1>7. Offset \in Nat /\ Size \in Nat
  BY PageTurnedFacts
<1>8. t \in tied => Rank(Slots, o(t)) < Rank(Slots, e(t))
  BY <1>3, <1>4, SlotFacts DEF FeedInv
<1>9. CASE In(e(t)) = 1
  <2>1. e(t) \in Slots /\ ~Behind(e(t)) /\ Behind(e(t))'
    BY <1>6, <1>9
  <2>2. got[t] <= 1 /\ (got[t] > 0 => t \in tied /\ Behind(o(t)) /\ In(o(t)) = 0)
    BY <1>1, <1>5, <1>6, <2>1
  <2>3. In(o(t)) = 1 => t \in tied
    BY <1>3, <1>6
  <2>. QED  BY <1>3, <1>5, <1>6, <1>9, <2>1, <2>2, <2>3
<1>10. CASE In(e(t)) = 0 /\ In(o(t)) = 1
  <2>1. t \in tied /\ ~Behind(o(t)) /\ Behind(o(t))' /\ ~Behind(e(t))
    BY <1>3, <1>6, <1>7, <1>8, <1>10
  <2>2. got[t] = 0
    BY <1>1, <1>5, <2>1
  <2>. QED  BY <1>3, <1>5, <1>10, <2>1, <2>2
<1>11. CASE In(e(t)) = 0 /\ In(o(t)) = 0
  BY <1>1, <1>5, <1>6, <1>11
<1>. QED  BY <1>6, <1>9, <1>10, <1>11

(* Turning the page preserves the invariant.                               *)
LEMMA PageTurnedKeeps ==
    ASSUME FeedInv, PageTurned
    PROVE  FeedInv'
<1>1. SeenInv' /\ OnePageInv' /\ LatestInv'
  <2>1. listing' \in Ordered
    BY DEF PageTurned
  <2>. QED  BY <2>1 DEF SeenInv, OnePageInv, LatestInv, Ordered, Unordered
<1>. QED
  BY <1>1, PageTurnedTypes, PageTurnedAhead, PageTurnedBehind, PageTurnedThread DEF FeedInv

----------------------------------------------------------------------------
(* A change of the rows between two pages.                                 *)

RowsMoved(what) ==
    /\ what \in {"created", "inserted", "removed", "expired"}
    /\ Change(what) /\ FeedRest /\ FeedTypeOK'
    /\ listing # "threads" => tied' = {}
    /\ what # "removed" /\ listing \in Ordered \cup {"seen"} => Shown \subseteq Shown' /\ tied \subseteq tied'
    /\ what # "inserted" /\ listing \in Ordered => Shown' \subseteq Shown /\ tied' \subseteq tied
    /\ listing = "threads" => rows \subseteq rows'

(* Ranks in two sets compare as what is above them.                        *)
LEMMA RankBelow ==
    ASSUME NEW S \in SUBSET Nat, IsFiniteSet(S), NEW T \in SUBSET Nat, NEW j, NEW k,
           {q \in T : q > j} \subseteq {q \in S : q > k}
    PROVE  Rank(T, j) <= Rank(S, k)
<1>1. IsFiniteSet({q \in S : q > k})
  BY FS_Subset
<1>2. {q \in T : q > j} \in SUBSET {q \in S : q > k}
  OBVIOUS
<1>. QED  BY <1>1, <1>2, FS_Subset DEF Rank

(* What is said of slots before and after a change of the rows.            *)
SlotsFine ==
    /\ Slots \in SUBSET Nat /\ IsFiniteSet(Slots)
    /\ rows \in SUBSET Nat /\ IsFiniteSet(rows) /\ tied \in SUBSET rows
    /\ \A j : Rank(Slots, j) \in Nat
    /\ listing = "threads" => \A t \in Nat : 2 * t + 1 \in Slots <=> t \in tied

(* It holds before a step that keeps the types.                            *)
LEMMA SlotsAreFine == FeedTypeOK /\ StartInv => SlotsFine
<1> SUFFICES ASSUME FeedTypeOK, StartInv
             PROVE  SlotsFine
  OBVIOUS
<1>1. rows \in SUBSET Nat /\ IsFiniteSet(rows) /\ tied \in SUBSET rows
  BY FeedFacts
<1>2. Slots \in SUBSET Nat /\ IsFiniteSet(Slots) /\ \A j : Rank(Slots, j) \in Nat
  BY SlotFacts
<1>3. listing = "threads" => \A t \in Nat : 2 * t + 1 \in Slots <=> t \in tied
  BY <1>1, JoinedIs DEF Slots
<1>. QED  BY <1>1, <1>2, <1>3 DEF SlotsFine

(* It holds after it.                                                      *)
LEMMA SlotsStayFine == FeedTypeOK' /\ StartInv' => SlotsFine'
<1>1. FeedTypeOK /\ StartInv => SlotsFine
  BY SlotsAreFine
<1>. QED  BY <1>1, PTL

(* A change between two pages leaves the reader alone, and is on record    *)
(* while one reads.                                                        *)
LEMMA RowsMovedFacts ==
    ASSUME FeedInv, NEW what, RowsMoved(what)
    PROVE  /\ UNCHANGED <<listing, page, held, got, base, ended, Offset>>
           /\ ~ended
           /\ changed' = IF Reading THEN changed \cup {what} ELSE changed
           /\ StartInv'
           /\ SlotsFine /\ SlotsFine'
<1>1. /\ UNCHANGED <<listing, page, held, got, base, ended>>
      /\ ~ended
      /\ changed' = IF Reading THEN changed \cup {what} ELSE changed
  BY DEF RowsMoved, Change, FeedRest
<1>2. Offset' = Offset /\ Reading' = Reading
  BY <1>1 DEF Offset, Reading
<1>3. StartInv'
  BY <1>1, <1>2 DEF FeedInv, StartInv, RowsMoved
<1>4. FeedTypeOK'
  BY DEF RowsMoved
<1>5. SlotsFine
  BY SlotsAreFine DEF FeedInv
<1>6. SlotsFine'
  BY <1>3, <1>4, SlotsStayFine
<1>. QED  BY <1>1, <1>2, <1>3, <1>5, <1>6

(* What was ahead stays ahead unless something was removed, and what was   *)
(* behind stays behind unless something was inserted.                      *)
LEMMA SlotsMoved ==
    ASSUME FeedInv, NEW what, RowsMoved(what), listing \in Ordered
    PROVE  /\ what # "removed" => \A j : Behind(j)' => Behind(j)
           /\ what # "inserted" => \A j : Behind(j) => Behind(j)'
           /\ what # "inserted" /\ listing = "threads" =>
                 \A t \in tied \ tied' : Behind(2 * t + 1) => Behind(2 * t)'
<1>1. /\ Slots \in SUBSET Nat /\ IsFiniteSet(Slots)
      /\ rows \in SUBSET Nat /\ IsFiniteSet(rows) /\ tied \in SUBSET rows
  BY FeedFacts, SlotFacts DEF FeedInv
<1>2. /\ Slots' \in SUBSET Nat /\ IsFiniteSet(Slots')
      /\ rows' \in SUBSET Nat /\ IsFiniteSet(rows') /\ tied' \in SUBSET rows'
  BY RowsMovedFacts DEF SlotsFine
<1>3. listing' = listing /\ Offset' = Offset /\ Offset \in Nat
  BY RowsMovedFacts, FeedFacts DEF FeedInv
<1>4. listing = "threads" => Shown = rows /\ Shown' = rows'
  BY <1>3 DEF Shown, Verifiable
<1>5. what # "removed" => Slots \subseteq Slots'
  BY <1>3, <1>4 DEF RowsMoved, Slots, Joined
<1>6. what # "inserted" => Slots' \subseteq Slots
  BY <1>3, <1>4 DEF RowsMoved, Slots, Joined
<1>7. \A j : /\ Behind(j) <=> Rank(Slots, j) < Offset
             /\ Behind(j)' <=> Rank(Slots', j) < Offset
             /\ Rank(Slots, j) \in Nat /\ Rank(Slots', j) \in Nat
  <2>1. \A j : Rank(Slots, j)' = Rank(Slots', j)
    BY DEF Rank
  <2>2. \A j : Rank(Slots, j) \in Nat /\ Rank(Slots, j)' \in Nat
    BY RowsMovedFacts DEF SlotsFine
  <2>. QED  BY <1>3, <2>1, <2>2 DEF Behind
<1>8. ASSUME what # "removed", NEW j
      PROVE  Behind(j)' => Behind(j)
  <2>1. Rank(Slots, j) <= Rank(Slots', j)
    BY <1>1, <1>2, <1>5, <1>8, RankGrows
  <2>. QED  BY <1>3, <1>7, <2>1
<1>9. ASSUME what # "inserted", NEW j
      PROVE  Behind(j) => Behind(j)'
  <2>1. Rank(Slots', j) <= Rank(Slots, j)
    BY <1>1, <1>2, <1>6, <1>9, RankGrows
  <2>. QED  BY <1>3, <1>7, <2>1
<1>10. ASSUME what # "inserted", listing = "threads", NEW t \in tied \ tied'
       PROVE  Behind(2 * t + 1) => Behind(2 * t)'
  <2> DEFINE e == 2 * t
             o == 2 * t + 1
  <2>1. t \in Nat
    BY <1>1
  <2>2. o \notin Slots'
    <3>1. \A s \in Nat : 2 * s + 1 \in Slots' <=> s \in tied'
      BY <1>3, <1>10, RowsMovedFacts DEF SlotsFine
    <3>. QED  BY <1>10, <2>1, <3>1
  <2>3. \A q \in Nat : q > e => q = o \/ q > o
    BY <2>1
  <2> HIDE DEF e, o
  <2>4. {q \in Slots' : q > e} \subseteq {q \in Slots : q > o}
    BY <1>1, <1>6, <1>10, <2>2, <2>3
  <2>5. Rank(Slots', e) <= Rank(Slots, o)
    BY <1>1, <1>2, <2>4, RankBelow
  <2>6. Behind(o) => Behind(e)'
    BY <1>3, <1>7, <2>5
  <2>. QED  BY <2>6 DEF e, o
<1>. QED  BY <1>8, <1>9, <1>10

(* A change of the rows preserves the invariant.                           *)
LEMMA RowsMovedKeeps ==
    ASSUME FeedInv, NEW what, RowsMoved(what)
    PROVE  FeedInv'
<1>1. /\ UNCHANGED <<listing, page, held, got, base, ended, Offset>> /\ ~ended
      /\ changed' = IF Reading THEN changed \cup {what} ELSE changed
      /\ FeedTypeOK' /\ StartInv'
  BY RowsMovedFacts DEF RowsMoved
<1>2. got \in [RowIds -> Nat] /\ base \subseteq RowIds
  BY DEF FeedInv, FeedTypeOK
<1>3. ~Reading => base = {} /\ page = 0 /\ held = NotAsked /\ \A r \in RowIds : got[r] = 0
  BY DEF FeedInv, FeedTypeOK, StartInv, Reading
<1>4. AheadInv'
  <2> SUFFICES ASSUME listing \in Ordered, "removed" \notin changed', NEW r \in base
               PROVE  r \in Shown' /\ (got[r] > 0 \/ ~Behind(SlotOf(r))')
    BY <1>1 DEF AheadInv
  <2>1. Reading /\ what # "removed" /\ "removed" \notin changed
    BY <1>1, <1>3
  <2>2. r \in Shown /\ (got[r] > 0 \/ ~Behind(SlotOf(r)))
    BY <2>1 DEF FeedInv, AheadInv
  <2>3. r \in Shown'
    BY <2>1, <2>2 DEF RowsMoved
  <2> DEFINE j == SlotOf(r)
  <2>4. j' = j
    BY <1>1 DEF SlotOf
  <2>5. \A k : Behind(k)' => Behind(k)
    BY <2>1, SlotsMoved
  <2>6. Behind(j)' => Behind(j)
    BY <2>4, <2>5 DEF Behind, Rank
  <2>. QED  BY <2>2, <2>3, <2>6
<1>5. BehindInv'
  <2> SUFFICES ASSUME listing \in Ordered \ {"threads"}, "inserted" \notin changed', NEW r \in RowIds
               PROVE  got[r] <= 1 /\ (got[r] > 0 /\ r \in Shown' => Behind(r)')
    BY <1>1 DEF BehindInv
  <2>1. CASE ~Reading
    BY <1>3, <2>1
  <2>2. CASE Reading
    <3>1. what # "inserted" /\ "inserted" \notin changed
      BY <1>1, <2>2
    <3>2. Shown' \subseteq Shown
      BY <3>1 DEF RowsMoved
    <3>3. Behind(r) => Behind(r)'
      BY <3>1, SlotsMoved
    <3>. QED  BY <3>1, <3>2, <3>3 DEF FeedInv, BehindInv
  <2>. QED  BY <2>1, <2>2
<1>6. ThreadInv'
  <2> SUFFICES ASSUME listing = "threads", "inserted" \notin changed', NEW t \in RowIds
               PROVE  /\ got[t] <= 2
                      /\ got[t] > 0 => t \in rows' /\ (Behind(2 * t)' \/ (t \in tied' /\ Behind(2 * t + 1)'))
                      /\ got[t] = 2 => Behind(2 * t)' /\ ("removed" \notin changed' => t \in tied')
    BY <1>1 DEF ThreadInv
  <2>1. CASE ~Reading
    BY <1>3, <2>1
  <2>2. CASE Reading
    <3>1. what # "inserted" /\ "inserted" \notin changed
      BY <1>1, <2>2
    <3>2. /\ got[t] <= 2
          /\ got[t] > 0 => t \in rows /\ (Behind(2 * t) \/ (t \in tied /\ Behind(2 * t + 1)))
          /\ got[t] = 2 => Behind(2 * t) /\ ("removed" \notin changed => t \in tied)
      BY <3>1 DEF FeedInv, ThreadInv
    <3>3. /\ Behind(2 * t) => Behind(2 * t)'
          /\ Behind(2 * t + 1) => Behind(2 * t + 1)'
          /\ t \in tied \ tied' => (Behind(2 * t + 1) => Behind(2 * t)')
      BY <3>1, SlotsMoved DEF Ordered
    <3>4. rows \subseteq rows'
      BY DEF RowsMoved
    <3>5. "removed" \notin changed' => "removed" \notin changed /\ tied \subseteq tied'
      BY <1>1, <2>2 DEF RowsMoved, Ordered
    <3>. QED  BY <3>2, <3>3, <3>4, <3>5
  <2>. QED  BY <2>1, <2>2
<1>7. SeenInv'
  <2> SUFFICES ASSUME listing = "seen"
               PROVE  /\ \A r \in RowIds : got[r] <= 1
                      /\ "removed" \notin changed' => base \subseteq approved'
                      /\ Offset <= Cardinality({r \in RowIds : got[r] > 0})
    BY <1>1 DEF SeenInv
  <2>1. Shown = approved /\ Shown' = approved'
    BY <1>1 DEF Shown, Verifiable
  <2>2. ASSUME "removed" \notin changed', Reading
        PROVE  base \subseteq approved'
    <3>1. what # "removed" /\ "removed" \notin changed
      BY <1>1, <2>2
    <3>. QED  BY <2>1, <3>1 DEF FeedInv, SeenInv, RowsMoved
  <2>. QED  BY <1>1, <1>3, <2>2 DEF FeedInv, SeenInv
<1>8. OnePageInv'
  BY <1>1, <1>3 DEF OnePageInv
<1>9. LatestInv'
  <2> SUFFICES ASSUME ~Reading
               PROVE  LatestInv'
    BY <1>1 DEF LatestInv
  <2>1. Offset = 0
    BY <1>3, FeedsAssumption DEF Offset
  <2>2. \A r \in RowIds : ~(Rank(rows, r)' < Offset)
    <3>1. \A r : Rank(rows', r) \in Nat
      <4>1. rows' \in SUBSET Nat /\ IsFiniteSet(rows')
        BY RowsMovedFacts DEF SlotsFine
      <4>. QED  BY <4>1, RankFacts
    <3>2. \A r : Rank(rows, r)' = Rank(rows', r)
      BY DEF Rank
    <3>. QED  BY <2>1, <3>1, <3>2
  <2>3. Reading' = Reading
    BY <1>1 DEF Reading
  <2>. QED  BY <1>1, <1>3, <2>2, <2>3 DEF LatestInv
<1>. QED  BY <1>1, <1>4, <1>5, <1>6, <1>7, <1>8, <1>9 DEF FeedInv

(* Every action on the rows is such a change.                              *)
LEMMA ChangesMove ==
    ASSUME FeedInv,
           \/ RowCreated \/ NewestExpires
           \/ \E r \in RowIds : RowVerified(r) \/ RowDeclined(r) \/ RowDeleted(r) \/ ThreadMessage(r)
    PROVE  \E what : RowsMoved(what)
<1> USE DEF FeedInv, FeedTypeOK, StartInv, RowsMoved, Change, FeedRest
<1>0. FeedsAssumption
  BY FeedsAssumption
<1>1. CASE RowCreated
  <2> DEFINE w == IF Verifiable THEN "created" ELSE "inserted"
  <2>1. Shown \subseteq Shown' /\ (Verifiable /\ listing \in Ordered => Shown' = Shown)
    BY <1>1 DEF RowCreated, Shown, Verifiable, AgentRows, UnverifiedRows, Ordered
  <2>2. FeedTypeOK'
    BY <1>0, <1>1 DEF RowCreated, FeedsAssumption
  <2>3. RowsMoved(w)
    BY <1>1, <2>1, <2>2 DEF RowCreated
  <2>. QED  BY <2>3
<1>2. CASE NewestExpires
  <2>1. Shown' = Shown
    BY <1>2 DEF NewestExpires, Shown, Verifiable, AgentRows, UnverifiedRows
  <2>2. FeedTypeOK'
    BY <1>0, <1>2 DEF NewestExpires, FeedsAssumption
  <2>3. RowsMoved("expired")
    BY <1>2, <2>1, <2>2 DEF NewestExpires
  <2>. QED  BY <2>3
<1>3. ASSUME NEW r \in RowIds, RowVerified(r)
      PROVE  RowsMoved("inserted")
  <2>1. listing \in Ordered \cup {"seen"} => Shown \subseteq Shown'
    BY <1>3 DEF RowVerified, Shown, Verifiable, Ordered
  <2>2. FeedTypeOK'
    BY <1>0, <1>3 DEF RowVerified, FeedsAssumption
  <2>. QED  BY <1>3, <2>1, <2>2 DEF RowVerified
<1>4. ASSUME NEW r \in RowIds, RowDeclined(r)
      PROVE  RowsMoved("removed")
  <2>1. listing \in Ordered => Shown' \subseteq Shown
    BY <1>4 DEF RowDeclined, Shown, Verifiable, Ordered
  <2>2. FeedTypeOK'
    BY <1>0, <1>4 DEF RowDeclined, FeedsAssumption
  <2>. QED  BY <1>4, <2>1, <2>2 DEF RowDeclined
<1>5. ASSUME NEW r \in RowIds, RowDeleted(r)
      PROVE  RowsMoved("removed")
  <2>1. listing \in Ordered => Shown' \subseteq Shown
    BY <1>5 DEF RowDeleted, Shown, Verifiable, Ordered
  <2>2. FeedTypeOK'
    BY <1>0, <1>5 DEF RowDeleted, FeedsAssumption
  <2>. QED  BY <1>5, <2>1, <2>2 DEF RowDeleted
<1>6. ASSUME NEW t \in RowIds, ThreadMessage(t)
      PROVE  RowsMoved(IF t \in tied THEN "removed" ELSE "inserted")
  <2>1. Shown' = Shown
    BY <1>6 DEF ThreadMessage, Shown, Verifiable
  <2>2. FeedTypeOK'
    BY <1>0, <1>6 DEF ThreadMessage, FeedsAssumption
  <2>. QED  BY <1>6, <2>1, <2>2 DEF ThreadMessage
<1>. QED  BY <1>1, <1>2, <1>3, <1>4, <1>5, <1>6

----------------------------------------------------------------------------
(* The page without the rows that were seen.                               *)

GotRows == {r \in RowIds : got[r] > 0}
(* What discover leaves when it is given the ids that were seen.           *)
UnseenRows == {r \in approved : got[r] = 0}

(* A page of discover with seen_ids preserves the invariant.               *)
LEMMA UnseenKeeps ==
    ASSUME FeedInv, DiscoverUnseen
    PROVE  FeedInv'
<1> DEFINE U == UnseenRows
           W == Window(U, 0, Size)
           c == Cut(SortDown(U), 0, Size + 1)
           n == Cardinality(U)
           G == GotRows
<1>1. /\ listing = "seen" /\ ~ended /\ UNCHANGED <<tables, listing, held, changed, moves>>
      /\ page' = page + 1 /\ base' = IF page = 0 THEN Shown ELSE base
      /\ got' = Given(Cut(c, 0, Size)) /\ ended' \in BOOLEAN
      /\ ended' <=> Len(c) <= Size \/ page + 1 = MaxPage
  BY DEF DiscoverUnseen, ReadWithMore, Turn, Unseen, UnseenRows
<1>2. /\ Size \in Nat /\ Size > 0 /\ Offset \in Nat /\ MaxRow \in Nat
      /\ approved \in SUBSET RowIds /\ U \in SUBSET RowIds /\ G \in SUBSET RowIds
      /\ got \in [RowIds -> Nat] /\ base \in SUBSET RowIds /\ page \in Nat
  BY FeedFacts DEF FeedInv, FeedTypeOK, UnseenRows, GotRows
<1>3. /\ U \in SUBSET Nat /\ IsFiniteSet(U) /\ n \in Nat
      /\ IsFiniteSet(G) /\ Cardinality(G) \in Nat /\ IsFiniteSet(G \cup U)
      /\ Cardinality(G \cup U) <= MaxRow
  <2>1. G \cup U \in SUBSET RowIds
    BY <1>2
  <2> HIDE DEF U, G, n
  <2>2. \A S \in SUBSET RowIds :
           S \in SUBSET Nat /\ IsFiniteSet(S) /\ Cardinality(S) \in Nat /\ Cardinality(S) <= MaxRow
    BY FeedFacts DEF FeedInv
  <2>. QED  BY <1>2, <2>1, <2>2 DEF n
<1>4. G \cap U = {}
  BY <1>2 DEF GotRows, UnseenRows
<1>5. \A r \in RowIds : Times(Cut(c, 0, Size), r) = IF r \in W THEN 1 ELSE 0
  <2> HIDE DEF U
  <2>1. SortDown(U) \in Seq(U) /\ 0 \in Nat
    BY <1>3, SortedIs
  <2>2. Cut(c, 0, Size) = Cut(SortDown(U), 0, Size)
    BY <1>2, <2>1, CutOfCut
  <2> HIDE DEF c, n, G
  <2>3. \A r : Times(Cut(SortDown(U), 0, Size), r) = IF r \in W THEN 1 ELSE 0
    BY <1>2, <1>3, <2>1, PageTimes
  <2>. QED  BY <2>2, <2>3
<1>6. Len(c) = Fits(n, 0, Size + 1)
  <2> HIDE DEF U
  <2>1. Size + 1 \in Nat /\ 0 \in Nat
    BY <1>2
  <2>. QED  BY <1>3, <2>1, PageIs
<1> HIDE DEF c
<1>7. W \in SUBSET U
  BY DEF Window
<1>8. \A r \in RowIds : got'[r] = got[r] + (IF r \in W THEN 1 ELSE 0)
  BY <1>1, <1>5 DEF Given
<1>9. got' \in [RowIds -> Nat]
  <2>1. got' = [r \in RowIds |-> got[r] + (IF r \in W THEN 1 ELSE 0)]
    BY <1>1, <1>5 DEF Given
  <2> HIDE DEF W
  <2>. QED  BY <1>2, <2>1
<1>10. \A r \in W : got[r] = 0 /\ r \in RowIds
  BY <1>2, <1>7 DEF UnseenRows
<1> HIDE DEF U, W, n, G
<1>11. Offset' = Offset + Size
  BY <1>1, OffsetTurns DEF FeedInv
<1>12. Shown = approved /\ Shown' = approved'
  BY <1>1 DEF Shown, Verifiable
<1>13. FeedTypeOK' /\ StartInv'
  <2>1. FeedTypeOK'
    BY <1>1, <1>2, <1>9, <1>12 DEF FeedInv, FeedTypeOK, tables
  <2>2. page \in Nat /\ MaxPage \in Nat /\ page <= MaxPage /\ page # MaxPage
    BY <1>1, FeedsAssumption DEF FeedInv, FeedTypeOK, StartInv
  <2>3. held = NotAsked /\ tied = {}
    BY <1>1 DEF FeedInv, StartInv
  <2>4. StartInv'
    BY <1>1, <2>2, <2>3 DEF StartInv, Reading, tables
  <2>. QED  BY <2>1, <2>4
<1>14. \A r \in RowIds : got'[r] <= 1
  BY <1>1, <1>2, <1>8, <1>10 DEF FeedInv, SeenInv
<1>15. "removed" \notin changed' => base' \subseteq approved'
  BY <1>1, <1>12 DEF FeedInv, SeenInv, tables
<1>16. n <= Size => W = U
  <2>1. \A r \in U : Rank(U, r) \in Nat /\ Rank(U, r) < n
    BY <1>3, RankFacts DEF n
  <2>2. n <= Size => \A r \in U : 0 <= Rank(U, r) /\ Rank(U, r) < 0 + Size
    BY <1>2, <1>3, <2>1
  <2>3. n <= Size => \A r \in U : r \in W
    BY <2>2 DEF W, Window
  <2>. QED  BY <1>7, <2>3
<1>17. ASSUME ended'
       PROVE  \A r \in approved' : got'[r] > 0
  <2>1. n <= Size
    <3>1. CASE Len(c) <= Size
      BY <1>2, <1>3, <1>6, <3>1 DEF Fits
    <3>2. CASE page + 1 = MaxPage
      <4>1. 2 * MaxRow < Offset + Size
        BY <3>2, LastPage DEF FeedInv
      <4>2. Offset <= Cardinality(G)
        BY <1>1 DEF FeedInv, SeenInv, GotRows, G
      <4>3. Cardinality(G \cup U) = Cardinality(G) + n
        <5>1. Cardinality(G \cup U) = Cardinality(G) + Cardinality(U) - Cardinality(G \cap U)
          BY <1>3, FS_Union
        <5>2. Cardinality(G \cap U) = 0
          BY <1>4, FS_EmptySet
        <5>. QED  BY <1>3, <5>1, <5>2 DEF n
      <4>. QED  BY <1>2, <1>3, <4>1, <4>2, <4>3
    <3>. QED  BY <1>1, <1>17, <3>1, <3>2
  <2>2. \A r \in approved : r \in RowIds /\ (got[r] > 0 \/ r \in W)
    BY <1>2, <1>16, <2>1 DEF U, UnseenRows
  <2>3. approved' = approved
    BY <1>1 DEF tables
  <2>. QED  BY <1>2, <1>8, <2>2, <2>3
<1>18. ASSUME ~ended'
       PROVE  Offset' <= Cardinality(GotRows')
  <2>1. Size <= n
    BY <1>1, <1>2, <1>3, <1>6, <1>18 DEF Fits
  <2>2. 0 \in Nat /\ 0 + Size <= n
    BY <1>2, <2>1
  <2>3. IsFiniteSet(W) /\ Cardinality(W) = Size
    BY <1>2, <1>3, <2>2, WindowHolds DEF W, n
  <2>4. GotRows' = G \cup W
    <3>1. \A r \in RowIds : got'[r] > 0 <=> got[r] > 0 \/ r \in W
      BY <1>2, <1>8
    <3>. QED  BY <1>10, <3>1 DEF G, GotRows
  <2>5. G \cap W = {}
    BY <1>4, <1>7 DEF W, U
  <2>6. Cardinality(G \cup W) = Cardinality(G) + Size
    <3>1. Cardinality(G \cup W) = Cardinality(G) + Cardinality(W) - Cardinality(G \cap W)
      BY <1>3, <2>3, FS_Union
    <3>2. Cardinality(G \cap W) = 0
      BY <2>5, FS_EmptySet
    <3>. QED  BY <1>2, <1>3, <2>3, <3>1, <3>2
  <2>7. Offset <= Cardinality(G)
    BY <1>1 DEF FeedInv, SeenInv, GotRows, G
  <2>. QED  BY <1>2, <1>3, <1>11, <2>4, <2>6, <2>7
<1>19. SeenInv'
  BY <1>14, <1>15, <1>17, <1>18 DEF SeenInv, GotRows
<1>20. listing' = "seen"
  BY <1>1
<1>21. AheadInv' /\ BehindInv' /\ ThreadInv' /\ OnePageInv' /\ LatestInv'
  BY <1>20 DEF AheadInv, BehindInv, ThreadInv, OnePageInv, LatestInv, Ordered, Unordered
<1>. QED  BY <1>13, <1>19, <1>21 DEF FeedInv

----------------------------------------------------------------------------
(* A page without an order.                                                *)

LEMMA OneTurn ==
    ASSUME FeedInv, listing \in Unordered, ~ended, NEW T \in SUBSET rows, NEW t \in AnyPage(T),
           NEW u \in SUBSET t, t = T => u = Shown, ReadByOffset(SortDown(u))
    PROVE  FeedInv'
<1>1. /\ Size \in Nat /\ Size > 0 /\ Offset \in Nat /\ page \in Nat /\ got \in [RowIds -> Nat]
      /\ T \in SUBSET Nat /\ IsFiniteSet(T) /\ Cardinality(T) \in Nat
      /\ u \in SUBSET Nat /\ IsFiniteSet(u) /\ rows \in SUBSET RowIds
      /\ IsFiniteSet(rows) /\ Cardinality(rows) \in Nat /\ Cardinality(T) <= Cardinality(rows)
  <2>1. rows \in SUBSET RowIds /\ T \in SUBSET RowIds /\ u \in SUBSET RowIds
    BY FeedFacts DEF FeedInv, AnyPage
  <2>2. IsFiniteSet(rows)
    BY <2>1, FeedFacts DEF FeedInv
  <2>. QED  BY <2>1, <2>2, FeedFacts, FS_Subset DEF FeedInv, FeedTypeOK
<1>2. t \in SUBSET T /\ Cardinality(t) = Fits(Cardinality(T), Offset, Size)
  <2>1. Len(Cut(SortDown(T), Offset, Size)) = Fits(Cardinality(T), Offset, Size)
    BY <1>1, PageIs
  <2>. QED  BY <2>1 DEF AnyPage
<1>3. /\ UNCHANGED <<tables, listing, held, changed, moves>>
      /\ page' = page + 1 /\ base' = IF page = 0 THEN Shown ELSE base
      /\ ended' \in BOOLEAN /\ (page + 1 = MaxPage => ended')
  BY DEF ReadByOffset, Turn
<1>4. \A r : Times(SortDown(u), r) = IF r \in u THEN 1 ELSE 0
  BY <1>1, SortedIs
<1>5. got' = [r \in RowIds |-> got[r] + (IF r \in u THEN 1 ELSE 0)]
  BY <1>4 DEF ReadByOffset, Turn, Given
<1>6. got' \in [RowIds -> Nat]
  BY <1>1, <1>5
<1>7. Shown' = Shown /\ Shown \in SUBSET RowIds
  <2>1. Shown \in SUBSET rows
    BY FeedFacts DEF FeedInv
  <2>. QED  BY <1>1, <1>3, <2>1 DEF Shown, Verifiable, AgentRows, UnverifiedRows, tables
<1>8. FeedTypeOK' /\ StartInv'
  <2>1. FeedTypeOK'
    BY <1>3, <1>6, <1>7 DEF FeedInv, FeedTypeOK, tables
  <2>2. page \in Nat /\ MaxPage \in Nat /\ page <= MaxPage /\ page # MaxPage
    BY FeedsAssumption DEF FeedInv, FeedTypeOK, StartInv
  <2>3. held = NotAsked /\ tied = {} /\ listing # "latest"
    BY DEF FeedInv, StartInv, Unordered
  <2>4. StartInv'
    BY <1>3, <2>2, <2>3 DEF StartInv, Reading, tables
  <2>. QED  BY <2>1, <2>4
<1>9. ASSUME changed' = {}, Cardinality(rows') <= Size
      PROVE  base' = Shown' /\ \A r \in RowIds : got'[r] = IF r \in base' THEN 1 ELSE 0
  <2>1. changed = {} /\ Cardinality(rows) <= Size
    BY <1>3, <1>9 DEF tables
  <2>2. CASE page = 0
    <3>1. Offset = 0
      BY <1>1, <2>2 DEF Offset
    <3>2. Fits(Cardinality(T), 0, Size) = Cardinality(T)
      <4> DEFINE n == Cardinality(T)
      <4>1. n \in Nat /\ n <= Size
        BY <1>1, <2>1
      <4> HIDE DEF n
      <4>2. Fits(n, 0, Size) = n
        BY <1>1, <4>1 DEF Fits
      <4>. QED  BY <4>2 DEF n
    <3>3. t = T
      BY <1>1, <1>2, <3>1, <3>2, FS_Subset
    <3>4. \A r \in RowIds : got[r] = 0
      BY <2>2 DEF FeedInv, StartInv
    <3>. QED  BY <1>3, <1>5, <1>7, <2>2, <3>3, <3>4
  <2>3. CASE page # 0
    <3>1. Offset >= Size
      <4>1. \E k \in Nat : page = k + 1
        <5>1. page - 1 \in Nat /\ page = (page - 1) + 1
          BY <1>1, <2>3
        <5>. QED  BY <5>1
      <4>2. PICK k \in Nat : page = k + 1
        BY <4>1
      <4>3. page * Size = k * Size + Size /\ k * Size \in Nat
        BY <1>1, <4>2
      <4>. QED  BY <1>1, <4>3 DEF Offset
    <3>2. Fits(Cardinality(T), Offset, Size) = 0
      <4> DEFINE n == Cardinality(T)
      <4>1. n \in Nat /\ n <= Size
        BY <1>1, <2>1
      <4> HIDE DEF n
      <4>2. Fits(n, Offset, Size) = 0
        BY <1>1, <3>1, <4>1 DEF Fits
      <4>. QED  BY <4>2 DEF n
    <3>3. t = {}
      <4>1. IsFiniteSet(t)
        BY <1>1, <1>2, FS_Subset
      <4>. QED  BY <1>2, <3>2, <4>1, FS_EmptySet
    <3>4. base = Shown /\ \A r \in RowIds : got[r] = IF r \in base THEN 1 ELSE 0
      BY <2>1, <2>3 DEF FeedInv, OnePageInv
    <3>5. u = {}
      BY <3>3
    <3>. QED  BY <1>1, <1>3, <1>5, <1>7, <2>3, <3>4, <3>5
  <2>. QED  BY <2>2, <2>3
<1>10. OnePageInv'
  BY <1>9 DEF OnePageInv
<1>11. AheadInv' /\ BehindInv' /\ ThreadInv' /\ SeenInv' /\ LatestInv'
  BY <1>3 DEF AheadInv, BehindInv, ThreadInv, SeenInv, LatestInv, Ordered, Unordered
<1>. QED  BY <1>8, <1>10, <1>11 DEF FeedInv

(* So does a page of a listing without an order.                           *)
LEMMA UnorderedKeeps ==
    ASSUME FeedInv, ReadAgentRows \/ ReadUnverified \/ ReadVerified
    PROVE  FeedInv'
<1>1. ASSUME NEW T \in SUBSET rows, NEW t \in AnyPage(T)
      PROVE  t \in SUBSET t /\ t \cap approved \in SUBSET t /\ t \in SUBSET T
  BY DEF AnyPage
<1>2. CASE ReadAgentRows
  <2>1. listing \in Unordered /\ ~ended /\ Shown = rows /\ AgentRows = rows
    BY <1>2 DEF ReadAgentRows, Unordered, Shown, Verifiable, AgentRows
  <2>2. PICK t \in AnyPage(rows) : ReadByOffset(SortDown(t))
    BY <1>2, <2>1 DEF ReadAgentRows
  <2>. QED  BY <1>1, <2>1, <2>2, OneTurn
<1>3. CASE ReadUnverified
  <2>1. listing \in Unordered /\ ~ended /\ Shown = UnverifiedRows /\ UnverifiedRows \in SUBSET rows
    BY <1>3 DEF ReadUnverified, Unordered, Shown, UnverifiedRows
  <2>2. PICK t \in AnyPage(UnverifiedRows) : ReadByOffset(SortDown(t))
    BY <1>3 DEF ReadUnverified
  <2>. QED  BY <1>1, <2>1, <2>2, OneTurn
<1>4. CASE ReadVerified
  <2>1. listing \in Unordered /\ ~ended /\ Shown = approved /\ approved \subseteq rows
    BY <1>4 DEF ReadVerified, Unordered, Shown, Verifiable, FeedInv, FeedTypeOK
  <2>2. PICK t \in AnyPage(rows) : ReadByOffset(SortDown(t \cap approved))
    BY <1>4 DEF ReadVerified
  <2>3. t = rows => t \cap approved = Shown
    BY <2>1
  <2>4. t \cap approved \in SUBSET t /\ rows \in SUBSET rows
    OBVIOUS
  <2>. QED  BY <2>1, <2>2, <2>3, <2>4, OneTurn
<1>. QED  BY <1>2, <1>3, <1>4

----------------------------------------------------------------------------
(* The latest properties.                                                  *)

LEMMA RankSplit ==
    ASSUME NEW S \in SUBSET Nat, IsFiniteSet(S), NEW N \in SUBSET S,
           \A r \in S \ N, n \in N : r < n
    PROVE  /\ \A r \in N : Rank(S, r) = Rank(N, r)
           /\ \A r \in S \ N : Rank(S, r) = Cardinality(N) + Rank(S \ N, r)
<1>1. IsFiniteSet(N) /\ Cardinality(N) \in Nat
  BY FS_Subset, FS_CardinalityType
<1>2. ASSUME NEW r \in N
      PROVE  Rank(S, r) = Rank(N, r)
  <2>1. \A q \in S \ N : ~(q > r)
    <3>1. \A q \in S \ N : q \in Nat /\ r \in Nat /\ q < r
      OBVIOUS
    <3>. QED  BY <3>1
  <2>2. {q \in S : q > r} = {q \in N : q > r}
    BY <2>1
  <2>. QED  BY <2>2 DEF Rank
<1>3. ASSUME NEW r \in S \ N
      PROVE  Rank(S, r) = Cardinality(N) + Rank(S \ N, r)
  <2> DEFINE A == {q \in S \ N : q > r}
  <2>1. \A n \in N : n > r
    <3>1. \A n \in N : n \in Nat /\ r \in Nat /\ r < n
      OBVIOUS
    <3>. QED  BY <3>1
  <2>2. {q \in S : q > r} = N \cup A /\ N \cap A = {}
    BY <2>1
  <2>3. A \in SUBSET S
    OBVIOUS
  <2>4. Rank(S, r) = Cardinality(N \cup A) /\ Rank(S \ N, r) = Cardinality(A)
    BY <2>2 DEF Rank
  <2> HIDE DEF A
  <2>5. IsFiniteSet(A) /\ Cardinality(A) \in Nat
    BY <2>3, FS_Subset, FS_CardinalityType
  <2>6. Cardinality(N \cup A) = Cardinality(N) + Cardinality(A) - Cardinality(N \cap A)
    BY <1>1, <2>5, FS_Union
  <2>7. Cardinality(N \cap A) = 0
    BY <2>2, FS_EmptySet
  <2>8. Cardinality(N \cup A) = Cardinality(N) + Cardinality(A) - 0
    BY <2>6, <2>7
  <2>. QED  BY <1>1, <2>4, <2>5, <2>8
<1>. QED  BY <1>2, <1>3

(* No multiple lies inside a page.                                         *)
LEMMA NoneBetween ==
    ASSUME NEW p \in Nat, NEW k \in Nat, NEW s \in Nat
    PROVE  ~(p * s < k * s /\ k * s < p * s + s)
<1>1. CASE k <= p
  <2>1. p - k \in Nat /\ p = k + (p - k)
    BY <1>1
  <2>2. PICK d \in Nat : p = k + d
    BY <2>1
  <2>3. p * s = k * s + d * s /\ d * s \in Nat /\ k * s \in Nat
    BY <2>2
  <2>. QED  BY <2>3
<1>2. CASE k > p
  <2>1. k - (p + 1) \in Nat /\ k = p + 1 + (k - (p + 1))
    BY <1>2
  <2>2. PICK d \in Nat : k = p + 1 + d
    BY <2>1
  <2>3. k * s = p * s + s + d * s /\ d * s \in Nat /\ p * s \in Nat
    BY <2>2
  <2>. QED  BY <2>3
<1>. QED  BY <1>1, <1>2

(* What has no remainder is a multiple.                                    *)
LEMMA DividesIs ==
    ASSUME NEW n \in Nat, NEW s \in Nat, s > 0, n % s = 0
    PROVE  \E k \in Nat : n = k * s
<1>1. n = s * (n \div s) /\ n \div s \in Nat
  OBVIOUS
<1>2. n = (n \div s) * s
  BY <1>1
<1>. QED  BY <1>1, <1>2

(* Some rows of a table are its newest, and do not end inside a page after *)
(* the first one.                                                          *)
AreNewest(N, S) == \A r \in S \ N, n \in N : r < n
(* The ids in Redis end at the end of a page, or on the first one; pages   *)
(* begin at multiples of their size.                                       *)
FillPages(n, l) == n <= l \/ n % l = 0
PageAt(a, p, l) == a = p * l

(* The ids that Redis gives for a page, then the rest from the table, are  *)
(* the page of the table.                                                  *)
LatestFits(N, S, a, l) ==
    /\ a + l <= Cardinality(N) =>
          Cardinality(Window(N, a, l)) = l /\ Window(S, a, l) = Window(N, a, l)
    /\ Cardinality(N) <= a => Window(N, a, l) = {}
    /\ a < Cardinality(N) /\ Cardinality(N) < a + l =>
          /\ a = 0 /\ Window(N, a, l) = N /\ Cardinality(N) < l
          /\ Window(S, 0, l) = N \cup Window(S \ N, 0, l - Cardinality(N))

(* Then what Redis gives for a page and what the table adds to it are the  *)
(* rows of the window.                                                     *)
LEMMA LatestPage ==
    ASSUME NEW S \in SUBSET Nat, IsFiniteSet(S), NEW N \in SUBSET S,
           NEW p \in Nat, NEW l \in Nat, l > 0, NEW a \in Nat, PageAt(a, p, l),
           AreNewest(N, S), FillPages(Cardinality(N), l)
    PROVE  LatestFits(N, S, a, l)
<1> DEFINE n == Cardinality(N)
           ids == Window(N, a, l)
<1>1. a \in Nat /\ n \in Nat /\ N \in SUBSET Nat /\ IsFiniteSet(N)
  BY FS_Subset, FS_CardinalityType
<1>2. /\ \A r \in S : Rank(S, r) \in Nat
      /\ \A r \in N : Rank(N, r) \in Nat /\ Rank(N, r) < n /\ Rank(S, r) = Rank(N, r)
      /\ \A r \in S \ N : Rank(S \ N, r) \in Nat /\ Rank(S, r) = n + Rank(S \ N, r)
  <2>1. IsFiniteSet(S \ N) /\ S \ N \in SUBSET Nat
    BY FS_Subset
  <2>. QED  BY <1>1, <2>1, RankFacts, RankSplit DEF AreNewest
<1>3. (n <= l \/ n % l = 0) /\ a = p * l
  BY DEF FillPages, PageAt
<1> HIDE DEF n
<1>4. ASSUME a + l <= n
      PROVE  Cardinality(ids) = l /\ Window(S, a, l) = ids
  <2>1. Cardinality(ids) = l
    BY <1>1, <1>4, WindowHolds DEF n
  <2>2. \A r \in S \ N : ~(Rank(S, r) < a + l)
    BY <1>1, <1>2, <1>4
  <2>. QED  BY <1>2, <2>1, <2>2 DEF Window
<1>5. ASSUME n <= a
      PROVE  ids = {}
  <2>1. \A r \in N : ~(a <= Rank(N, r))
    BY <1>1, <1>2, <1>5
  <2>. QED  BY <2>1 DEF Window
<1>6. ASSUME a < n, n < a + l
      PROVE  /\ a = 0 /\ ids = N /\ n < l
             /\ Window(S, 0, l) = N \cup Window(S \ N, 0, l - n)
  <2>1. a = 0
    <3>1. CASE n <= l
      <4>1. CASE p = 0
        BY <1>3, <4>1
      <4>2. CASE p # 0
        <5>1. p - 1 \in Nat /\ p = (p - 1) + 1
          BY <4>2
        <5>2. PICK k \in Nat : p = k + 1
          BY <5>1
        <5>3. p * l = k * l + l /\ k * l \in Nat
          BY <5>2
        <5>4. l <= a
          BY <1>3, <5>3
        <5>. QED  BY <1>1, <1>6, <3>1, <5>4
      <4>. QED  BY <4>1, <4>2
    <3>2. CASE n % l = 0
      <4>1. PICK k \in Nat : n = k * l
        BY <1>1, <3>2, DividesIs
      <4>2. ~(p * l < k * l /\ k * l < p * l + l)
        BY NoneBetween
      <4>. QED  BY <1>3, <1>6, <4>1, <4>2
    <3>. QED  BY <1>3, <3>1, <3>2
  <2>2. n < l
    BY <1>1, <1>6, <2>1
  <2>3. \A r \in N : 0 <= Rank(S, r) /\ Rank(S, r) < 0 + l /\ a <= Rank(N, r) /\ Rank(N, r) < a + l
    BY <1>1, <1>2, <2>1, <2>2
  <2>4. \A r \in S \ N : (0 <= Rank(S, r) /\ Rank(S, r) < 0 + l)
                           <=> (0 <= Rank(S \ N, r) /\ Rank(S \ N, r) < 0 + (l - n))
    <3> SUFFICES ASSUME NEW r \in S \ N
                 PROVE  (0 <= Rank(S, r) /\ Rank(S, r) < 0 + l)
                           <=> (0 <= Rank(S \ N, r) /\ Rank(S \ N, r) < 0 + (l - n))
      OBVIOUS
    <3> DEFINE x == Rank(S, r)
               y == Rank(S \ N, r)
    <3>1. x \in Nat /\ y \in Nat /\ x = n + y
      BY <1>2
    <3> HIDE DEF x, y
    <3>2. (0 <= x /\ x < 0 + l) <=> (0 <= y /\ y < 0 + (l - n))
      BY <1>1, <2>2, <3>1
    <3>. QED  BY <3>2 DEF x, y
  <2>5. ids = N
    BY <2>3 DEF Window
  <2>6. Window(S, 0, l) = N \cup Window(S \ N, 0, l - n)
    BY <2>3, <2>4 DEF Window
  <2>. QED  BY <2>1, <2>2, <2>5, <2>6
<1>. QED  BY <1>4, <1>5, <1>6 DEF n, LatestFits

(* Asking Redis preserves the invariant.                                   *)
LEMMA AskRedisKeeps ==
    ASSUME FeedInv, AskRedis
    PROVE  FeedInv'
<1> DEFINE ids == ToSet(Cut(SortDown(newest), Offset, Size))
<1>1. /\ listing = "latest" /\ ~ended /\ held = NotAsked /\ held' = ids
      /\ base' = IF page = 0 THEN Shown ELSE base
      /\ UNCHANGED <<rows, made, approved, newest, tied, listing, page, got, changed, ended, moves>>
  BY DEF AskRedis, tables
<1>2. /\ newest \in SUBSET Nat /\ IsFiniteSet(newest) /\ newest \subseteq 1..made
      /\ Offset \in Nat /\ Size \in Nat /\ approved \in SUBSET RowIds /\ page \in Nat
  BY FeedFacts DEF FeedInv, FeedTypeOK
<1>3. ids \in SUBSET newest
  <2>1. ids = Window(newest, Offset, Size)
    BY <1>2, PageIs
  <2>. QED  BY <2>1 DEF Window
<1> HIDE DEF ids
<1>4. ids \subseteq 1..made /\ ids # NotAsked
  <2>1. ids \subseteq 1..made
    BY <1>2, <1>3
  <2>2. 0 \in NotAsked /\ made \in Nat
    BY FeedsAssumption DEF NotAsked, FeedInv, FeedTypeOK
  <2>3. 0 \notin 1..made
    BY <2>2
  <2>. QED  BY <2>1, <2>2, <2>3
<1>5. Shown = approved
  BY <1>1 DEF Shown, Verifiable
<1>6. FeedTypeOK'
  BY <1>1, <1>2, <1>4, <1>5 DEF FeedInv, FeedTypeOK
<1>7. StartInv'
  BY <1>1, <1>4 DEF FeedInv, StartInv, Reading
<1>8. LatestInv'
  <2> SUFFICES ASSUME changed = {}, RedisFits
               PROVE  /\ \A r \in RowIds :
                            got[r] = IF r \in approved /\ Rank(rows, r) < Offset THEN 1 ELSE 0
                      /\ base' = approved
    <3>1. RedisFits' = RedisFits /\ Offset' = Offset /\ \A r : Rank(rows, r)' = Rank(rows, r)
      BY <1>1 DEF RedisFits, RedisIsNewest, Offset, Rank
    <3>2. ids = ToSet(Cut(SortDown(newest), Offset, Size))'
      BY <1>1, <3>1 DEF ids, SortDown, Cut
    <3>. QED  BY <1>1, <3>1, <3>2 DEF LatestInv
  <2>1. /\ \A r \in RowIds : got[r] = IF r \in approved /\ Rank(rows, r) < Offset THEN 1 ELSE 0
        /\ Reading => base = approved
    BY <1>1 DEF FeedInv, LatestInv
  <2>2. page # 0 => Reading
    BY <1>2 DEF Reading
  <2>. QED  BY <1>1, <1>5, <2>1, <2>2
<1>9. AheadInv' /\ BehindInv' /\ ThreadInv' /\ SeenInv' /\ OnePageInv'
  BY <1>1 DEF AheadInv, BehindInv, ThreadInv, SeenInv, OnePageInv, Ordered, Unordered
<1>. QED  BY <1>6, <1>7, <1>8, <1>9 DEF FeedInv

(* What a request for the latest gives.                                    *)
Both(ids) ==
    IF Cardinality(ids) < Size
    THEN SortDown(ids \cap rows) \o Fill(ids) ELSE SortDown(ids \cap rows)

(* How often a row is in what both gave.                                   *)
LEMMA BothTimes ==
    ASSUME FeedInv, NEW ids \in SUBSET RowIds
    PROVE  /\ \A r : Times(Both(ids), r) \in Nat
           /\ Cardinality(ids) \in Nat
           /\ ~(Cardinality(ids) < Size) =>
                 \A r : Times(Both(ids), r) = IF r \in ids \cap rows THEN 1 ELSE 0
           /\ Cardinality(ids) < Size =>
                 LET W == Window(rows \ ids, IF ids = {} THEN Offset ELSE 0, Size - Cardinality(ids))
                 IN  \A r : Times(Both(ids), r) =
                        (IF r \in ids \cap rows THEN 1 ELSE 0) + (IF r \in W THEN 1 ELSE 0)
<1> DEFINE f == SortDown(ids \cap rows)
           k == Cardinality(ids)
           a == IF ids = {} THEN Offset ELSE 0
           g == SortDown(rows \ ids)
           W == Window(rows \ ids, a, Size - k)
<1>1. /\ ids \cap rows \in SUBSET Nat /\ IsFiniteSet(ids \cap rows)
      /\ rows \ ids \in SUBSET Nat /\ IsFiniteSet(rows \ ids)
      /\ k \in Nat /\ Size \in Nat /\ Offset \in Nat
  <2>1. ids \cap rows \in SUBSET RowIds /\ rows \ ids \in SUBSET RowIds
    BY FeedFacts DEF FeedInv
  <2>. QED  BY <2>1, FeedFacts DEF FeedInv
<1>2. f \in Seq(ids \cap rows) /\ \A r : Times(f, r) = IF r \in ids \cap rows THEN 1 ELSE 0
  BY <1>1, SortedIs
<1>3. f \in Seq(Nat)
  <2> HIDE DEF f
  <2>. QED  BY <1>1, <1>2, SeqWider
<1>4. ASSUME k < Size
      PROVE  /\ Fill(ids) \in Seq(Nat)
             /\ \A r : Times(Fill(ids), r) = IF r \in W THEN 1 ELSE 0
  <2>1. Fill(ids) = Cut(g, a, Size - k)
    BY DEF Fill
  <2>2. a \in Nat /\ Size - k \in Nat
    <3> HIDE DEF k
    <3>. QED  BY <1>1, <1>4
  <2>3. g \in Seq(rows \ ids)
    BY <1>1, SortedIs
  <2>4. \A r : Times(Cut(g, a, Size - k), r) = IF r \in W THEN 1 ELSE 0
    <3> DEFINE T == rows \ ids
               l == Size - k
    <3>1. T \in SUBSET Nat /\ IsFiniteSet(T) /\ l \in Nat
      BY <1>1, <2>2
    <3> HIDE DEF T, l, a
    <3>2. \A r : Times(Cut(SortDown(T), a, l), r) = IF r \in Window(T, a, l) THEN 1 ELSE 0
      BY <2>2, <3>1, PageTimes
    <3>. QED  BY <3>2 DEF T, l, a
  <2> HIDE DEF g, a, k, W
  <2>5. g \in Seq(Nat)
    BY <1>1, <2>3, SeqWider
  <2>6. Cut(g, a, Size - k) \in Seq(Nat)
    BY <2>2, <2>5, CutStays
  <2>. QED  BY <2>1, <2>4, <2>6
<1> HIDE DEF f, k, W
<1>5. CASE k < Size
  <2>1. Both(ids) = f \o Fill(ids)
    BY <1>5 DEF Both, f, k
  <2>2. \A r : Times(f \o Fill(ids), r) = Times(f, r) + Times(Fill(ids), r)
    BY <1>3, <1>4, <1>5, TimesOfBoth
  <2>3. \A r : Times(Both(ids), r) =
           (IF r \in ids \cap rows THEN 1 ELSE 0) + (IF r \in W THEN 1 ELSE 0)
    BY <1>2, <1>4, <1>5, <2>1, <2>2
  <2>4. \A r : Times(Both(ids), r) \in Nat
    BY <2>3
  <2>. QED  BY <1>1, <1>5, <2>3, <2>4 DEF k, W
<1>6. CASE ~(k < Size)
  <2>1. Both(ids) = f
    BY <1>6 DEF Both, f, k
  <2>2. \A r : Times(Both(ids), r) \in Nat
    BY <1>2, <2>1
  <2>. QED  BY <1>1, <1>2, <1>6, <2>1, <2>2 DEF k
<1>. QED  BY <1>5, <1>6

(* The page of the latest properties holds the rows of its window once.    *)
LEMMA AskDatabaseGives ==
    ASSUME FeedInv, listing = "latest", changed = {}, RedisFits, held # NotAsked
    PROVE  \A r \in RowIds : Times(Both(held), r) =
              IF r \in Window(rows, Offset, Size) THEN 1 ELSE 0
<1> DEFINE n == Cardinality(newest)
           ids == Window(newest, Offset, Size)
<1>1. /\ rows \in SUBSET Nat /\ IsFiniteSet(rows) /\ newest \in SUBSET rows
      /\ newest \in SUBSET Nat /\ IsFiniteSet(newest) /\ newest \in SUBSET RowIds
      /\ Offset \in Nat /\ Size \in Nat /\ Size > 0 /\ page \in Nat /\ n \in Nat
  BY FeedFacts DEF FeedInv, FeedTypeOK, RedisFits, RedisIsNewest
<1>2. held = ids
  <2>1. held = ToSet(Cut(SortDown(newest), Offset, Size))
    BY DEF FeedInv, LatestInv
  <2>. QED  BY <1>1, <2>1, PageIs
<1>3. ids \in SUBSET newest /\ ids \in SUBSET RowIds /\ ids \cap rows = ids
  BY <1>1 DEF Window
<1>4. /\ Offset + Size <= n => Cardinality(ids) = Size /\ Window(rows, Offset, Size) = ids
      /\ n <= Offset => ids = {}
      /\ Offset < n /\ n < Offset + Size =>
            /\ Offset = 0 /\ ids = newest /\ n < Size
            /\ Window(rows, 0, Size) = newest \cup Window(rows \ newest, 0, Size - n)
  <2>1. \A r \in rows \ newest, m \in newest : r < m
    BY DEF RedisFits, RedisIsNewest
  <2>2. Cardinality(newest) <= Size \/ Cardinality(newest) % Size = 0
    BY DEF RedisFits
  <2>3. Offset = page * Size
    BY DEF Offset
  <2> DEFINE S == rows
             N == newest
             a == Offset
             p == page
             l == Size
  <2>4. /\ S \in SUBSET Nat /\ IsFiniteSet(S) /\ N \in SUBSET S
        /\ p \in Nat /\ l \in Nat /\ l > 0 /\ a \in Nat /\ PageAt(a, p, l)
        /\ AreNewest(N, S) /\ FillPages(Cardinality(N), l)
    BY <1>1, <2>1, <2>2, <2>3 DEF PageAt, AreNewest, FillPages
  <2> HIDE DEF S, N, a, p, l
  <2>5. LatestFits(N, S, a, l)
    BY <2>4, LatestPage
  <2>. QED  BY <2>5 DEF S, N, a, l, LatestFits
<1>5. LET W == Window(rows \ ids, IF ids = {} THEN Offset ELSE 0, Size - Cardinality(ids))
      IN  /\ ~(Cardinality(ids) < Size) => \A r : Times(Both(ids), r) = IF r \in ids THEN 1 ELSE 0
          /\ Cardinality(ids) < Size =>
                \A r : Times(Both(ids), r) =
                   (IF r \in ids THEN 1 ELSE 0) + (IF r \in W THEN 1 ELSE 0)
  <2> HIDE DEF ids
  <2>. QED  BY <1>3, BothTimes
<1> HIDE DEF n, ids
<1>6. CASE Offset + Size <= n
  BY <1>1, <1>2, <1>4, <1>5, <1>6
<1>7. CASE n <= Offset
  <2>1. ids = {} /\ Cardinality(ids) = 0
    BY <1>4, <1>7, FS_EmptySet
  <2>2. rows \ ids = rows /\ Size - Cardinality(ids) = Size
    BY <1>1, <2>1
  <2>. QED  BY <1>1, <1>2, <1>5, <2>1, <2>2
<1>8. CASE Offset < n /\ n < Offset + Size
  <2>1. /\ Offset = 0 /\ ids = newest /\ n < Size
        /\ Window(rows, 0, Size) = newest \cup Window(rows \ newest, 0, Size - n)
    BY <1>4, <1>8
  <2> DEFINE V == Window(rows \ newest, 0, Size - n)
  <2>2. V \in SUBSET (rows \ newest)
    BY DEF Window
  <2>3. \A r : Times(Both(ids), r) = (IF r \in newest THEN 1 ELSE 0) + (IF r \in V THEN 1 ELSE 0)
    BY <1>5, <2>1 DEF n
  <2> HIDE DEF V
  <2>4. Window(rows, 0, Size) = newest \cup V
    BY <2>1 DEF V
  <2>. QED  BY <1>2, <2>1, <2>2, <2>3, <2>4
<1>. QED  BY <1>1, <1>6, <1>7, <1>8

(* Asking the table preserves the invariant.                               *)
LEMMA AskDatabaseKeeps ==
    ASSUME FeedInv, AskDatabase
    PROVE  FeedInv'
<1>1. /\ held # NotAsked /\ page' = page + 1 /\ held' = NotAsked
      /\ ended' \in BOOLEAN /\ (ended' <=> page + 1 = MaxPage)
      /\ UNCHANGED <<rows, made, approved, newest, tied, listing, base, changed, moves>>
      /\ got' = [r \in RowIds |-> IF r \in approved THEN got[r] + Times(Both(held), r) ELSE got[r]]
  BY DEF AskDatabase, tables, Given, Both
<1>2. /\ listing = "latest" /\ ~ended /\ tied = {}
      /\ page \in Nat /\ MaxPage \in Nat /\ page <= MaxPage /\ page # MaxPage
      /\ got \in [RowIds -> Nat] /\ held \in SUBSET RowIds
  <2>1. held \subseteq 1..made /\ made \in 0..MaxRow /\ MaxRow \in Nat
    BY <1>1, FeedsAssumption DEF FeedInv, FeedTypeOK
  <2>2. held \in SUBSET RowIds
    BY <2>1 DEF RowIds
  <2>. QED  BY <1>1, <2>2, FeedsAssumption DEF FeedInv, FeedTypeOK, StartInv
<1>3. Offset' = Offset + Size
  BY <1>1, OffsetTurns DEF FeedInv
<1>4. \A r : Times(Both(held), r) \in Nat
  BY <1>2, BothTimes
<1>5. FeedTypeOK'
  <2>1. got' \in [RowIds -> Nat]
    BY <1>1, <1>2, <1>4
  <2>. QED  BY <1>1, <2>1 DEF FeedInv, FeedTypeOK
<1>6. StartInv'
  BY <1>1, <1>2 DEF StartInv, Reading
<1>7. LatestInv'
  <2> SUFFICES ASSUME changed = {}, RedisFits
               PROVE  /\ \A r \in RowIds :
                            got'[r] = IF r \in approved /\ Rank(rows, r) < Offset + Size THEN 1 ELSE 0
                      /\ base = approved
    <3>1. RedisFits' = RedisFits /\ \A r : Rank(rows, r)' = Rank(rows, r)
      BY <1>1 DEF RedisFits, RedisIsNewest, Rank
    <3>. QED  BY <1>1, <1>3, <3>1 DEF LatestInv
  <2>1. /\ \A r \in RowIds : got[r] = IF r \in approved /\ Rank(rows, r) < Offset THEN 1 ELSE 0
        /\ base = approved
    BY <1>1, <1>2 DEF FeedInv, LatestInv, Reading
  <2>2. \A r \in RowIds : Times(Both(held), r) = IF r \in Window(rows, Offset, Size) THEN 1 ELSE 0
    BY <1>1, <1>2, AskDatabaseGives
  <2>3. /\ Offset \in Nat /\ Size \in Nat /\ approved \subseteq rows
        /\ \A r : Rank(rows, r) \in Nat
    <3>1. rows \in SUBSET Nat /\ IsFiniteSet(rows) /\ Offset \in Nat /\ Size \in Nat
      BY FeedFacts DEF FeedInv
    <3>. QED  BY <3>1, RankFacts DEF FeedInv, FeedTypeOK
  <2>4. ASSUME NEW r \in RowIds
        PROVE  got'[r] = IF r \in approved /\ Rank(rows, r) < Offset + Size THEN 1 ELSE 0
    <3>1. CASE r \in approved
      <4>1. got'[r] = got[r] + Times(Both(held), r)
        BY <1>1, <3>1
      <4>2. r \in Window(rows, Offset, Size) <=> Offset <= Rank(rows, r) /\ Rank(rows, r) < Offset + Size
        BY <2>3, <3>1 DEF Window
      <4>3. Rank(rows, r) \in Nat
        BY <2>3
      <4>. QED  BY <2>1, <2>2, <2>3, <3>1, <4>1, <4>2, <4>3
    <3>2. CASE r \notin approved
      BY <1>1, <2>1, <3>2
    <3>. QED  BY <3>1, <3>2
  <2>. QED  BY <2>1, <2>4
<1>8. AheadInv' /\ BehindInv' /\ ThreadInv' /\ SeenInv' /\ OnePageInv'
  BY <1>1, <1>2 DEF AheadInv, BehindInv, ThreadInv, SeenInv, OnePageInv, Ordered, Unordered
<1>. QED  BY <1>5, <1>6, <1>7, <1>8 DEF FeedInv

----------------------------------------------------------------------------
(* The invariant holds at the start.                                       *)
LEMMA FeedInvInit == FeedInit => FeedInv
<1> SUFFICES ASSUME FeedInit
             PROVE  FeedInv
  OBVIOUS
<1>1. /\ Size \in Nat /\ MaxPage \in Nat /\ MaxPage > 0 /\ MaxRow \in Nat /\ MaxMoves \in Nat
  BY FeedsAssumption
<1>2. /\ page = 0 /\ held = NotAsked /\ base = {} /\ changed = {} /\ ended = FALSE
      /\ \A r \in RowIds : got[r] = 0
  BY DEF FeedInit
<1>3. FeedTypeOK
  <2>1. approved \subseteq rows /\ tied \subseteq rows /\ newest \subseteq 1..made
    <3>1. newest \subseteq 1..made
      <4>1. CASE listing = "latest"
        <5>1. PICK k \in 1..(made + 1) : newest = k..made
          BY <4>1 DEF FeedInit
        <5>2. made \in Nat /\ k \in Nat /\ k >= 1
          BY <1>1 DEF FeedInit
        <5>. QED  BY <5>1, <5>2
      <4>2. CASE listing # "latest"
        BY <4>2 DEF FeedInit
      <4>. QED  BY <4>1, <4>2
    <3>2. approved \subseteq rows
      <4>1. CASE Verifiable
        BY <4>1 DEF FeedInit
      <4>2. CASE ~Verifiable
        BY <4>2 DEF FeedInit
      <4>. QED  BY <4>1, <4>2
    <3>3. tied \subseteq rows
      <4>1. CASE listing = "threads"
        BY <4>1 DEF FeedInit
      <4>2. CASE listing # "threads"
        BY <4>2 DEF FeedInit
      <4>. QED  BY <4>1, <4>2
    <3>. QED  BY <3>1, <3>2, <3>3
  <2>2. made \in 0..MaxRow /\ rows = 1..made /\ listing \in Listings
    BY DEF FeedInit
  <2>3. got = [r \in RowIds |-> 0] /\ moves = 0
    BY DEF FeedInit
  <2>4. got \in [RowIds -> Nat] /\ moves \in 0..MaxMoves
    BY <1>1, <2>3
  <2>. QED  BY <1>2, <2>1, <2>2, <2>4 DEF FeedTypeOK
<1>4. StartInv
  BY <1>1 DEF FeedInit, StartInv, Reading
<1>5. Offset = 0
  BY <1>1, <1>2 DEF Offset
<1>6. AheadInv /\ BehindInv /\ ThreadInv /\ OnePageInv
  BY <1>2 DEF AheadInv, BehindInv, ThreadInv, OnePageInv
<1>7. SeenInv
  <2>1. {r \in RowIds : got[r] > 0} = {}
    BY <1>2
  <2>2. Offset <= Cardinality({r \in RowIds : got[r] > 0})
    BY <1>5, <2>1, FS_EmptySet
  <2>. QED  BY <1>2, <2>2 DEF SeenInv
<1>8. LatestInv
  <2>1. \A r : Rank(rows, r) \in Nat
    BY <1>3, <1>4, FeedFacts, RankFacts
  <2>. QED  BY <1>2, <1>5, <2>1 DEF LatestInv, Reading
<1>. QED  BY <1>3, <1>4, <1>6, <1>7, <1>8 DEF FeedInv

(* Every step preserves it.                                                *)
LEMMA FeedInvNext == FeedInv /\ [FeedNext]_feedVars => FeedInv'
<1> SUFFICES ASSUME FeedInv, [FeedNext]_feedVars
             PROVE  FeedInv'
  OBVIOUS
<1>1. CASE ReadAll \/ ReadRequests \/ ReadWishes \/ ReadThreads \/ ReadMessages \/ Discover
  BY <1>1, OrderedReads, PageTurnedKeeps
<1>2. CASE DiscoverUnseen
  BY <1>2, UnseenKeeps
<1>3. CASE ReadAgentRows \/ ReadUnverified \/ ReadVerified
  BY <1>3, UnorderedKeeps
<1>4. CASE AskRedis
  BY <1>4, AskRedisKeeps
<1>5. CASE AskDatabase
  BY <1>5, AskDatabaseKeeps
<1>6. CASE \/ RowCreated \/ NewestExpires
           \/ \E r \in RowIds : RowVerified(r) \/ RowDeclined(r) \/ RowDeleted(r) \/ ThreadMessage(r)
  BY <1>6, ChangesMove, RowsMovedKeeps
<1>7. CASE UNCHANGED feedVars
  <2>1. UNCHANGED <<rows, made, approved, newest, tied, listing, page, held, got, base, changed,
                    ended, moves>>
    BY <1>7 DEF feedVars, tables
  <2>2. UNCHANGED <<FeedTypeOK, StartInv, AheadInv, BehindInv, ThreadInv, SeenInv, OnePageInv, LatestInv>>
    <3>1. UNCHANGED <<Shown, Slots, Offset, RedisFits, Reading>>
      BY <2>1 DEF Shown, Slots, Joined, Offset, RedisFits, RedisIsNewest, Reading, Verifiable,
                  AgentRows, UnverifiedRows
    <3>2. \A j : Rank(Slots, j)' = Rank(Slots, j) /\ Rank(rows, j)' = Rank(rows, j)
      BY <2>1, <3>1 DEF Rank
    <3>3. \A j : Behind(j)' <=> Behind(j)
      BY <3>1, <3>2 DEF Behind
    <3>4. UNCHANGED ToSet(Cut(SortDown(newest), Offset, Size))
      BY <2>1, <3>1 DEF ToSet, Cut, SortDown
    <3>5. UNCHANGED <<FeedTypeOK, StartInv, SeenInv, OnePageInv>>
      BY <2>1, <3>1 DEF FeedTypeOK, StartInv, SeenInv, OnePageInv
    <3>6. UNCHANGED LatestInv
      BY <2>1, <3>1, <3>2, <3>4 DEF LatestInv
    <3>. QED  BY <2>1, <3>1, <3>3, <3>5, <3>6 DEF AheadInv, BehindInv, ThreadInv, SlotOf
  <2>. QED  BY <2>2 DEF FeedInv
<1>. QED  BY <1>1, <1>2, <1>3, <1>4, <1>5, <1>6, <1>7 DEF FeedNext

(* So it holds always.                                                     *)
LEMMA FeedInvHolds == FeedSpec => []FeedInv
BY FeedInvInit, FeedInvNext, PTL DEF FeedSpec

(* Every reachable state is of the declared types.                         *)
THEOREM FeedsTypeCorrect == FeedSpec => []FeedTypeOK
<1>1. FeedInv => FeedTypeOK
  BY DEF FeedInv
<1>. QED  BY <1>1, FeedInvHolds, PTL

(* Whatever the sizes of pages and tables: pages with an order miss a row  *)
(* only if one was removed meanwhile and repeat one only if one was        *)
(* inserted; seen_ids prevent every repetition; without an order, one page *)
(* that holds all is whole.                                                *)
THEOREM PagesWhole == FeedSpec => []PagesAreWhole
<1>1. FeedInv => PagesAreWhole
  <2> SUFFICES ASSUME FeedInv
               PROVE  PagesAreWhole
    OBVIOUS
  <2>1. ASSUME listing \in Ordered, ended, "removed" \notin changed, NEW r \in base
        PROVE  got[r] > 0
    <3>1. r \in Shown /\ (got[r] > 0 \/ ~Behind(SlotOf(r))) /\ Cardinality(Slots) <= Offset
      BY <2>1 DEF FeedInv, AheadInv
    <3>2. /\ SlotOf(r) \in Slots /\ Rank(Slots, SlotOf(r)) < Cardinality(Slots)
          /\ Rank(Slots, SlotOf(r)) \in Nat /\ Cardinality(Slots) \in Nat /\ Offset \in Nat
      BY <3>1, SlotFacts, FeedFacts DEF FeedInv
    <3>. QED  BY <3>1, <3>2 DEF Behind
  <2>2. ASSUME listing = "seen", ended, "removed" \notin changed, NEW r \in base
        PROVE  got[r] > 0
    BY <2>2 DEF FeedInv, SeenInv
  <2>3. ASSUME listing \in Ordered, "inserted" \notin changed, NEW r \in RowIds \ tied
        PROVE  got[r] <= Repeats(r)
    <3>1. got[r] \in Nat
      BY DEF FeedInv, FeedTypeOK
    <3>2. CASE listing = "threads"
      BY <2>3, <3>1, <3>2 DEF FeedInv, ThreadInv, Repeats
    <3>3. CASE listing # "threads"
      BY <2>3, <3>3 DEF FeedInv, BehindInv, Repeats
    <3>. QED  BY <3>2, <3>3
  <2>4. listing = "seen" => \A r \in RowIds : got[r] <= 1
    BY DEF FeedInv, SeenInv
  <2>5. ASSUME listing \in Unordered, changed = {}, Cardinality(rows) <= Size, ended, NEW r \in RowIds
        PROVE  got[r] = IF r \in base THEN 1 ELSE 0
    BY <2>5 DEF FeedInv, OnePageInv, StartInv
  <2>. QED  BY <2>1, <2>2, <2>3, <2>4, <2>5 DEF PagesAreWhole, MissedByRemoval
<1>. QED  BY <1>1, FeedInvHolds, PTL

(* The pages of the latest properties, Redis and the table together, are   *)
(* complete and without repetition when nothing changed, Redis has the     *)
(* newest, and its ids do not end inside a page after the first.           *)
THEOREM LatestWhole == FeedSpec => []LatestIsWhole
<1>1. FeedInv => LatestIsWhole
  <2> SUFFICES ASSUME FeedInv, listing = "latest", ended, changed = {}, RedisFits, NEW r \in RowIds
               PROVE  got[r] = IF r \in base THEN 1 ELSE 0
    BY DEF LatestIsWhole, RedisFits
  <2>1. page = MaxPage /\ MaxPage \in Nat /\ MaxPage > 0 /\ Offset > 2 * MaxRow
    BY FeedsAssumption DEF FeedInv, StartInv, Offset
  <2>2. base = approved /\ got[r] = IF r \in approved /\ Rank(rows, r) < Offset THEN 1 ELSE 0
    BY <2>1 DEF FeedInv, LatestInv, Reading
  <2>3. Rank(rows, r) < Offset
    <3>1. rows \in SUBSET Nat /\ IsFiniteSet(rows) /\ Cardinality(rows) <= MaxRow
      BY FeedFacts DEF FeedInv
    <3>2. Rank(rows, r) \in Nat /\ Rank(rows, r) <= Cardinality(rows) /\ Cardinality(rows) \in Nat
      BY <3>1, RankFacts
    <3>. QED  BY <2>1, <3>1, <3>2, FeedFacts DEF FeedInv
  <2>. QED  BY <2>2, <2>3
<1>. QED  BY <1>1, FeedInvHolds, PTL
=============================================================================

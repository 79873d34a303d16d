----------------------------- MODULE ListProofs -----------------------------
(***************************************************************************)
(* What the scanner's operators on lists return: filtering and sorting     *)
(* enumerate positions, so both follow from one lemma about enumerations;  *)
(* what is recursive in the library or in the engines, from one about      *)
(* iterated steps.                                                         *)
(***************************************************************************)
EXTENDS Scanner, TLAPS, FiniteSetTheorems, WellFoundedInduction

\* A finite sequence, of whatever.
IsList(s) == s \in Seq(ToSet(s))

LEMMA ListOf ==
  ASSUME NEW n \in Nat, NEW S, NEW s \in [1 .. n -> S]
  PROVE  IsList(s) /\ Len(s) = n /\ DOMAIN s = 1 .. n /\ ToSet(s) \subseteq S
<1>1. s \in [1 .. n -> ToSet(s)] /\ ToSet(s) \subseteq S
  BY DEF ToSet
<1>2. s \in Seq(ToSet(s)) /\ Len(s) = n
  BY <1>1
<1> QED BY <1>1, <1>2 DEF IsList

LEMMA ListFacts ==
  ASSUME NEW s, IsList(s)
  PROVE  /\ Len(s) \in Nat /\ DOMAIN s = 1 .. Len(s) /\ s \in [1 .. Len(s) -> ToSet(s)]
         /\ IsFiniteSet(DOMAIN s) /\ Cardinality(DOMAIN s) = Len(s)
<1>1. Len(s) \in Nat /\ DOMAIN s = 1 .. Len(s) /\ s \in [1 .. Len(s) -> ToSet(s)]
  BY DEF IsList
<1>2. IsFiniteSet(1 .. Len(s)) /\ Cardinality(1 .. Len(s)) = Len(s)
  BY <1>1, FS_Interval
<1> QED BY <1>1, <1>2

LEMMA SequencesAreLists ==
  ASSUME NEW S, NEW s \in Seq(S) PROVE IsList(s) /\ DOMAIN s = 1 .. Len(s)
<1>1. Len(s) \in Nat /\ s \in [1 .. Len(s) -> S]
  OBVIOUS
<1> QED BY <1>1, ListOf

LEMMA MappedIs ==
  ASSUME NEW l, IsList(l), NEW s, s = [k \in DOMAIN l |-> s[k]]
  PROVE  IsList(s) /\ Len(s) = Len(l) /\ DOMAIN s = DOMAIN l
<1>1. Len(l) \in Nat /\ DOMAIN l = 1 .. Len(l)
  BY ListFacts
<1>2. s \in [1 .. Len(l) -> ToSet(s)]
  BY <1>1 DEF ToSet
<1> QED BY <1>1, <1>2, ListOf

LEMMA OneToOne ==
  ASSUME NEW S, NEW T, NEW at \in Bijection(S, T)
  PROVE  /\ \A x \in S : at[x] \in T
         /\ \A x, y \in S : at[x] = at[y] => x = y
         /\ \A z \in T : \E x \in S : at[x] = z
BY DEF Bijection, Injection, Surjection, IsInjective

LEMMA Rearranged ==
  ASSUME NEW s, IsList(s), NEW at \in Bijection(DOMAIN s, DOMAIN s),
         NEW t, t = [k \in DOMAIN s |-> s[at[k]]]
  PROVE  IsList(t) /\ ToSet(t) = ToSet(s) /\ DOMAIN t = DOMAIN s
<1>1. DOMAIN t = DOMAIN s /\ \A k \in DOMAIN s : t[k] = s[at[k]]
  OBVIOUS
<1>2. t = [k \in DOMAIN s |-> t[k]]
  OBVIOUS
<1>3. \A k \in DOMAIN s : s[k] \in ToSet(t)
  BY <1>1, OneToOne DEF ToSet
<1>4. \A k \in DOMAIN t : t[k] \in ToSet(s)
  BY <1>1, OneToOne DEF ToSet
<1>5. ToSet(t) = ToSet(s)
  BY <1>3, <1>4 DEF ToSet
<1> QED BY <1>1, <1>2, <1>5, MappedIs

-----------------------------------------------------------------------------
(* Enumerations                                                            *)

\* What is below two elements is nested, and what is below an element is without it.
Nested(below) ==
  LET I == DOMAIN below
  IN /\ IsFiniteSet(I)
     /\ \A k \in I : below[k] \subseteq I \ {k}
     /\ \A j, k \in I : j = k \/ (j \in below[k] /\ below[j] \subseteq below[k])
                              \/ (k \in below[j] /\ below[k] \subseteq below[j])

\* An element's place is the number of those below it.
LEMMA Places ==
  ASSUME NEW below, Nested(below)
  PROVE  LET I == DOMAIN below
             place == [k \in I |-> Cardinality(below[k])]
         IN /\ Cardinality(I) \in Nat
            /\ place \in Bijection(I, 0 .. Cardinality(I) - 1)
            /\ \A j, k \in I : place[j] < place[k] => j \in below[k]
<1> DEFINE I == DOMAIN below
           place == [k \in I |-> Cardinality(below[k])]
           N == Cardinality(I)
<1>1. IsFiniteSet(I) /\ N \in Nat
  BY FS_CardinalityType DEF Nested
<1>2. ASSUME NEW k \in I PROVE IsFiniteSet(below[k]) /\ place[k] \in Nat /\ place[k] <= N - 1
  <2>1. IsFiniteSet(I \ {k}) /\ Cardinality(I \ {k}) = N - 1
    BY <1>1, FS_RemoveElement
  <2>2. below[k] \in SUBSET (I \ {k})
    BY DEF Nested
  <2>3. IsFiniteSet(below[k]) /\ Cardinality(below[k]) <= N - 1
    BY <2>1, <2>2, FS_Subset
  <2> QED BY <2>3, FS_CardinalityType
<1>3. ASSUME NEW j \in I, NEW k \in I, j \in below[k], below[j] \subseteq below[k]
      PROVE  place[j] < place[k]
  <2>1. below[j] \in SUBSET below[k] /\ below[j] # below[k]
    BY <1>3 DEF Nested
  <2>2. Cardinality(below[j]) <= Cardinality(below[k]) /\ Cardinality(below[j]) # Cardinality(below[k])
    BY <1>2, <2>1, FS_Subset
  <2> QED BY <1>2, <2>2
<1>4. \A j, k \in I : j = k \/ (j \in below[k] /\ place[j] < place[k])
                            \/ (k \in below[j] /\ place[k] < place[j])
  BY <1>3 DEF Nested
<1>5. place \in [I -> 0 .. N - 1]
  BY <1>1, <1>2
<1> HIDE DEF place
<1>6. place \in Injection(I, 0 .. N - 1)
  <2>1. \A j, k \in I : place[j] = place[k] => j = k
    BY <1>4, <1>5
  <2> QED BY <1>5, <2>1 DEF Injection, IsInjective
<1>7. IsFiniteSet(0 .. N - 1) /\ Cardinality(0 .. N - 1) = N
  BY <1>1, FS_Interval
<1>8. place \in Surjection(I, 0 .. N - 1)
  BY <1>6, <1>7, FS_Injection
<1>9. \A j, k \in I : place[j] < place[k] => j \in below[k]
  BY <1>4, <1>5
<1> QED BY <1>1, <1>6, <1>8, <1>9 DEF Bijection, place

LEMMA Enumeration ==
  ASSUME NEW below, Nested(below)
  PROVE  LET I == DOMAIN below
             at == InOrder(below)
         IN /\ Cardinality(I) \in Nat
            /\ DOMAIN at = 1 .. Cardinality(I)
            /\ at \in Bijection(1 .. Cardinality(I), I)
            /\ \A m, n \in DOMAIN at : m < n => at[m] \in below[at[n]]
<1> DEFINE I == DOMAIN below
           place == [k \in I |-> Cardinality(below[k])]
           N == Cardinality(I)
           at == InOrder(below)
<1>1. N \in Nat /\ place \in Bijection(I, 0 .. N - 1)
      /\ \A j, k \in I : place[j] < place[k] => j \in below[k]
  BY Places
<1>2. at = [n \in 1 .. N |-> CHOOSE k \in I : place[k] = n - 1]
  BY DEF InOrder
<1> HIDE DEF at, place
<1>3. ASSUME NEW n \in 1 .. N PROVE at[n] \in I /\ place[at[n]] = n - 1
  <2>1. n - 1 \in 0 .. N - 1
    BY <1>1
  <2>2. \E k \in I : place[k] = n - 1
    BY <1>1, <2>1 DEF Bijection, Surjection
  <2> QED BY <1>2, <2>2
<1>4. at \in [1 .. N -> I]
  BY <1>2, <1>3
<1>5. \A m, n \in 1 .. N : at[m] = at[n] => m = n
  BY <1>1, <1>3
<1>6. \A k \in I : \E n \in 1 .. N : at[n] = k
  <2> TAKE k \in I
  <2>1. place[k] \in 0 .. N - 1 /\ place[k] + 1 \in 1 .. N
    BY <1>1 DEF Bijection, Injection
  <2>2. place[at[place[k] + 1]] = place[k] /\ at[place[k] + 1] \in I
    BY <1>3, <2>1
  <2>3. at[place[k] + 1] = k
    BY <1>1, <2>2 DEF Bijection, Injection, IsInjective
  <2> QED BY <2>1, <2>3
<1>7. at \in Bijection(1 .. N, I)
  BY <1>4, <1>5, <1>6 DEF Bijection, Injection, Surjection, IsInjective
<1>8. \A m, n \in 1 .. N : m < n => at[m] \in below[at[n]]
  BY <1>1, <1>3
<1> QED BY <1>1, <1>4, <1>7, <1>8 DEF at

\* What is listed: each element of the domain, once.
LEMMA ListedIs ==
  ASSUME NEW s, IsList(s), NEW below, Nested(below), DOMAIN below \subseteq DOMAIN s
  PROVE  LET I == DOMAIN below
             l == Listed(s, below)
         IN /\ IsList(l) /\ Len(l) = Cardinality(I) /\ ToSet(l) = {s[k] : k \in I}
            /\ \E at \in Bijection(DOMAIN l, I) : l = [n \in DOMAIN l |-> s[at[n]]]
<1> DEFINE I == DOMAIN below
           l == Listed(s, below)
           at == InOrder(below)
           N == Cardinality(I)
<1>1. N \in Nat /\ DOMAIN at = 1 .. N /\ at \in Bijection(1 .. N, I)
  BY Enumeration
<1>2. l = [n \in 1 .. N |-> s[at[n]]]
  BY <1>1 DEF Listed
<1> HIDE DEF l, at
<1>3. at \in [1 .. N -> I] /\ \A k \in I : \E n \in 1 .. N : at[n] = k
  BY <1>1 DEF Bijection, Injection, Surjection
<1>4. l \in [1 .. N -> {s[k] : k \in I}]
  BY <1>2, <1>3
<1>5. IsList(l) /\ Len(l) = N /\ DOMAIN l = 1 .. N
  BY <1>1, <1>4, ListOf
<1>6. ToSet(l) = {s[k] : k \in I}
  BY <1>2, <1>3, <1>5 DEF ToSet
<1> QED BY <1>1, <1>2, <1>5, <1>6 DEF l

LEMMA AtIs ==
  ASSUME NEW s, IsList(s), NEW I \in SUBSET DOMAIN s
  PROVE  /\ IsList(At(s, I)) /\ Len(At(s, I)) = Cardinality(I) /\ ToSet(At(s, I)) = {s[k] : k \in I}
         /\ \E at \in Bijection(DOMAIN At(s, I), I) : At(s, I) = [n \in DOMAIN At(s, I) |-> s[at[n]]]
<1> DEFINE below == [k \in I |-> {j \in I : j < k}]
<1>1. DOMAIN below = I /\ I \subseteq Nat /\ IsFiniteSet(I)
  BY ListFacts, FS_Subset
<1>2. Nested(below)
  <2>1. \A k \in I : below[k] = {j \in I : j < k}
    OBVIOUS
  <2> HIDE DEF below
  <2>2. \A k \in I : below[k] \subseteq I \ {k}
    BY <1>1, <2>1
  <2>3. \A j, k \in I : j < k => j \in below[k] /\ below[j] \subseteq below[k]
    BY <1>1, <2>1
  <2>4. \A j, k \in I : j = k \/ j < k \/ k < j
    BY <1>1
  <2> QED BY <1>1, <2>2, <2>3, <2>4 DEF Nested
<1>3. At(s, I) = Listed(s, below)
  BY DEF At
<1> HIDE DEF below
<1>4. DOMAIN below \subseteq DOMAIN s
  BY <1>1
<1> DEFINE l == Listed(s, below)
<1>5. /\ IsList(l) /\ Len(l) = Cardinality(DOMAIN below) /\ ToSet(l) = {s[k] : k \in DOMAIN below}
      /\ \E at \in Bijection(DOMAIN l, DOMAIN below) : l = [n \in DOMAIN l |-> s[at[n]]]
  BY <1>2, <1>4, ListedIs
<1> QED BY <1>1, <1>3, <1>5

\* Sorting a list rearranges it.
LEMMA SortedIs ==
  ASSUME NEW s, IsList(s), NEW rank \in [DOMAIN s -> Int]
  PROVE  /\ IsList(SortedBy(s, rank)) /\ Len(SortedBy(s, rank)) = Len(s)
         /\ ToSet(SortedBy(s, rank)) = ToSet(s)
         /\ \E at \in Bijection(DOMAIN s, DOMAIN s) : SortedBy(s, rank) = [n \in DOMAIN s |-> s[at[n]]]
<1> DEFINE I == DOMAIN s
           below == [k \in I |-> {j \in I : rank[j] < rank[k] \/ (rank[j] = rank[k] /\ j < k)}]
<1>1. DOMAIN below = I /\ I = 1 .. Len(s) /\ Len(s) \in Nat /\ IsFiniteSet(I) /\ Cardinality(I) = Len(s)
  BY ListFacts, FS_Interval
<1>2. Nested(below)
  <2>1. \A j, k \in I : j \in below[k] <=> rank[j] < rank[k] \/ (rank[j] = rank[k] /\ j < k)
    OBVIOUS
  <2>2. \A k \in I : below[k] \subseteq I
    OBVIOUS
  <2> HIDE DEF below
  <2>3. \A k \in I : k \in Nat /\ rank[k] \in Int
    BY <1>1
  <2>4. \A k \in I : below[k] \subseteq I \ {k}
    BY <2>1, <2>2, <2>3
  <2>5. ASSUME NEW j \in I, NEW k \in I, j \in below[k] PROVE below[j] \subseteq below[k]
    <3>1. \A i \in I : i \in below[j] => i \in below[k]
      BY <2>1, <2>3, <2>5
    <3> QED BY <2>2, <3>1
  <2>6. \A j, k \in I : j = k \/ j \in below[k] \/ k \in below[j]
    BY <2>1, <2>3
  <2> QED BY <1>1, <2>4, <2>5, <2>6 DEF Nested
<1>3. SortedBy(s, rank) = Listed(s, below)
  BY DEF SortedBy
<1> HIDE DEF below
<1> DEFINE l == Listed(s, below)
<1>4. /\ IsList(l) /\ Len(l) = Cardinality(DOMAIN below) /\ ToSet(l) = {s[k] : k \in DOMAIN below}
      /\ \E at \in Bijection(DOMAIN l, DOMAIN below) : l = [n \in DOMAIN l |-> s[at[n]]]
  <2>1. DOMAIN below \subseteq DOMAIN s
    BY <1>1
  <2> QED BY <1>2, <2>1, ListedIs
<1> HIDE DEF l
<1>5. DOMAIN l = I /\ Len(l) = Len(s)
  BY <1>1, <1>4, ListFacts
<1>6. ToSet(l) = ToSet(s)
  BY <1>1, <1>4 DEF ToSet
<1>7. \E at \in Bijection(I, I) : l = [n \in I |-> s[at[n]]]
  BY <1>1, <1>4, <1>5
<1> QED BY <1>3, <1>4, <1>5, <1>6, <1>7 DEF l

-----------------------------------------------------------------------------
(* First elements                                                          *)

LEMMA LeastIs ==
  ASSUME NEW S \in SUBSET Nat, S # {} PROVE \E m \in S : \A k \in S : m <= k
<1>1. PICK m \in S : \A k \in S : ~ (<<k, m>> \in OpToRel(<, Nat))
  BY NatLessThanWellFounded, WFMin
<1>2. \A k \in S : k \in Nat /\ ~ (k < m)
  BY <1>1 DEF OpToRel
<1>3. \A k \in S : m <= k
  BY <1>2
<1> QED BY <1>3

\* Of the positions of a list, those that are the first of their kind.
Firsts(kind) == {k \in DOMAIN kind : \A j \in 1 .. k - 1 : kind[j] # kind[k]}

LEMMA FirstsAre ==
  ASSUME NEW n \in Nat, NEW kind, DOMAIN kind = 1 .. n
  PROVE  /\ Firsts(kind) \subseteq 1 .. n
         /\ \A j, k \in Firsts(kind) : kind[j] = kind[k] => j = k
         /\ \A k \in 1 .. n : \E j \in Firsts(kind) : kind[j] = kind[k]
<1>1. Firsts(kind) \subseteq 1 .. n
  BY DEF Firsts
<1>2. \A j, k \in Firsts(kind) : kind[j] = kind[k] => j = k
  <2>1. \A j, k \in Firsts(kind) : j < k => kind[j] # kind[k]
    BY <1>1 DEF Firsts
  <2> QED BY <1>1, <2>1
<1>3. ASSUME NEW k \in 1 .. n PROVE \E j \in Firsts(kind) : kind[j] = kind[k]
  <2> DEFINE S == {j \in 1 .. n : kind[j] = kind[k]}
  <2>1. PICK j \in S : \A i \in S : j <= i
    <3>1. S \in SUBSET Nat /\ S # {}
      BY <1>3
    <3> QED BY <3>1, LeastIs
  <2>2. \A i \in 1 .. j - 1 : i \in 1 .. n /\ ~ (j <= i)
    BY <2>1
  <2>3. \A i \in 1 .. j - 1 : kind[i] # kind[j]
    BY <2>1, <2>2
  <2> QED BY <2>1, <2>3 DEF Firsts
<1> QED BY <1>1, <1>2, <1>3

-----------------------------------------------------------------------------
(* Counting                                                                *)

\* Things of different kinds are as many as their kinds.
LEMMA KindsCounted ==
  ASSUME NEW I, IsFiniteSet(I), NEW kind, I \subseteq DOMAIN kind,
         \A j, k \in I : kind[j] = kind[k] => j = k
  PROVE  /\ Cardinality(I) = Cardinality({kind[k] : k \in I})
         /\ Cardinality(I) \in Nat
<1> DEFINE f == [k \in I |-> kind[k]]
           T == {kind[k] : k \in I}
<1>1. f \in Bijection(I, T)
  BY DEF Bijection, Injection, Surjection, IsInjective
<1>2. ExistsBijection(I, T)
  BY <1>1 DEF ExistsBijection
<1> QED BY <1>2, FS_Bijection, FS_CardinalityType

-----------------------------------------------------------------------------
(* Iterated steps                                                          *)

LEMMA Induct ==
  ASSUME NEW n \in Nat, NEW P, 0 \in P, \A i \in 1 .. n : i - 1 \in P => i \in P
  PROVE  \A i \in 0 .. n : i \in P
<1> SUFFICES ASSUME NEW i \in 0 .. n, i \notin P PROVE FALSE
  OBVIOUS
<1> DEFINE S == {k \in 0 .. n : k \notin P}
<1>1. PICK m \in S : \A k \in S : m <= k
  <2>1. S \in SUBSET Nat /\ S # {}
    OBVIOUS
  <2> QED BY <2>1, LeastIs
<1>2. m \in 1 .. n /\ m - 1 \in 0 .. n /\ ~ (m <= m - 1)
  BY <1>1
<1>3. m - 1 \in P
  BY <1>1, <1>2
<1> QED BY <1>1, <1>2, <1>3

\* From the first state, one step after the other.
Run(f, first, step, n) == f[0] = first /\ \A i \in 1 .. n : f[i] = step[<<f[i - 1], i>>]

LEMMA Iterated ==
  ASSUME NEW n \in Nat, NEW S, NEW a \in S, NEW step \in [S \X (1 .. n) -> S]
  PROVE  \E f \in [0 .. n -> S] : Run(f, a, step, n)
<1> DEFINE Runs(f, k) == f[0] = a /\ \A i \in 1 .. k : f[i] = step[<<f[i - 1], i>>]
           P == {k \in 0 .. n : \E f \in [0 .. k -> S] : Runs(f, k)}
<1>1. 0 \in P
  <2> DEFINE f == [i \in 0 .. 0 |-> a]
  <2>1. f \in [0 .. 0 -> S] /\ Runs(f, 0) /\ 0 \in 0 .. n
    OBVIOUS
  <2> HIDE DEF f
  <2>2. \E g \in [0 .. 0 -> S] : Runs(g, 0)
    BY <2>1
  <2> QED BY <2>1, <2>2
<1>2. ASSUME NEW k \in 1 .. n, k - 1 \in P PROVE k \in P
  <2>1. PICK f \in [0 .. k - 1 -> S] : Runs(f, k - 1)
    BY <1>2
  <2> DEFINE x == step[<<f[k - 1], k>>]
             g == [i \in 0 .. k |-> IF i = k THEN x ELSE f[i]]
  <2>2. x \in S
    BY <2>1
  <2> HIDE DEF x
  <2>3. \A i \in 0 .. k : i # k => i \in 0 .. k - 1
    OBVIOUS
  <2>4. g \in [0 .. k -> S]
    BY <2>1, <2>2, <2>3
  <2>5. g[0] = a /\ \A i \in 1 .. k : g[i] = step[<<g[i - 1], i>>]
    <3>1. \A i \in 0 .. k - 1 : g[i] = f[i]
      OBVIOUS
    <3>2. g[k] = step[<<f[k - 1], k>>] /\ g[k - 1] = f[k - 1]
      BY <3>1 DEF x
    <3>3. \A i \in 1 .. k : i # k => i \in 1 .. k - 1 /\ i - 1 \in 0 .. k - 1 /\ i \in 0 .. k - 1
      OBVIOUS
    <3> HIDE DEF g
    <3>4. g[0] = a
      BY <2>1, <3>1
    <3>5. \A i \in 1 .. k - 1 : g[i] = step[<<g[i - 1], i>>]
      BY <2>1, <3>1
    <3> QED BY <3>2, <3>3, <3>4, <3>5
  <2>6. k \in 0 .. n
    OBVIOUS
  <2> HIDE DEF g
  <2> QED BY <2>4, <2>5, <2>6
<1> HIDE DEF P
<1>3. n \in P
  BY <1>1, <1>2, Induct
<1> QED BY <1>3 DEF P, Run

LEMMA ListConcat ==
  ASSUME NEW s, NEW t, IsList(s), IsList(t)
  PROVE  /\ IsList(s \o t) /\ Len(s \o t) = Len(s) + Len(t)
         /\ ToSet(s \o t) = ToSet(s) \cup ToSet(t)
         /\ \A i \in 1 .. Len(s) : (s \o t)[i] = s[i]
<1> DEFINE T == ToSet(s) \cup ToSet(t)
<1>1. s \in Seq(T) /\ t \in Seq(T)
  BY DEF IsList
<1>2. s \o t \in Seq(T) /\ Len(s \o t) = Len(s) + Len(t)
  BY <1>1
<1>3. /\ \A i \in 1 .. Len(s) : (s \o t)[i] = s[i]
      /\ \A i \in 1 .. Len(t) : (s \o t)[Len(s) + i] = t[i]
      /\ \A i \in 1 .. Len(s) + Len(t) : i \in 1 .. Len(s) \/ i - Len(s) \in 1 .. Len(t)
      /\ \A i \in 1 .. Len(s) : i \in 1 .. Len(s) + Len(t)
      /\ \A i \in 1 .. Len(t) : Len(s) + i \in 1 .. Len(s) + Len(t)
      /\ Len(s) \in Nat /\ Len(t) \in Nat
      /\ DOMAIN s = 1 .. Len(s) /\ DOMAIN t = 1 .. Len(t)
      /\ DOMAIN (s \o t) = 1 .. Len(s) + Len(t)
  BY <1>1, <1>2
<1>4. ToSet(s \o t) = T
  <2>1. \A x \in T : x \in ToSet(s \o t)
    BY <1>3 DEF ToSet
  <2>2. \A i \in DOMAIN (s \o t) : (s \o t)[i] \in T
    <3> TAKE i \in DOMAIN (s \o t)
    <3>1. CASE i \in 1 .. Len(s)
      BY <1>3, <3>1 DEF ToSet
    <3>2. CASE i - Len(s) \in 1 .. Len(t)
      <4>1. (s \o t)[Len(s) + (i - Len(s))] = t[i - Len(s)] /\ Len(s) + (i - Len(s)) = i
        BY <1>3, <3>2
      <4> QED BY <1>3, <3>2, <4>1 DEF ToSet
    <3> QED BY <1>3, <3>1, <3>2
  <2>3. ToSet(s \o t) \subseteq T
    BY <2>2 DEF ToSet
  <2> HIDE DEF T
  <2> QED BY <2>1, <2>3
<1> QED BY <1>2, <1>3, <1>4 DEF IsList

\* A list of lists in one.
LEMMA FlattenedIs ==
  ASSUME NEW ls, IsList(ls), \A k \in DOMAIN ls : IsList(ls[k])
  PROVE  IsList(FlattenSeq(ls))
<1> DEFINE n == Len(ls)
           Lists == Seq(UNION {ToSet(ls[k]) : k \in DOMAIN ls})
           Steps(g) == [i \in 1 .. n |-> IF i = 1 THEN ls[i] ELSE g[i - 1] \o ls[i]]
<1>1. n \in Nat /\ DOMAIN ls = 1 .. n
  BY ListFacts
<1>2. \A k \in 1 .. n : ls[k] \in Lists
  BY <1>1 DEF IsList
<1>3. \A s, t \in Lists : s \o t \in Lists
  OBVIOUS
<1>4. <<>> \in Lists
  OBVIOUS
<1> HIDE DEF Lists, n
<1>5. \E g : g = Steps(g)
  <2> DEFINE step == [p \in Lists \X (1 .. n) |-> IF p[2] = 1 THEN ls[p[2]] ELSE p[1] \o ls[p[2]]]
  <2>1. step \in [Lists \X (1 .. n) -> Lists]
    BY <1>2, <1>3
  <2>2. \A s \in Lists, i \in 1 .. n : step[<<s, i>>] = IF i = 1 THEN ls[i] ELSE s \o ls[i]
    OBVIOUS
  <2> HIDE DEF step
  <2> DEFINE first == <<>>
  <2> HIDE DEF first
  <2>3. PICK f \in [0 .. n -> Lists] : Run(f, first, step, n)
    BY <1>1, <1>4, <2>1, Iterated DEF first
  <2> DEFINE g == [i \in 1 .. n |-> f[i]]
  <2>4. \A i \in 1 .. n : f[i - 1] \in Lists
    BY <1>1, <2>3
  <2>5. \A i \in 1 .. n : i # 1 => i - 1 \in 1 .. n
    BY <1>1
  <2>6. \A i \in 1 .. n : g[i] = IF i = 1 THEN ls[i] ELSE g[i - 1] \o ls[i]
    BY <2>2, <2>3, <2>4, <2>5 DEF Run
  <2>7. g = Steps(g)
    BY <2>6
  <2> HIDE DEF g
  <2> QED BY <2>7
<1> DEFINE h == CHOOSE g : g = Steps(g)
<1>6. h = Steps(h)
  BY <1>5
<1> HIDE DEF h
<1>7. \A i \in 0 .. n : i = 0 \/ h[i] \in Lists
  <2> DEFINE P == {i \in 0 .. n : i = 0 \/ h[i] \in Lists}
  <2>1. 0 \in P
    BY <1>1
  <2>2. ASSUME NEW i \in 1 .. n, i - 1 \in P PROVE i \in P
    <3>1. h[i] = IF i = 1 THEN ls[i] ELSE h[i - 1] \o ls[i]
      BY <1>6
    <3>2. i = 1 \/ h[i - 1] \in Lists
      BY <2>2
    <3>3. h[i] \in Lists
      BY <1>2, <1>3, <3>1, <3>2
    <3> QED BY <1>1, <3>3
  <2> HIDE DEF P
  <2>3. \A i \in 0 .. n : i \in P
    BY <1>1, <2>1, <2>2, Induct
  <2> QED BY <2>3 DEF P
<1>8. \A s \in Lists : IsList(s)
  BY DEF Lists, IsList, ToSet
<1>9. FlattenSeq(ls) = IF n = 0 THEN ls ELSE h[n]
  BY DEF FlattenSeq, n, h
<1> QED BY <1>1, <1>7, <1>8, <1>9
=============================================================================

-------------------------------- MODULE Sums --------------------------------
(***************************************************************************)
(* Sums over finite sets, as MapThenSumSet of the community modules        *)
(* computes them: the facts the proofs about money and prices rest on.     *)
(*                                                                         *)
(* MapThenSumSet is a recursive function over the subsets of the set.      *)
(* Induction over them is done here with sets in place of predicates: of   *)
(* the subsets a claim fails for one is minimal, and there it holds.       *)
(***************************************************************************)
EXTENDS FiniteSetsExt, FiniteSetTheorems, TLAPS

Sum(f, S) == MapThenSumSet(LAMBDA i : f[i], S)

-----------------------------------------------------------------------------
(* The recursive function behind a sum exists, and there is only one.      *)

Chosen(s) == CHOOSE x \in s : TRUE

\* g holds the sums of all subsets of S.
Table(g, f, S) ==
  g = [s \in SUBSET S |-> IF s = {} THEN 0
                          ELSE f[Chosen(s)] + g[s \ {Chosen(s)}]]

LEMMA SumFromTable == \A f, S : Sum(f, S) = (CHOOSE g : Table(g, f, S))[S]
  BY DEF Sum, MapThenSumSet, MapThenFoldSet, Table, Chosen

LEMMA ChosenIn == \A s : s # {} => Chosen(s) \in s
  BY DEF Chosen

\* Of any sets of elements of a finite set one contains none of the others.
LEMMA MinimalSet ==
  ASSUME NEW S, IsFiniteSet(S), NEW Bad, Bad \subseteq SUBSET S, Bad # {}
  PROVE  \E T \in Bad : \A U \in SUBSET T : U # T => U \notin Bad
<1>1. FiniteSubsetsOf(S) = SUBSET S
  BY FS_FiniteSubsetsOfFinite
<1>2. IsWellFoundedOn(StrictSubsetOrdering(S), SUBSET S)
  BY <1>1, FS_StrictSubsetOrderingWellFounded
<1>3. PICK T \in Bad : \A U \in Bad : ~(<<U, T>> \in StrictSubsetOrdering(S))
  BY <1>2, WFMin
<1>4. ASSUME NEW U \in SUBSET T, U # T, U \in Bad
      PROVE  FALSE
  <2>1. <<U, T>> \in (SUBSET S) \X (SUBSET S)
    BY <1>4
  <2>2. <<U, T>> \in StrictSubsetOrdering(S)
    BY <1>4, <2>1 DEF StrictSubsetOrdering
  <2>3. QED
    BY <1>3, <1>4, <2>2
<1>5. QED
  BY <1>4

LEMMA TableEntry ==
  ASSUME NEW g, NEW f, NEW S, Table(g, f, S), NEW s \in SUBSET S
  PROVE  /\ s = {} => g[s] = 0
         /\ s # {} => g[s] = f[Chosen(s)] + g[s \ {Chosen(s)}]
  BY DEF Table

\* Two tables agree on the sets both hold, whatever else they hold.
LEMMA TablesAgree ==
  ASSUME NEW f, NEW S, NEW T, IsFiniteSet(S), NEW g, NEW h,
         Table(g, f, S), Table(h, f, T), NEW W \in SUBSET (S \cap T)
  PROVE  g[W] = h[W]
<1> DEFINE Bad == {V \in SUBSET (S \cap T) : g[V] # h[V]}
<1>1. SUFFICES ASSUME W \in Bad PROVE FALSE
  OBVIOUS
<1>2. PICK V \in Bad : \A U \in SUBSET V : U # V => U \notin Bad
  <2>1. Bad \subseteq SUBSET S /\ Bad # {}
    BY <1>1
  <2> HIDE DEF Bad
  <2>2. QED
    BY <2>1, MinimalSet
<1>3. V \in SUBSET S /\ V \in SUBSET T
  OBVIOUS
<1>4. V # {}
  BY <1>3, TableEntry
<1> DEFINE rest == V \ {Chosen(V)}
<1>5. rest \in SUBSET V /\ rest # V
  BY <1>4, ChosenIn
<1>6. g[rest] = h[rest]
  BY <1>2, <1>5
<1>7. g[V] = f[Chosen(V)] + g[rest]
  BY <1>3, <1>4, TableEntry
<1>8. h[V] = f[Chosen(V)] + h[rest]
  BY <1>3, <1>4, TableEntry
<1>9. QED
  BY <1>6, <1>7, <1>8

LEMMA TableExists ==
  ASSUME NEW f, NEW S, IsFiniteSet(S)
  PROVE  \E g : Table(g, f, S)
<1> DEFINE Bad == {T \in SUBSET S : ~ \E g : Table(g, f, T)}
<1>1. SUFFICES ASSUME S \in Bad PROVE FALSE
  OBVIOUS
<1>2. PICK T \in Bad : \A U \in SUBSET T : U # T => U \notin Bad
  <2>1. Bad \subseteq SUBSET S /\ Bad # {}
    BY <1>1
  <2> HIDE DEF Bad
  <2>2. QED
    BY <2>1, MinimalSet
<1> DEFINE tab(U) == CHOOSE g : Table(g, f, U)
           rest(s) == s \ {Chosen(s)}
           new == [s \in SUBSET T |->
                     IF s = {} THEN 0 ELSE f[Chosen(s)] + tab(rest(s))[rest(s)]]
<1>3. \A U \in SUBSET T : U # T => Table(tab(U), f, U)
  BY <1>2
<1>4. ASSUME NEW s \in SUBSET T, s # {}
      PROVE  new[rest(s)] = tab(rest(s))[rest(s)]
  <2> DEFINE r == rest(s)
  <2>1. r \in SUBSET T /\ r # T
    BY <1>4, ChosenIn
  <2>2. Table(tab(r), f, r)
    BY <1>3, <2>1
  <2>3. CASE r = {}
    BY <2>1, <2>2, <2>3, TableEntry
  <2>4. CASE r # {}
    <3>1. tab(r)[r] = f[Chosen(r)] + tab(r)[rest(r)]
      <4>1. r \in SUBSET r
        OBVIOUS
      <4> HIDE DEF tab, r
      <4>2. QED
        BY <2>2, <2>4, <4>1, TableEntry
    <3>2. rest(r) \in SUBSET T /\ rest(r) # T
      BY <2>1, <2>4, ChosenIn
    <3>3. Table(tab(rest(r)), f, rest(r))
      BY <1>3, <3>2
    <3>4. IsFiniteSet(r)
      BY FS_Subset
    <3>5. rest(r) \in SUBSET (r \cap rest(r))
      OBVIOUS
    <3>6. tab(r)[rest(r)] = tab(rest(r))[rest(r)]
      BY <2>2, <3>3, <3>4, <3>5, TablesAgree
    <3>7. new[r] = f[Chosen(r)] + tab(rest(r))[rest(r)]
      BY <2>1, <2>4
    <3>8. QED
      BY <3>1, <3>6, <3>7
  <2>5. QED
    BY <2>3, <2>4
<1>5. new = [s \in SUBSET T |-> IF s = {} THEN 0 ELSE f[Chosen(s)] + new[rest(s)]]
  <2>1. \A s \in SUBSET T :
          (IF s = {} THEN 0 ELSE f[Chosen(s)] + tab(rest(s))[rest(s)])
            = IF s = {} THEN 0 ELSE f[Chosen(s)] + new[rest(s)]
    <3> HIDE DEF new, tab, rest
    <3>1. QED
      BY <1>4
  <2>2. new = [s \in SUBSET T |-> IF s = {} THEN 0 ELSE f[Chosen(s)] + tab(rest(s))[rest(s)]]
    OBVIOUS
  <2> HIDE DEF new, tab, rest
  <2>3. QED
    BY <2>1, <2>2
<1>6. Table(new, f, T)
  BY <1>5 DEF Table
<1>7. QED
  BY <1>2, <1>6

LEMMA SumInTable ==
  ASSUME NEW f, NEW S, IsFiniteSet(S), NEW g, Table(g, f, S), NEW T \in SUBSET S
  PROVE  Sum(f, T) = g[T]
<1>1. IsFiniteSet(T)
  BY FS_Subset
<1>2. PICK tab : Sum(f, T) = tab[T] /\ Table(tab, f, T)
  <2>1. Table(CHOOSE h : Table(h, f, T), f, T)
    BY <1>1, TableExists
  <2>2. QED
    BY <2>1, SumFromTable
<1>3. T \in SUBSET (T \cap S)
  OBVIOUS
<1>4. tab[T] = g[T]
  BY <1>1, <1>2, <1>3, TablesAgree
<1>5. QED
  BY <1>2, <1>4

-----------------------------------------------------------------------------
(* What a sum is, one element at a time.                                   *)

LEMMA SumEmpty == \A f : Sum(f, {}) = 0
<1> TAKE f
<1>1. IsFiniteSet({})
  BY FS_EmptySet
<1>2. PICK g : Table(g, f, {})
  BY <1>1, TableExists
<1>3. {} \in SUBSET {}
  OBVIOUS
<1>4. Sum(f, {}) = g[{}]
  BY <1>1, <1>2, <1>3, SumInTable
<1>5. QED
  BY <1>2, <1>3, <1>4, TableEntry

LEMMA SumChosen ==
  ASSUME NEW f, NEW S, IsFiniteSet(S), S # {}
  PROVE  Sum(f, S) = f[Chosen(S)] + Sum(f, S \ {Chosen(S)})
<1>1. PICK g : Table(g, f, S)
  BY TableExists
<1> DEFINE rest == S \ {Chosen(S)}
<1>2. S \in SUBSET S /\ rest \in SUBSET S
  OBVIOUS
<1>3. Sum(f, S) = g[S] /\ Sum(f, rest) = g[rest]
  BY <1>1, <1>2, SumInTable
<1>4. QED
  BY <1>1, <1>2, <1>3, TableEntry

\* A sum of integers is one.
LEMMA SumInt ==
  ASSUME NEW f, NEW S, IsFiniteSet(S), \A x \in S : f[x] \in Int
  PROVE  Sum(f, S) \in Int
<1> DEFINE Bad == {T \in SUBSET S : Sum(f, T) \notin Int}
<1>1. SUFFICES ASSUME S \in Bad PROVE FALSE
  OBVIOUS
<1>2. PICK T \in Bad : \A U \in SUBSET T : U # T => U \notin Bad
  <2>1. Bad \subseteq SUBSET S /\ Bad # {}
    BY <1>1
  <2> HIDE DEF Bad
  <2>2. QED
    BY <2>1, MinimalSet
<1>3. T # {} /\ IsFiniteSet(T)
  <2>1. Sum(f, {}) \in Int
    BY SumEmpty
  <2>2. QED
    BY <2>1, FS_Subset
<1>4. Chosen(T) \in T
  BY <1>3, ChosenIn
<1>5. Sum(f, T \ {Chosen(T)}) \in Int
  BY <1>2, <1>4
<1>6. QED
  BY <1>3, <1>4, <1>5, SumChosen

\* Any element can be taken out first.
LEMMA SumRemove ==
  ASSUME NEW f, NEW S, IsFiniteSet(S), \A x \in S : f[x] \in Int, NEW x \in S
  PROVE  Sum(f, S) = f[x] + Sum(f, S \ {x})
<1> DEFINE Bad == {T \in SUBSET S : \E y \in T : Sum(f, T) # f[y] + Sum(f, T \ {y})}
<1>1. SUFFICES ASSUME S \in Bad PROVE FALSE
  OBVIOUS
<1>2. PICK T \in Bad : \A U \in SUBSET T : U # T => U \notin Bad
  <2>1. Bad \subseteq SUBSET S /\ Bad # {}
    BY <1>1
  <2> HIDE DEF Bad
  <2>2. QED
    BY <2>1, MinimalSet
<1>3. PICK y \in T : Sum(f, T) # f[y] + Sum(f, T \ {y})
  OBVIOUS
<1> DEFINE c == Chosen(T)
<1>4. c \in T /\ T \in SUBSET S
  BY ChosenIn
<1>5. \A U \in SUBSET S : IsFiniteSet(U) /\ Sum(f, U) \in Int
  BY SumInt, FS_Subset
<1>6. Sum(f, T) = f[c] + Sum(f, T \ {c})
  BY <1>4, <1>5, SumChosen
<1>7. y # c
  BY <1>3, <1>6
<1>8. T \ {c} \notin Bad /\ T \ {y} \notin Bad
  BY <1>2, <1>4
<1>9. Sum(f, T \ {c}) = f[y] + Sum(f, (T \ {c}) \ {y})
  BY <1>4, <1>7, <1>8
<1>10. Sum(f, T \ {y}) = f[c] + Sum(f, (T \ {y}) \ {c})
  BY <1>4, <1>7, <1>8
<1>11. (T \ {c}) \ {y} = (T \ {y}) \ {c}
  OBVIOUS
<1> DEFINE both == Sum(f, (T \ {c}) \ {y})
<1>12. both \in Int /\ f[c] \in Int /\ f[y] \in Int
  BY <1>4, <1>5
<1>13. Sum(f, T) = f[c] + (f[y] + both) /\ f[y] + Sum(f, T \ {y}) = f[y] + (f[c] + both)
  BY <1>6, <1>9, <1>10, <1>11
<1> HIDE DEF both
<1>14. QED
  BY <1>3, <1>12, <1>13

LEMMA SumAdd ==
  ASSUME NEW f, NEW S, IsFiniteSet(S), NEW x, x \notin S,
         \A y \in S \cup {x} : f[y] \in Int
  PROVE  Sum(f, S \cup {x}) = f[x] + Sum(f, S)
<1>1. IsFiniteSet(S \cup {x})
  BY FS_AddElement
<1>2. (S \cup {x}) \ {x} = S
  OBVIOUS
<1>3. QED
  BY <1>1, <1>2, SumRemove

LEMMA SumSingle == \A f, x : f[x] \in Int => Sum(f, {x}) = f[x]
<1> SUFFICES ASSUME NEW f, NEW x, f[x] \in Int PROVE Sum(f, {x}) = f[x]
  OBVIOUS
<1> DEFINE none == {}
<1>1. IsFiniteSet(none) /\ x \notin none /\ none \cup {x} = {x} /\ Sum(f, none) = 0
  BY FS_EmptySet, SumEmpty
<1>2. \A y \in none \cup {x} : f[y] \in Int
  OBVIOUS
<1> HIDE DEF none
<1>3. Sum(f, none \cup {x}) = f[x] + Sum(f, none)
  BY <1>1, <1>2, SumAdd
<1>4. Sum(f, {x}) = f[x] + Sum(f, none)
  BY <1>1, <1>3, Zenon
<1>5. QED
  BY <1>1, <1>4

-----------------------------------------------------------------------------
(* Comparing sums.                                                         *)

\* A sum over a set that is smaller element by element is smaller; with both
\* directions, sums of the same elements are the same.
LEMMA SumMonotone ==
  ASSUME NEW f, NEW g, NEW S, IsFiniteSet(S),
         \A x \in S : f[x] \in Int /\ g[x] \in Int /\ f[x] <= g[x]
  PROVE  Sum(f, S) <= Sum(g, S)
<1> DEFINE Bad == {T \in SUBSET S : ~(Sum(f, T) <= Sum(g, T))}
<1>1. SUFFICES ASSUME S \in Bad PROVE FALSE
  OBVIOUS
<1>2. PICK T \in Bad : \A U \in SUBSET T : U # T => U \notin Bad
  <2>1. Bad \subseteq SUBSET S /\ Bad # {}
    BY <1>1
  <2> HIDE DEF Bad
  <2>2. QED
    BY <2>1, MinimalSet
<1>3. T # {} /\ IsFiniteSet(T)
  <2>1. Sum(f, {}) <= Sum(g, {})
    BY SumEmpty
  <2>2. QED
    BY <2>1, FS_Subset
<1> DEFINE c == Chosen(T)
           rest == T \ {c}
<1>4. c \in T
  BY <1>3, ChosenIn
<1>5. Sum(f, rest) <= Sum(g, rest)
  BY <1>2, <1>4
<1>6. IsFiniteSet(rest)
  BY <1>3, FS_Subset
<1>7. Sum(f, rest) \in Int /\ Sum(g, rest) \in Int
  BY <1>6, SumInt
<1>8. Sum(f, T) = f[c] + Sum(f, rest) /\ Sum(g, T) = g[c] + Sum(g, rest)
  BY <1>3, SumChosen
<1>9. f[c] \in Int /\ g[c] \in Int /\ f[c] <= g[c]
  BY <1>4
<1>10. Sum(f, T) <= Sum(g, T)
  BY <1>5, <1>7, <1>8, <1>9
<1>11. QED
  BY <1>10

LEMMA SumSame ==
  ASSUME NEW f, NEW g, NEW S, IsFiniteSet(S),
         \A x \in S : f[x] \in Int /\ f[x] = g[x]
  PROVE  Sum(f, S) = Sum(g, S)
<1>1. Sum(f, S) <= Sum(g, S) /\ Sum(g, S) <= Sum(f, S)
  BY SumMonotone
<1>2. Sum(f, S) \in Int /\ Sum(g, S) \in Int
  BY SumInt
<1>3. QED
  BY <1>1, <1>2

\* A sum of natural numbers is one.
LEMMA SumNat ==
  ASSUME NEW f, NEW S, IsFiniteSet(S), \A x \in S : f[x] \in Nat
  PROVE  Sum(f, S) \in Nat
<1> DEFINE Bad == {T \in SUBSET S : Sum(f, T) \notin Nat}
<1>1. SUFFICES ASSUME S \in Bad PROVE FALSE
  OBVIOUS
<1>2. PICK T \in Bad : \A U \in SUBSET T : U # T => U \notin Bad
  <2>1. Bad \subseteq SUBSET S /\ Bad # {}
    BY <1>1
  <2> HIDE DEF Bad
  <2>2. QED
    BY <2>1, MinimalSet
<1>3. T # {} /\ IsFiniteSet(T)
  <2>1. Sum(f, {}) \in Nat
    BY SumEmpty
  <2>2. QED
    BY <2>1, FS_Subset
<1>4. Chosen(T) \in T
  BY <1>3, ChosenIn
<1>5. Sum(f, T \ {Chosen(T)}) \in Nat
  BY <1>2, <1>4
<1>6. QED
  BY <1>3, <1>4, <1>5, SumChosen

\* The sum over two sets without a common element.
LEMMA SumUnion ==
  ASSUME NEW f, NEW S, NEW T, IsFiniteSet(S), IsFiniteSet(T), S \cap T = {},
         \A x \in S \cup T : f[x] \in Int
  PROVE  Sum(f, S \cup T) = Sum(f, S) + Sum(f, T)
<1> DEFINE Bad == {U \in SUBSET T : Sum(f, S \cup U) # Sum(f, S) + Sum(f, U)}
<1>1. SUFFICES ASSUME T \in Bad PROVE FALSE
  OBVIOUS
<1>2. PICK U \in Bad : \A V \in SUBSET U : V # U => V \notin Bad
  <2>1. Bad \subseteq SUBSET T /\ Bad # {}
    BY <1>1
  <2> HIDE DEF Bad
  <2>2. QED
    BY <2>1, MinimalSet
<1>3. Sum(f, S) \in Int
  BY SumInt
<1>4. U # {} /\ IsFiniteSet(U)
  <2>1. S \cup {} = S /\ Sum(f, {}) = 0
    BY SumEmpty
  <2>2. Sum(f, S \cup {}) = Sum(f, S) + Sum(f, {})
    BY <1>3, <2>1
  <2>3. U # {}
    BY <2>2
  <2>4. QED
    BY <2>3, FS_Subset
<1> DEFINE c == Chosen(U)
           rest == U \ {c}
<1>5. c \in U /\ f[c] \in Int
  BY <1>4, ChosenIn
<1>6. Sum(f, S \cup rest) = Sum(f, S) + Sum(f, rest)
  BY <1>2, <1>5
<1>7. IsFiniteSet(rest) /\ IsFiniteSet(S \cup rest)
  BY <1>4, FS_Subset, FS_Union
<1>8. Sum(f, U) = f[c] + Sum(f, rest)
  BY <1>4, SumChosen
<1>9. Sum(f, S \cup U) = f[c] + Sum(f, S \cup rest)
  <2>1. S \cup U = (S \cup rest) \cup {c} /\ c \notin S \cup rest
    BY <1>5
  <2>2. \A y \in (S \cup rest) \cup {c} : f[y] \in Int
    BY <1>5
  <2> HIDE DEF c, rest
  <2>3. QED
    BY <1>7, <2>1, <2>2, SumAdd
<1>10. Sum(f, rest) \in Int
  BY <1>7, SumInt
<1> HIDE DEF c, rest
<1>11. Sum(f, S \cup U) = Sum(f, S) + Sum(f, U)
  BY <1>3, <1>5, <1>6, <1>8, <1>9, <1>10
<1>12. QED
  BY <1>11

\* Some of the elements.
LEMMA SumPart ==
  ASSUME NEW f, NEW S, NEW T \in SUBSET S, IsFiniteSet(S), \A x \in S : f[x] \in Nat
  PROVE  Sum(f, T) <= Sum(f, S)
<1>1. IsFiniteSet(T) /\ IsFiniteSet(S \ T)
  BY FS_Subset
<1>2. S = T \cup (S \ T)
  OBVIOUS
<1>3. Sum(f, S) = Sum(f, T) + Sum(f, S \ T)
  BY <1>1, <1>2, SumUnion
<1>4. Sum(f, T) \in Nat /\ Sum(f, S \ T) \in Nat
  BY <1>1, SumNat
<1>5. QED
  BY <1>3, <1>4

LEMMA SumPlus ==
  ASSUME NEW f, NEW g, NEW h, NEW S, IsFiniteSet(S),
         \A x \in S : f[x] \in Int /\ g[x] \in Int /\ h[x] = f[x] + g[x]
  PROVE  Sum(h, S) = Sum(f, S) + Sum(g, S)
<1> DEFINE Bad == {T \in SUBSET S : Sum(h, T) # Sum(f, T) + Sum(g, T)}
<1>1. SUFFICES ASSUME S \in Bad PROVE FALSE
  OBVIOUS
<1>2. PICK T \in Bad : \A U \in SUBSET T : U # T => U \notin Bad
  <2>1. Bad \subseteq SUBSET S /\ Bad # {}
    BY <1>1
  <2> HIDE DEF Bad
  <2>2. QED
    BY <2>1, MinimalSet
<1>3. T # {} /\ IsFiniteSet(T)
  <2>1. Sum(h, {}) = Sum(f, {}) + Sum(g, {})
    BY SumEmpty
  <2>2. QED
    BY <2>1, FS_Subset
<1> DEFINE c == Chosen(T)
           rest == T \ {c}
<1>4. c \in T
  BY <1>3, ChosenIn
<1>5. Sum(h, rest) = Sum(f, rest) + Sum(g, rest)
  BY <1>2, <1>4
<1>6. IsFiniteSet(rest)
  BY <1>3, FS_Subset
<1>7. Sum(f, rest) \in Int /\ Sum(g, rest) \in Int
  BY <1>6, SumInt
<1>8. /\ Sum(f, T) = f[c] + Sum(f, rest)
      /\ Sum(g, T) = g[c] + Sum(g, rest)
      /\ Sum(h, T) = h[c] + Sum(h, rest)
  BY <1>3, SumChosen
<1>9. f[c] \in Int /\ g[c] \in Int /\ h[c] = f[c] + g[c]
  BY <1>4
<1>10. Sum(h, T) = Sum(f, T) + Sum(g, T)
  BY <1>5, <1>7, <1>8, <1>9
<1>11. QED
  BY <1>10
=============================================================================

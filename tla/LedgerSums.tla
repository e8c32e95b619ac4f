----------------------------- MODULE LedgerSums -----------------------------
(***************************************************************************)
(* Sums over the rows of a table, as SumFunctionOnSet of the community     *)
(* modules defines them by recursion: what they are for every finite set.  *)
(* Induction on the set is by a smallest counterexample, which the         *)
(* well-foundedness of the proper-subset ordering provides.                *)
(***************************************************************************)
EXTENDS Integers, FiniteSetsExt, FiniteSetTheorems, TLAPS

\* Among the subsets of a finite set that are in a class C, one has no proper
\* subset in C.
LEMMA MinimalSubset ==
    ASSUME NEW S, IsFiniteSet(S), NEW C \in SUBSET (SUBSET S), C # {}
    PROVE  \E T \in C : \A U \in C : U \subseteq T => U = T
<1> DEFINE R == StrictSubsetOrdering(S)
<1>1. IsWellFoundedOn(R, SUBSET S)
  BY FS_StrictSubsetOrderingWellFounded, FS_FiniteSubsetsOfFinite
<1>2. \A U, T \in SUBSET S : U \subseteq T /\ U # T => <<U, T>> \in R
  BY DEF StrictSubsetOrdering
<1> HIDE DEF R
<1>3. PICK T \in C : \A U \in C : ~(<<U, T>> \in R)
  BY <1>1, WFMin
<1>4. QED BY <1>2, <1>3

-----------------------------------------------------------------------------
(* The recursion behind SumFunctionOnSet *)

First(s) == CHOOSE x \in s : TRUE

\* What the recursion makes of a subset, given its values `sum' on smaller ones
Entry(f, s, sum) == IF s = {} THEN 0 ELSE f[First(s)] + sum[s \ {First(s)}]

\* Tables of the sums over all subsets of S
IsTable(f, S, g) == /\ g \in [SUBSET S -> Int]
                    /\ \A s \in SUBSET S : g[s] = Entry(f, s, g)
Table(f, S) == CHOOSE g : g = [s \in SUBSET S |-> Entry(f, s, g)]

LEMMA FirstIsIn == ASSUME NEW s, s # {} PROVE First(s) \in s
BY DEF First

\* Two tables agree where both are defined.
LEMMA TablesAgree ==
    ASSUME NEW S, IsFiniteSet(S), NEW U \in SUBSET S, NEW V \in SUBSET S,
           NEW f, NEW g, NEW h, IsTable(f, U, g), IsTable(f, V, h)
    PROVE  \A s \in SUBSET (U \cap V) : g[s] = h[s]
<1> DEFINE C == {s \in SUBSET (U \cap V) : g[s] # h[s]}
<1>1. CASE C = {}
  BY <1>1
<1>2. CASE C # {}
  <2>1. C \in SUBSET (SUBSET S)
    OBVIOUS
  <2> HIDE DEF C
  <2>2. PICK s \in C : \A u \in C : u \subseteq s => u = s
    BY <1>2, <2>1, MinimalSubset
  <2>3. s \in SUBSET U /\ s \in SUBSET V /\ g[s] # h[s]
    BY DEF C
  <2>4. s # {}
    BY <2>3 DEF IsTable, Entry
  <2>5. First(s) \in s
    BY <2>4, FirstIsIn
  <2>6. g[s \ {First(s)}] = h[s \ {First(s)}]
    BY <2>2, <2>3, <2>5 DEF C
  <2>7. QED BY <2>3, <2>4, <2>6 DEF IsTable, Entry
<1>3. QED BY <1>1, <1>2

\* Every finite set has a table.
LEMMA TableExists ==
    ASSUME NEW S, IsFiniteSet(S), NEW f, \A x \in S : f[x] \in Int
    PROVE  \E g : IsTable(f, S, g)
<1> DEFINE C == {T \in SUBSET S : ~ \E g : IsTable(f, T, g)}
<1>1. SUFFICES ASSUME C # {} PROVE FALSE
  OBVIOUS
<1>2. C \in SUBSET (SUBSET S)
  OBVIOUS
<1>3. PICK T \in C : \A U \in C : U \subseteq T => U = T
  <2> HIDE DEF C
  <2>1. QED BY <1>1, <1>2, MinimalSubset
<1>4. T \in SUBSET S /\ ~ \E g : IsTable(f, T, g)
  OBVIOUS
<1>5. \A U \in SUBSET T : U # T => \E g : IsTable(f, U, g)
  BY <1>3, <1>4
<1> HIDE DEF C
<1> DEFINE val(s) == (CHOOSE g : IsTable(f, s, g))[s]
           G == [s \in SUBSET T |-> Entry(f, s, [u \in SUBSET T |-> val(u)])]
<1>6. \A U \in SUBSET T : U # T => IsTable(f, U, CHOOSE g : IsTable(f, U, g))
  BY <1>5
<1>7. ASSUME NEW U \in SUBSET T, U # T PROVE val(U) \in Int
  BY <1>6, <1>7 DEF IsTable
<1>8. ASSUME NEW s \in SUBSET T, s # {} PROVE /\ First(s) \in s /\ f[First(s)] \in Int
                                              /\ s \ {First(s)} \in SUBSET T /\ s \ {First(s)} # T
  BY <1>4, <1>8, FirstIsIn
<1>9. ASSUME NEW s \in SUBSET T, s # T PROVE G[s] = val(s)
  <2> DEFINE h == CHOOSE g : IsTable(f, s, g)
  <2>1. IsTable(f, s, h)
    BY <1>6, <1>9
  <2>2. val(s) = h[s] /\ h[s] = Entry(f, s, h)
    BY <2>1 DEF IsTable
  <2>3. CASE s = {}
    BY <2>2, <2>3 DEF Entry
  <2>4. CASE s # {}
    <3> DEFINE u == s \ {First(s)}
               k == CHOOSE g : IsTable(f, u, g)
    <3>1. u \in SUBSET T /\ u # T /\ u \in SUBSET s
      BY <1>8, <2>4
    <3>2. IsTable(f, u, k) /\ val(u) = k[u]
      BY <1>6, <3>1
    <3>3. s \in SUBSET S /\ u \in SUBSET S /\ u \in SUBSET (s \cap u)
      BY <1>4, <3>1
    <3> HIDE DEF h, k
    <3>4. h[u] = k[u]
      BY <2>1, <3>2, <3>3, TablesAgree
    <3>5. G[s] = f[First(s)] + val(u)
      BY <2>4, <3>1 DEF Entry
    <3> HIDE DEF val
    <3>6. QED BY <2>2, <2>4, <3>2, <3>4, <3>5 DEF Entry
  <2>5. QED BY <2>3, <2>4
<1>10. \A s \in SUBSET T : G[s] = Entry(f, s, G)
  <2> SUFFICES ASSUME NEW s \in SUBSET T PROVE G[s] = Entry(f, s, G)
    OBVIOUS
  <2>1. CASE s = {}
    BY <2>1 DEF Entry
  <2>2. CASE s # {}
    <3>1. G[s] = f[First(s)] + val(s \ {First(s)})
      BY <1>8, <2>2 DEF Entry
    <3>2. G[s \ {First(s)}] = val(s \ {First(s)})
      BY <1>8, <1>9, <2>2
    <3> HIDE DEF G, val
    <3>3. QED BY <2>2, <3>1, <3>2 DEF Entry
  <2>3. QED BY <2>1, <2>2
<1>11. G \in [SUBSET T -> Int]
  <2> SUFFICES ASSUME NEW s \in SUBSET T PROVE G[s] \in Int
    OBVIOUS
  <2>1. CASE s = {}
    BY <2>1 DEF Entry
  <2>2. CASE s # {}
    <3>1. G[s] = f[First(s)] + val(s \ {First(s)})
      BY <1>8, <2>2 DEF Entry
    <3>2. val(s \ {First(s)}) \in Int
      BY <1>7, <1>8, <2>2
    <3> HIDE DEF G, val
    <3>3. QED BY <1>8, <2>2, <3>1, <3>2
  <2>3. QED BY <2>1, <2>2
<1>12. IsTable(f, T, G)
  <2> HIDE DEF G
  <2>1. QED BY <1>10, <1>11 DEF IsTable
<1>13. QED BY <1>4, <1>12

LEMMA SumIsTable ==
    ASSUME NEW S, IsFiniteSet(S), NEW f, \A x \in S : f[x] \in Int
    PROVE  /\ IsTable(f, S, Table(f, S))
           /\ SumFunctionOnSet(f, S) = Table(f, S)[S]
<1>1. PICK g : IsTable(f, S, g)
  BY TableExists
<1>2. g = [s \in SUBSET S |-> Entry(f, s, g)]
  BY <1>1 DEF IsTable
<1>3. Table(f, S) = [s \in SUBSET S |-> Entry(f, s, Table(f, S))]
  BY <1>2 DEF Table
<1>4. SumFunctionOnSet(f, S) = Table(f, S)[S]
  BY DEF SumFunctionOnSet, FoldFunctionOnSet, MapThenFoldSet, Table, Entry, First
<1>5. \A s \in SUBSET S : Table(f, S)[s] = Entry(f, s, Table(f, S))
  BY <1>3
<1>6. \A s \in SUBSET S : Table(f, S)[s] \in Int
  <2> DEFINE C == {s \in SUBSET S : Table(f, S)[s] \notin Int}
  <2>1. SUFFICES ASSUME C # {} PROVE FALSE
    OBVIOUS
  <2>2. C \in SUBSET (SUBSET S)
    OBVIOUS
  <2> HIDE DEF C
  <2>3. PICK s \in C : \A u \in C : u \subseteq s => u = s
    BY <2>1, <2>2, MinimalSubset
  <2>4. s \in SUBSET S /\ Table(f, S)[s] \notin Int
    BY DEF C
  <2>5. CASE s = {}
    <3>1. Entry(f, s, Table(f, S)) = 0
      BY <2>5 DEF Entry
    <3>2. QED BY <1>5, <2>4, <3>1
  <2>6. CASE s # {}
    <3>1. First(s) \in s /\ f[First(s)] \in Int /\ s \ {First(s)} \in SUBSET S
      BY <2>4, <2>6, FirstIsIn
    <3>2. Table(f, S)[s \ {First(s)}] \in Int
      BY <2>3, <3>1 DEF C
    <3>3. QED BY <1>5, <2>4, <2>6, <3>1, <3>2 DEF Entry
  <2>7. QED BY <2>5, <2>6
<1>7. IsTable(f, S, Table(f, S))
  BY <1>3, <1>5, <1>6 DEF IsTable
<1>8. QED BY <1>4, <1>7

-----------------------------------------------------------------------------
(* What a sum is *)

LEMMA SumEmpty == ASSUME NEW f PROVE SumFunctionOnSet(f, {}) = 0
<1>1. IsFiniteSet({}) /\ \A x \in {} : f[x] \in Int
  BY FS_EmptySet
<1>2. QED BY <1>1, SumIsTable DEF IsTable, Entry

\* The sum over a subset is in the table of the whole.
LEMMA SumOfSubset ==
    ASSUME NEW S, IsFiniteSet(S), NEW f, \A x \in S : f[x] \in Int, NEW T \in SUBSET S
    PROVE  SumFunctionOnSet(f, T) = Table(f, S)[T]
<1>1. IsFiniteSet(T) /\ \A x \in T : f[x] \in Int
  BY FS_Subset
<1>2. IsTable(f, T, Table(f, T)) /\ IsTable(f, S, Table(f, S)) /\ SumFunctionOnSet(f, T) = Table(f, T)[T]
  BY <1>1, SumIsTable
<1>3. T \in SUBSET (T \cap S) /\ S \in SUBSET S
  OBVIOUS
<1>4. QED BY <1>2, <1>3, TablesAgree

\* Sums of integers are integers.
LEMMA SumType ==
    ASSUME NEW S, IsFiniteSet(S), NEW f, \A x \in S : f[x] \in Int
    PROVE  SumFunctionOnSet(f, S) \in Int
<1>1. IsTable(f, S, Table(f, S)) /\ SumFunctionOnSet(f, S) = Table(f, S)[S]
  BY SumIsTable
<1>2. QED BY <1>1 DEF IsTable

\* An element may be taken out of a sum, whichever it is.
LEMMA SumRemove ==
    ASSUME NEW S, IsFiniteSet(S), NEW f, \A x \in S : f[x] \in Int, NEW a \in S
    PROVE  SumFunctionOnSet(f, S) = f[a] + SumFunctionOnSet(f, S \ {a})
<1> DEFINE t == Table(f, S)
           C == {T \in SUBSET S : \E x \in T : t[T] # f[x] + t[T \ {x}]}
<1>1. IsTable(f, S, t)
  BY SumIsTable
<1>2. C = {}
  <2>1. SUFFICES ASSUME C # {} PROVE FALSE
    OBVIOUS
  <2>2. C \in SUBSET (SUBSET S)
    OBVIOUS
  <2>3. \A T \in SUBSET S : T \notin C => \A x \in T : t[T] = f[x] + t[T \ {x}]
    OBVIOUS
  <2>4. \A T \in C : T \in SUBSET S /\ \E x \in T : t[T] # f[x] + t[T \ {x}]
    OBVIOUS
  <2> HIDE DEF C, t
  <2>5. PICK T \in C : \A U \in C : U \subseteq T => U = T
    BY <2>1, <2>2, MinimalSubset
  <2>6. PICK x \in T : t[T] # f[x] + t[T \ {x}]
    BY <2>4
  <2> DEFINE y == First(T)
  <2>7. y \in T /\ t[T] = f[y] + t[T \ {y}] /\ T \in SUBSET S
    BY <1>1, <2>4, <2>6, FirstIsIn DEF IsTable, Entry
  <2> HIDE DEF y
  <2>8. x # y
    BY <2>6, <2>7
  <2> DEFINE R == (T \ {x}) \ {y}
  <2>9. t[T \ {y}] = f[x] + t[R]
    <3>1. T \ {y} \notin C /\ T \ {y} \in SUBSET S /\ x \in T \ {y}
      BY <2>5, <2>7, <2>8
    <3>2. (T \ {y}) \ {x} = R
      OBVIOUS
    <3>3. QED BY <2>3, <3>1, <3>2
  <2>10. t[T \ {x}] = f[y] + t[R]
    <3>1. T \ {x} \notin C /\ T \ {x} \in SUBSET S /\ y \in T \ {x}
      BY <2>5, <2>7, <2>8
    <3>2. QED BY <2>3, <3>1
  <2>11. f[x] \in Int /\ f[y] \in Int /\ R \in SUBSET S
    BY <2>7
  <2>12. t[R] \in Int
    BY <1>1, <2>11 DEF IsTable
  <2> HIDE DEF R
  <2>13. QED BY <2>6, <2>7, <2>9, <2>10, <2>11, <2>12
<1>3. t[S] = f[a] + t[S \ {a}]
  BY <1>2
<1>4. QED
  <2> HIDE DEF t
  <2>1. SumFunctionOnSet(f, S) = t[S] /\ SumFunctionOnSet(f, S \ {a}) = t[S \ {a}]
    BY SumOfSubset DEF t
  <2>2. QED BY <1>3, <2>1

\* Functions with the same values have the same sum.
LEMMA SumSame ==
    ASSUME NEW S, IsFiniteSet(S), NEW f, NEW g, \A x \in S : f[x] \in Int /\ g[x] = f[x]
    PROVE  SumFunctionOnSet(g, S) = SumFunctionOnSet(f, S)
<1>1. /\ IsTable(f, S, Table(f, S)) /\ SumFunctionOnSet(f, S) = Table(f, S)[S]
      /\ IsTable(g, S, Table(g, S)) /\ SumFunctionOnSet(g, S) = Table(g, S)[S]
  BY SumIsTable
<1>2. \A s \in SUBSET S : s # {} => g[First(s)] = f[First(s)]
  BY FirstIsIn
<1>3. \A s \in SUBSET S : Entry(g, s, Table(g, S)) = Entry(f, s, Table(g, S))
  BY <1>2 DEF Entry
<1>4. IsTable(f, S, Table(g, S))
  BY <1>1, <1>3 DEF IsTable
<1>5. S \in SUBSET S /\ S \in SUBSET (S \cap S)
  OBVIOUS
<1>6. Table(g, S)[S] = Table(f, S)[S]
  BY <1>1, <1>4, <1>5, TablesAgree
<1>7. QED BY <1>1, <1>6

\* One value changes, and the sum with it.
LEMMA SumUpdate ==
    ASSUME NEW S, IsFiniteSet(S), NEW f, NEW g, \A x \in S : f[x] \in Int, NEW a \in S, g[a] \in Int,
           \A x \in S \ {a} : g[x] = f[x]
    PROVE  SumFunctionOnSet(g, S) = SumFunctionOnSet(f, S) - f[a] + g[a]
<1>1. IsFiniteSet(S \ {a})
  BY FS_RemoveElement
<1>2. SumFunctionOnSet(g, S \ {a}) = SumFunctionOnSet(f, S \ {a})
  BY <1>1, SumSame
<1>3. SumFunctionOnSet(g, S \ {a}) \in Int
  BY <1>1, <1>2, SumType
<1>4. SumFunctionOnSet(f, S) = f[a] + SumFunctionOnSet(f, S \ {a})
  BY SumRemove
<1>5. SumFunctionOnSet(g, S) = g[a] + SumFunctionOnSet(g, S \ {a})
  <2>1. \A x \in S : g[x] \in Int
    OBVIOUS
  <2>2. QED BY <2>1, SumRemove
<1>6. f[a] \in Int
  OBVIOUS
<1>7. QED BY <1>2, <1>3, <1>4, <1>5, <1>6

\* An element is added.
LEMMA SumAdd ==
    ASSUME NEW S, IsFiniteSet(S), NEW f, \A x \in S : f[x] \in Int, NEW a, a \notin S, f[a] \in Int
    PROVE  SumFunctionOnSet(f, S \cup {a}) = SumFunctionOnSet(f, S) + f[a]
<1>1. IsFiniteSet(S \cup {a}) /\ \A x \in S \cup {a} : f[x] \in Int
  BY FS_AddElement
<1>2. (S \cup {a}) \ {a} = S
  OBVIOUS
<1>3. SumFunctionOnSet(f, S \cup {a}) = f[a] + SumFunctionOnSet(f, S)
  BY <1>1, <1>2, SumRemove
<1>4. QED BY <1>3, SumType

\* Nothing adds up to nothing.
LEMMA SumZero ==
    ASSUME NEW S, IsFiniteSet(S), NEW f, \A x \in S : f[x] = 0
    PROVE  SumFunctionOnSet(f, S) = 0
<1> DEFINE t == Table(f, S)
           C == {T \in SUBSET S : t[T] # 0}
<1>1. IsTable(f, S, t) /\ SumFunctionOnSet(f, S) = t[S]
  BY SumIsTable
<1>2. C = {}
  <2>1. SUFFICES ASSUME C # {} PROVE FALSE
    OBVIOUS
  <2>2. C \in SUBSET (SUBSET S)
    OBVIOUS
  <2>3. \A T \in SUBSET S : T \in C <=> t[T] # 0
    OBVIOUS
  <2> HIDE DEF C, t
  <2>4. PICK T \in C : \A U \in C : U \subseteq T => U = T
    BY <2>1, <2>2, MinimalSubset
  <2>5. T \in SUBSET S /\ t[T] # 0
    BY <2>2, <2>3
  <2>6. T # {}
    BY <1>1, <2>5 DEF IsTable, Entry
  <2>7. First(T) \in T /\ T \ {First(T)} \in SUBSET S
    BY <2>5, <2>6, FirstIsIn
  <2>8. t[T \ {First(T)}] = 0
    BY <2>3, <2>4, <2>7
  <2>9. f[First(T)] = 0
    BY <2>5, <2>7
  <2>10. t[T] = f[First(T)] + t[T \ {First(T)}]
    BY <1>1, <2>5, <2>6 DEF IsTable, Entry
  <2>11. QED BY <2>5, <2>8, <2>9, <2>10
<1>3. t[S] = 0
  BY <1>2
<1>4. QED
  <2> HIDE DEF t
  <2>1. QED BY <1>1, <1>3

\* What adds nothing may be left out of a sum.
LEMMA SumSkipZeros ==
    ASSUME NEW S, IsFiniteSet(S), NEW f, \A x \in S : f[x] \in Int, NEW T \in SUBSET S,
           \A x \in S \ T : f[x] = 0
    PROVE  SumFunctionOnSet(f, T) = SumFunctionOnSet(f, S)
<1> DEFINE C == {D \in SUBSET (S \ T) : SumFunctionOnSet(f, S \ D) # SumFunctionOnSet(f, S)}
<1>1. C = {}
  <2>1. SUFFICES ASSUME C # {} PROVE FALSE
    OBVIOUS
  <2>2. IsFiniteSet(S \ T)
    BY FS_Subset
  <2>3. PICK D \in C : \A U \in C : U \subseteq D => U = D
    <3>1. C \in SUBSET (SUBSET (S \ T))
      OBVIOUS
    <3> HIDE DEF C
    <3>2. QED BY <2>1, <2>2, <3>1, MinimalSubset
  <2>4. PICK a \in D : TRUE
    <3>1. S \ {} = S
      OBVIOUS
    <3>2. D # {}
      BY <3>1
    <3>3. QED BY <3>2
  <2>5. D \ {a} \notin C /\ D \ {a} \in SUBSET (S \ T)
    BY <2>3, <2>4
  <2>6. SumFunctionOnSet(f, S \ (D \ {a})) = SumFunctionOnSet(f, S)
    BY <2>5
  <2>7. PICK R : R = S \ D
    OBVIOUS
  <2>8. S \ (D \ {a}) = R \cup {a}
    BY <2>4, <2>7
  <2>9. IsFiniteSet(R) /\ (\A x \in R : f[x] \in Int) /\ a \notin R /\ f[a] = 0
    BY <2>4, <2>7, FS_Subset
  <2>10. SumFunctionOnSet(f, R) \in Int
    BY <2>9, SumType
  <2>11. SumFunctionOnSet(f, R \cup {a}) = SumFunctionOnSet(f, R) + f[a]
    BY <2>9, SumAdd
  <2>12. SumFunctionOnSet(f, R) = SumFunctionOnSet(f, S)
    <3>1. SumFunctionOnSet(f, R \cup {a}) = SumFunctionOnSet(f, S)
      BY <2>6, <2>8, Zenon
    <3>2. SumFunctionOnSet(f, R) + f[a] = SumFunctionOnSet(f, R)
      BY <2>9, <2>10
    <3>3. QED BY <2>11, <3>1, <3>2, Zenon
  <2>13. SumFunctionOnSet(f, S \ D) # SumFunctionOnSet(f, S)
    BY <2>3
  <2>14. SumFunctionOnSet(f, R) # SumFunctionOnSet(f, S)
    BY <2>7, <2>13, Zenon
  <2>15. QED BY <2>12, <2>14
<1>2. S \ T \notin C
  BY <1>1
<1>3. S \ (S \ T) = T
  OBVIOUS
<1>4. QED BY <1>2, <1>3
=============================================================================

-------------------------------- MODULE Sums --------------------------------
(***************************************************************************)
(* Lemmas about sums of numbers over finite sets of rows.                  *)
(***************************************************************************)
EXTENDS Integers, Functions, FiniteSetTheorems, WellFoundedInduction, TLAPS

\* g is the table of sums of f over the subsets of S, as the fold works it out.
Table(f, S, g) ==
    g = [s \in SUBSET S |-> IF s = {} THEN 0
                            ELSE LET x == CHOOSE x \in s : TRUE IN f[x] + g[s \ {x}]]

LEMMA Unfolding ==
    ASSUME NEW f, NEW S
    PROVE  SumFunctionOnSet(f, S) = (CHOOSE g : Table(f, S, g))[S]
BY DEF SumFunctionOnSet, FoldFunctionOnSet, MapThenFoldSet, Table

LEMMA SmallestCounterexample ==
    ASSUME NEW S, IsFiniteSet(S), NEW Bad \in SUBSET SUBSET S, Bad # {}
    PROVE  \E T \in Bad : \A U \in SUBSET T : U \in Bad => U = T
<1>1. IsWellFoundedOn(StrictSubsetOrdering(S), SUBSET S)
  BY FS_StrictSubsetOrderingWellFounded, FS_FiniteSubsetsOfFinite
<1>2. PICK T \in Bad : \A U \in Bad : <<U, T>> \notin StrictSubsetOrdering(S)
  BY <1>1, WFMin
<1>3. \A U \in SUBSET T : U \in Bad => U = T
  BY <1>2 DEF StrictSubsetOrdering
<1> QED BY <1>3

\* Two tables have the same entry for a set both have.
LEMMA TablesAgree ==
    ASSUME NEW f, NEW S, IsFiniteSet(S), NEW T, NEW g, NEW h,
           Table(f, S, g), Table(f, T, h)
    PROVE  \A s \in SUBSET S : s \in SUBSET T => g[s] = h[s]
<1> DEFINE Bad == {s \in SUBSET S : s \in SUBSET T /\ g[s] # h[s]}
<1> SUFFICES ASSUME Bad # {} PROVE FALSE
  OBVIOUS
<1>1. PICK s \in Bad : \A u \in SUBSET s : u \in Bad => u = s
  <2>1. Bad \in SUBSET SUBSET S
    OBVIOUS
  <2> HIDE DEF Bad
  <2> QED BY <2>1, SmallestCounterexample
<1>2. /\ g[s] = IF s = {} THEN 0 ELSE LET x == CHOOSE x \in s : TRUE IN f[x] + g[s \ {x}]
      /\ h[s] = IF s = {} THEN 0 ELSE LET x == CHOOSE x \in s : TRUE IN f[x] + h[s \ {x}]
  BY DEF Table
<1>3. s # {}
  BY <1>2
<1> DEFINE c == CHOOSE x \in s : TRUE
<1>4. c \in s
  BY <1>3
<1>5. g[s \ {c}] = h[s \ {c}]
  <2> HIDE DEF c
  <2> QED BY <1>1, <1>4
<1> QED BY <1>2, <1>3, <1>5

LEMMA TableExists ==
    ASSUME NEW f, NEW S, IsFiniteSet(S)
    PROVE  \E g : Table(f, S, g)
<1> DEFINE Bad == {s \in SUBSET S : ~ \E g : Table(f, s, g)}
<1> SUFFICES ASSUME Bad # {} PROVE FALSE
  OBVIOUS
<1>1. PICK s \in Bad : \A u \in SUBSET s : u \in Bad => u = s
  <2>1. Bad \in SUBSET SUBSET S
    OBVIOUS
  <2> HIDE DEF Bad
  <2> QED BY <2>1, SmallestCounterexample
<1> DEFINE V(u) == (CHOOSE g : Table(f, u, g))[u]
           First(u) == CHOOSE x \in u : TRUE
           G == [u \in SUBSET s |-> IF u = {} THEN 0 ELSE f[First(u)] + V(u \ {First(u)})]
<1>2. ASSUME NEW u \in SUBSET s, u # s
      PROVE  V(u) = IF u = {} THEN 0 ELSE f[First(u)] + V(u \ {First(u)})
  <2>1. \A v \in SUBSET s : v # s => \E g : Table(f, v, g)
    BY <1>1
  <2> DEFINE g(v) == CHOOSE h : Table(f, v, h)
  <2>2. Table(f, u, g(u))
    BY <1>2, <2>1
  <2>3. CASE u = {}
    BY <2>2, <2>3 DEF Table
  <2>4. CASE u # {}
    <3> DEFINE w == u \ {First(u)}
    <3>1. First(u) \in u
      BY <2>4
    <3>2. w \in SUBSET u /\ w \in SUBSET s /\ w # s
      BY <3>1
    <3>3. Table(f, w, g(w))
      BY <2>1, <3>2
    <3>4. IsFiniteSet(w)
      BY <3>2, FS_Subset
    <3> HIDE DEF w, First, g
    <3>5. g(w)[w] = g(u)[w]
      BY <2>2, <3>2, <3>3, <3>4, TablesAgree
    <3>6. g(u)[u] = f[First(u)] + g(u)[w]
      BY <2>2, <2>4 DEF Table, w, First
    <3> QED BY <2>4, <3>5, <3>6 DEF w, g
  <2> QED BY <2>3, <2>4
<1>3. ASSUME NEW u \in SUBSET s, u # {}
      PROVE  G[u \ {First(u)}] = V(u \ {First(u)})
  <2>1. First(u) \in u
    BY <1>3
  <2> HIDE DEF First
  <2>2. u \ {First(u)} \in SUBSET s /\ u \ {First(u)} # s
    BY <2>1
  <2> DEFINE w == u \ {First(u)}
  <2>3. w \in SUBSET s /\ w # s
    BY <2>2
  <2> HIDE DEF w, V
  <2> QED BY <2>3, <1>2 DEF w
<1>4. Table(f, s, G)
  <2> HIDE DEF V
  <2>1. \A u \in SUBSET s : G[u] = IF u = {} THEN 0 ELSE f[First(u)] + V(u \ {First(u)})
    OBVIOUS
  <2>2. \A u \in SUBSET s : G[u] = IF u = {} THEN 0 ELSE f[First(u)] + G[u \ {First(u)}]
    <3> HIDE DEF G, First
    <3> QED BY <2>1, <1>3
  <2>3. G = [u \in SUBSET s |-> G[u]]
    OBVIOUS
  <2> HIDE DEF G
  <2> QED BY <2>2, <2>3 DEF Table
<1> QED BY <1>1, <1>4

LEMMA SumOfChosen ==
    ASSUME NEW f, NEW S, IsFiniteSet(S)
    PROVE  SumFunctionOnSet(f, S) =
              IF S = {} THEN 0
              ELSE LET x == CHOOSE x \in S : TRUE IN f[x] + SumFunctionOnSet(f, S \ {x})
<1> DEFINE g(T) == CHOOSE h : Table(f, T, h)
           c == CHOOSE x \in S : TRUE
           w == S \ {c}
<1>1. Table(f, S, g(S)) /\ SumFunctionOnSet(f, S) = g(S)[S]
  BY TableExists, Unfolding
<1>2. IsFiniteSet(w) /\ w \in SUBSET S
  BY FS_Subset
<1>3. Table(f, w, g(w)) /\ SumFunctionOnSet(f, w) = g(w)[w]
  <2> HIDE DEF w
  <2> QED BY <1>2, TableExists, Unfolding
<1>4. g(w)[w] = g(S)[w]
  <2> HIDE DEF w, g
  <2>1. \A s \in SUBSET w : s \in SUBSET S => g(w)[s] = g(S)[s]
    BY <1>1, <1>2, <1>3, TablesAgree
  <2> QED BY <1>2, <2>1
<1>5. g(S)[S] = IF S = {} THEN 0 ELSE f[c] + g(S)[w]
  <2> HIDE DEF g
  <2> QED BY <1>1 DEF Table
<1> HIDE DEF g
<1> QED BY <1>1, <1>3, <1>4, <1>5

-----------------------------------------------------------------------------

LEMMA SumOfNone == ASSUME NEW f PROVE SumFunctionOnSet(f, {}) = 0
BY SumOfChosen, FS_EmptySet

LEMMA SumIsInt ==
    ASSUME NEW f, NEW S, IsFiniteSet(S), \A x \in S : f[x] \in Int
    PROVE  SumFunctionOnSet(f, S) \in Int
<1> DEFINE Bad == {s \in SUBSET S : SumFunctionOnSet(f, s) \notin Int}
<1> SUFFICES ASSUME Bad # {} PROVE FALSE
  BY DEF Bad
<1>1. PICK s \in Bad : \A u \in SUBSET s : u \in Bad => u = s
  <2>1. Bad \in SUBSET SUBSET S
    OBVIOUS
  <2> HIDE DEF Bad
  <2> QED BY <2>1, SmallestCounterexample
<1>2. s # {}
  BY SumOfNone
<1> DEFINE c == CHOOSE x \in s : TRUE
<1>3. c \in s /\ s \subseteq S /\ IsFiniteSet(s)
  BY <1>2, FS_Subset
<1>4. SumFunctionOnSet(f, s) = f[c] + SumFunctionOnSet(f, s \ {c})
  BY <1>2, <1>3, SumOfChosen
<1> HIDE DEF c
<1>5. SumFunctionOnSet(f, s \ {c}) \in Int
  BY <1>1, <1>3
<1> QED BY <1>3, <1>4, <1>5

\* The sum may be worked out starting from any element.
LEMMA SumByElement ==
    ASSUME NEW f, NEW S, IsFiniteSet(S), \A x \in S : f[x] \in Int, NEW e \in S
    PROVE  SumFunctionOnSet(f, S) = f[e] + SumFunctionOnSet(f, S \ {e})
<1> DEFINE Bad == {s \in SUBSET S : \E x \in s : SumFunctionOnSet(f, s) # f[x] + SumFunctionOnSet(f, s \ {x})}
<1> SUFFICES ASSUME Bad # {} PROVE FALSE
  BY DEF Bad
<1>1. PICK s \in Bad : \A u \in SUBSET s : u \in Bad => u = s
  <2>1. Bad \in SUBSET SUBSET S
    OBVIOUS
  <2> HIDE DEF Bad
  <2> QED BY <2>1, SmallestCounterexample
<1>2. PICK y \in s : SumFunctionOnSet(f, s) # f[y] + SumFunctionOnSet(f, s \ {y})
  OBVIOUS
<1> DEFINE c == CHOOSE x \in s : TRUE
<1>3. c \in s /\ s \subseteq S /\ IsFiniteSet(s)
  BY <1>2, FS_Subset
<1>4. SumFunctionOnSet(f, s) = f[c] + SumFunctionOnSet(f, s \ {c})
  BY <1>3, SumOfChosen
<1> HIDE DEF c
<1>5. c # y
  BY <1>2, <1>4
<1>10. \A u \in SUBSET s : u # s =>
          \A x \in u : SumFunctionOnSet(f, u) = f[x] + SumFunctionOnSet(f, u \ {x})
  BY <1>1, <1>3
<1> HIDE DEF Bad
<1>6. SumFunctionOnSet(f, s \ {c}) = f[y] + SumFunctionOnSet(f, (s \ {c}) \ {y})
  <2>1. s \ {c} \in SUBSET s /\ s \ {c} # s /\ y \in s \ {c}
    BY <1>3, <1>5
  <2> QED BY <1>10, <2>1
<1>7. SumFunctionOnSet(f, s \ {y}) = f[c] + SumFunctionOnSet(f, (s \ {y}) \ {c})
  <2>1. s \ {y} \in SUBSET s /\ s \ {y} # s /\ c \in s \ {y}
    BY <1>3, <1>5
  <2> QED BY <1>10, <2>1
<1>8. (s \ {c}) \ {y} = (s \ {y}) \ {c}
  OBVIOUS
<1>9. SumFunctionOnSet(f, (s \ {y}) \ {c}) \in Int /\ f[c] \in Int /\ f[y] \in Int
  <2>1. IsFiniteSet((s \ {y}) \ {c})
    BY <1>3, FS_Subset
  <2> QED BY <1>3, <2>1, SumIsInt
<1> DEFINE rest == SumFunctionOnSet(f, (s \ {y}) \ {c})
<1>11. SumFunctionOnSet(f, s) = f[c] + (f[y] + rest) /\ SumFunctionOnSet(f, s \ {y}) = f[c] + rest
  BY <1>4, <1>6, <1>7, <1>8
<1>12. f[c] + (f[y] + rest) = f[y] + (f[c] + rest)
  <2> HIDE DEF rest
  <2> QED BY <1>9 DEF rest
<1> QED BY <1>2, <1>11, <1>12

\* Only the values on the set count.
LEMMA SumOfEqual ==
    ASSUME NEW f, NEW g, NEW S, IsFiniteSet(S), \A x \in S : f[x] = g[x]
    PROVE  SumFunctionOnSet(f, S) = SumFunctionOnSet(g, S)
<1> DEFINE Bad == {s \in SUBSET S : SumFunctionOnSet(f, s) # SumFunctionOnSet(g, s)}
<1> SUFFICES ASSUME Bad # {} PROVE FALSE
  BY DEF Bad
<1>1. PICK s \in Bad : \A u \in SUBSET s : u \in Bad => u = s
  <2>1. Bad \in SUBSET SUBSET S
    OBVIOUS
  <2> HIDE DEF Bad
  <2> QED BY <2>1, SmallestCounterexample
<1>2. s # {}
  BY SumOfNone
<1> DEFINE c == CHOOSE x \in s : TRUE
<1>3. c \in s /\ s \subseteq S /\ IsFiniteSet(s)
  BY <1>2, FS_Subset
<1>4. /\ SumFunctionOnSet(f, s) = f[c] + SumFunctionOnSet(f, s \ {c})
      /\ SumFunctionOnSet(g, s) = g[c] + SumFunctionOnSet(g, s \ {c})
  BY <1>2, <1>3, SumOfChosen
<1> HIDE DEF c
<1>5. SumFunctionOnSet(f, s \ {c}) = SumFunctionOnSet(g, s \ {c})
  BY <1>1, <1>3
<1> QED BY <1>3, <1>4, <1>5

LEMMA SumWithElement ==
    ASSUME NEW f, NEW S, IsFiniteSet(S), NEW e, e \notin S, \A x \in S \cup {e} : f[x] \in Int
    PROVE  SumFunctionOnSet(f, S \cup {e}) = SumFunctionOnSet(f, S) + f[e]
<1>1. IsFiniteSet(S \cup {e}) /\ e \in S \cup {e} /\ (S \cup {e}) \ {e} = S
  BY FS_AddElement
<1>2. SumFunctionOnSet(f, S \cup {e}) = f[e] + SumFunctionOnSet(f, S)
  BY <1>1, SumByElement
<1> QED BY <1>2, SumIsInt

\* A change of one row changes the sum by as much.
LEMMA SumOfChanged ==
    ASSUME NEW f, NEW g, NEW S, IsFiniteSet(S), NEW e \in S,
           \A x \in S : f[x] \in Int /\ g[x] \in Int,
           \A x \in S \ {e} : f[x] = g[x]
    PROVE  SumFunctionOnSet(g, S) = SumFunctionOnSet(f, S) - f[e] + g[e]
<1>1. IsFiniteSet(S \ {e})
  BY FS_RemoveElement
<1>2. SumFunctionOnSet(f, S \ {e}) = SumFunctionOnSet(g, S \ {e})
  BY <1>1, SumOfEqual
<1>3. SumFunctionOnSet(f, S \ {e}) \in Int
  BY <1>1, SumIsInt
<1>4. /\ SumFunctionOnSet(f, S) = f[e] + SumFunctionOnSet(f, S \ {e})
      /\ SumFunctionOnSet(g, S) = g[e] + SumFunctionOnSet(g, S \ {e})
  BY SumByElement
<1> QED BY <1>2, <1>3, <1>4

\* No element of a sum of natural numbers exceeds it.
LEMMA SumIsNat ==
    ASSUME NEW f, NEW S, IsFiniteSet(S), \A x \in S : f[x] \in Nat
    PROVE  /\ SumFunctionOnSet(f, S) \in Nat
           /\ \A x \in S : f[x] <= SumFunctionOnSet(f, S)
<1>1. \A s \in SUBSET S : SumFunctionOnSet(f, s) \in Nat
  <2> DEFINE Bad == {s \in SUBSET S : SumFunctionOnSet(f, s) \notin Nat}
  <2> SUFFICES ASSUME Bad # {} PROVE FALSE
    BY DEF Bad
  <2>1. PICK s \in Bad : \A u \in SUBSET s : u \in Bad => u = s
    <3>1. Bad \in SUBSET SUBSET S
      OBVIOUS
    <3> HIDE DEF Bad
    <3> QED BY <3>1, SmallestCounterexample
  <2>2. PICK c : c \in s
    BY SumOfNone
  <2>3. s \subseteq S /\ IsFiniteSet(s)
    BY FS_Subset
  <2>4. SumFunctionOnSet(f, s) = f[c] + SumFunctionOnSet(f, s \ {c})
    BY <2>2, <2>3, SumByElement
  <2>5. SumFunctionOnSet(f, s \ {c}) \in Nat
    BY <2>1, <2>2, <2>3
  <2> QED BY <2>2, <2>3, <2>4, <2>5
<1>2. ASSUME NEW x \in S PROVE f[x] <= SumFunctionOnSet(f, S)
  <2>1. SumFunctionOnSet(f, S) = f[x] + SumFunctionOnSet(f, S \ {x})
    BY SumByElement
  <2>2. S \ {x} \in SUBSET S
    OBVIOUS
  <2>3. SumFunctionOnSet(f, S \ {x}) \in Nat
    BY <1>1, <2>2
  <2> QED BY <2>1, <2>3
<1> QED BY <1>1, <1>2

\* A sum over some of the rows is one over all, the others counting zero.
LEMMA SumOfPart ==
    ASSUME NEW f, NEW S, IsFiniteSet(S), NEW T \in SUBSET S, \A x \in T : f[x] \in Int
    PROVE  SumFunctionOnSet(f, T) = SumFunctionOnSet([x \in S |-> IF x \in T THEN f[x] ELSE 0], S)
<1> DEFINE g == [x \in S |-> IF x \in T THEN f[x] ELSE 0]
           Bad == {s \in SUBSET S : SumFunctionOnSet(f, s \cap T) # SumFunctionOnSet(g, s)}
<1>1. \A x \in S : g[x] \in Int /\ g[x] = IF x \in T THEN f[x] ELSE 0
  OBVIOUS
<1> HIDE DEF g
<1>2. S \cap T = T
  OBVIOUS
<1>3. Bad = {}
  <2> SUFFICES ASSUME Bad # {} PROVE FALSE
    OBVIOUS
  <2>1. PICK s \in Bad : \A u \in SUBSET s : u \in Bad => u = s
    <3>1. Bad \in SUBSET SUBSET S
      OBVIOUS
    <3> HIDE DEF Bad
    <3> QED BY <3>1, SmallestCounterexample
  <2>2. PICK c : c \in s
    <3>1. s = {} => s \cap T = {}
      OBVIOUS
    <3> QED BY <3>1, SumOfNone
  <2>3. s \subseteq S /\ IsFiniteSet(s) /\ IsFiniteSet(s \cap T) /\ IsFiniteSet(s \ {c})
    BY FS_Subset
  <2>4. SumFunctionOnSet(g, s) = g[c] + SumFunctionOnSet(g, s \ {c})
    BY <1>1, <2>2, <2>3, SumByElement
  <2>5. SumFunctionOnSet(f, (s \ {c}) \cap T) = SumFunctionOnSet(g, s \ {c})
    BY <2>1, <2>2, <2>3
  <2>6. SumFunctionOnSet(g, s \ {c}) \in Int
    BY <1>1, <2>3, SumIsInt
  <2>7. CASE c \in T
    <3>1. (s \cap T) \ {c} = (s \ {c}) \cap T
      OBVIOUS
    <3>2. SumFunctionOnSet(f, s \cap T) = f[c] + SumFunctionOnSet(f, (s \cap T) \ {c})
      BY <2>2, <2>3, <2>7, SumByElement
    <3>3. g[c] = f[c]
      BY <1>1, <2>2, <2>3, <2>7
    <3> QED BY <2>1, <2>4, <2>5, <3>1, <3>2, <3>3
  <2>8. CASE c \notin T
    <3>1. s \cap T = (s \ {c}) \cap T
      BY <2>8
    <3>2. g[c] = 0
      BY <1>1, <2>2, <2>3, <2>8
    <3>3. SumFunctionOnSet(g, s) = SumFunctionOnSet(g, s \ {c})
      BY <2>4, <2>6, <3>2
    <3>4. SumFunctionOnSet(f, s \cap T) = SumFunctionOnSet(f, (s \ {c}) \cap T)
      BY <3>1
    <3> QED BY <2>1, <2>5, <3>3, <3>4
  <2> QED BY <2>7, <2>8
<1> QED BY <1>2, <1>3 DEF g

LEMMA SumOfZeros ==
    ASSUME NEW f, NEW S, IsFiniteSet(S), \A x \in S : f[x] = 0
    PROVE  SumFunctionOnSet(f, S) = 0
<1>1. SumFunctionOnSet(f, {}) = SumFunctionOnSet([x \in S |-> IF x \in {} THEN f[x] ELSE 0], S)
  BY SumOfPart
<1>2. SumFunctionOnSet([x \in S |-> IF x \in {} THEN f[x] ELSE 0], S) = SumFunctionOnSet(f, S)
  BY SumOfEqual
<1> QED BY <1>1, <1>2, SumOfNone

\* A sum of sums, row by row.
LEMMA SumOfBoth ==
    ASSUME NEW f, NEW g, NEW S, IsFiniteSet(S), \A x \in S : f[x] \in Int /\ g[x] \in Int
    PROVE  SumFunctionOnSet([x \in S |-> f[x] + g[x]], S)
              = SumFunctionOnSet(f, S) + SumFunctionOnSet(g, S)
<1> DEFINE h == [x \in S |-> f[x] + g[x]]
           Bad == {s \in SUBSET S : SumFunctionOnSet(h, s) # SumFunctionOnSet(f, s) + SumFunctionOnSet(g, s)}
<1>1. \A x \in S : h[x] = f[x] + g[x] /\ h[x] \in Int
  OBVIOUS
<1> HIDE DEF h
<1>2. Bad = {}
  <2> SUFFICES ASSUME Bad # {} PROVE FALSE
    OBVIOUS
  <2>1. PICK s \in Bad : \A u \in SUBSET s : u \in Bad => u = s
    <3>1. Bad \in SUBSET SUBSET S
      OBVIOUS
    <3> HIDE DEF Bad
    <3> QED BY <3>1, SmallestCounterexample
  <2>2. PICK c : c \in s
    BY SumOfNone
  <2>3. s \subseteq S /\ IsFiniteSet(s) /\ IsFiniteSet(s \ {c})
    BY FS_Subset
  <2>4. /\ SumFunctionOnSet(h, s) = h[c] + SumFunctionOnSet(h, s \ {c})
        /\ SumFunctionOnSet(f, s) = f[c] + SumFunctionOnSet(f, s \ {c})
        /\ SumFunctionOnSet(g, s) = g[c] + SumFunctionOnSet(g, s \ {c})
    BY <1>1, <2>2, <2>3, SumByElement
  <2>5. SumFunctionOnSet(h, s \ {c}) = SumFunctionOnSet(f, s \ {c}) + SumFunctionOnSet(g, s \ {c})
    BY <2>1, <2>2, <2>3
  <2>6. SumFunctionOnSet(f, s \ {c}) \in Int /\ SumFunctionOnSet(g, s \ {c}) \in Int
    BY <2>3, SumIsInt
  <2> DEFINE a == SumFunctionOnSet(f, s \ {c})
             b == SumFunctionOnSet(g, s \ {c})
  <2>7. SumFunctionOnSet(h, s) = SumFunctionOnSet(f, s) + SumFunctionOnSet(g, s)
    <3>1. f[c] \in Int /\ g[c] \in Int /\ h[c] = f[c] + g[c]
      BY <1>1, <2>2, <2>3
    <3>2. a \in Int /\ b \in Int
      BY <2>6
    <3> HIDE DEF a, b
    <3>3. (f[c] + g[c]) + (a + b) = (f[c] + a) + (g[c] + b)
      BY <3>1, <3>2
    <3> QED BY <2>4, <2>5, <3>1, <3>3 DEF a, b
  <2> QED BY <2>1, <2>7
<1> QED BY <1>2 DEF h

\* Of natural numbers, a sum of no more and no larger ones is no larger.
LEMMA SumGrows ==
    ASSUME NEW f, NEW g, NEW S, IsFiniteSet(S), NEW T \in SUBSET S,
           \A x \in S : g[x] \in Nat,
           \A x \in T : f[x] \in Nat /\ f[x] <= g[x]
    PROVE  SumFunctionOnSet(f, T) <= SumFunctionOnSet(g, S)
<1> DEFINE part == [x \in S |-> IF x \in T THEN f[x] ELSE 0]
           rest == [x \in S |-> g[x] - part[x]]
           both == [x \in S |-> part[x] + rest[x]]
<1>1. \A x \in S : part[x] = IF x \in T THEN f[x] ELSE 0
  OBVIOUS
<1>2. \A x \in S : part[x] \in Nat /\ part[x] <= g[x]
  <2> HIDE DEF part
  <2> QED BY <1>1
<1>3. \A x \in S : rest[x] = g[x] - part[x]
  OBVIOUS
<1>4. \A x \in S : rest[x] \in Nat
  <2> HIDE DEF rest, part
  <2> QED BY <1>2, <1>3
<1>5. SumFunctionOnSet(f, T) = SumFunctionOnSet(part, S)
  BY SumOfPart
<1>6. SumFunctionOnSet(both, S) = SumFunctionOnSet(part, S) + SumFunctionOnSet(rest, S)
  <2> HIDE DEF rest, part
  <2> QED BY <1>2, <1>4, SumOfBoth
<1>7. SumFunctionOnSet(both, S) = SumFunctionOnSet(g, S)
  <2>1. \A x \in S : both[x] = part[x] + rest[x]
    OBVIOUS
  <2>2. \A x \in S : both[x] = g[x]
    <3> HIDE DEF both, rest, part
    <3> QED BY <1>2, <1>3, <2>1
  <2> HIDE DEF both
  <2> QED BY <2>2, SumOfEqual
<1>8. SumFunctionOnSet(part, S) \in Nat /\ SumFunctionOnSet(rest, S) \in Nat
  <2> HIDE DEF rest, part
  <2> QED BY <1>2, <1>4, SumIsNat
<1> HIDE DEF both, rest, part
<1> QED BY <1>5, <1>6, <1>7, <1>8

\* Two sums over different rows make one.
LEMMA SumOfTwoParts ==
    ASSUME NEW f, NEW S, IsFiniteSet(S), NEW A \in SUBSET S, NEW B \in SUBSET S, A \cap B = {},
           \A x \in S : f[x] \in Int
    PROVE  SumFunctionOnSet(f, A \cup B) = SumFunctionOnSet(f, A) + SumFunctionOnSet(f, B)
<1> DEFINE a == [x \in S |-> IF x \in A THEN f[x] ELSE 0]
           b == [x \in S |-> IF x \in B THEN f[x] ELSE 0]
           c == [x \in S |-> IF x \in A \cup B THEN f[x] ELSE 0]
           both == [x \in S |-> a[x] + b[x]]
<1>1. \A x \in S : /\ a[x] = IF x \in A THEN f[x] ELSE 0
                   /\ b[x] = IF x \in B THEN f[x] ELSE 0
                   /\ c[x] = IF x \in A \cup B THEN f[x] ELSE 0
  OBVIOUS
<1>2. A \cup B \in SUBSET S
  OBVIOUS
<1>3. /\ SumFunctionOnSet(f, A) = SumFunctionOnSet(a, S)
      /\ SumFunctionOnSet(f, B) = SumFunctionOnSet(b, S)
  BY SumOfPart
<1>4. SumFunctionOnSet(f, A \cup B) = SumFunctionOnSet(c, S)
  BY <1>2, SumOfPart
<1>5. SumFunctionOnSet(both, S) = SumFunctionOnSet(a, S) + SumFunctionOnSet(b, S)
  <2> HIDE DEF a, b
  <2>1. \A x \in S : a[x] \in Int /\ b[x] \in Int
    BY <1>1
  <2> QED BY <2>1, SumOfBoth
<1>6. SumFunctionOnSet(both, S) = SumFunctionOnSet(c, S)
  <2>1. \A x \in S : both[x] = a[x] + b[x]
    OBVIOUS
  <2>2. \A x \in S : both[x] = c[x]
    <3> HIDE DEF both, a, b, c
    <3> QED BY <1>1, <2>1
  <2> HIDE DEF both, c
  <2> QED BY <2>2, SumOfEqual
<1> HIDE DEF both, a, b, c
<1> QED BY <1>3, <1>4, <1>5, <1>6
=============================================================================

---------------------------- MODULE SumTheorems ----------------------------
(***************************************************************************)
(* Sums over finite sets: what the fold of the community modules returns.  *)
(* The amounts, quantities and ledger lines of the models are summed with  *)
(* MapThenFoldSet, which is defined by a CHOOSE of a recursive function.   *)
(* The facts follow from that definition: a minimal counterexample takes   *)
(* the place of an induction over the set.                                 *)
(***************************************************************************)
EXTENDS Integers, TLAPS, FiniteSetTheorems, WellFoundedInduction

Pick(s) == CHOOSE x \in s : TRUE

\* g is the recursive function of the community modules' fold, on the subsets of U.
SumsUp(f, g, U) ==
  g = [s \in SUBSET U |-> IF s = {} THEN 0 ELSE f[Pick(s)] + g[s \ {Pick(s)}]]

Partial(f, U) == CHOOSE g : SumsUp(f, g, U)

Sum(f, U) == Partial(f, U)[U]

\* Induction on finite sets, for a property given as a set: a set of subsets of S
\* that is not empty has a minimal element.
LEMMA MinimalSubset ==
  ASSUME NEW S, IsFiniteSet(S), NEW T \in SUBSET SUBSET S, T # {}
  PROVE  \E U \in T : \A V \in SUBSET U : V # U => V \notin T
<1>1. IsWellFoundedOn(StrictSubsetOrdering(S), SUBSET S)
  BY FS_StrictSubsetOrderingWellFounded, FS_FiniteSubsetsOfFinite
<1>2. PICK U \in T : \A V \in T : <<V, U>> \notin StrictSubsetOrdering(S)
  BY <1>1, WFMin, Zenon
<1>3. ASSUME NEW V \in SUBSET U, V # U, V \in T
      PROVE  FALSE
  BY <1>2, <1>3 DEF StrictSubsetOrdering
<1> QED
  BY <1>2, <1>3

\* What the fold takes first, and what it leaves.
LEMMA PickSmaller ==
  ASSUME NEW s, s # {}
  PROVE  Pick(s) \in s /\ s \ {Pick(s)} \in SUBSET s /\ s \ {Pick(s)} # s
  BY DEF Pick

\* The recursion determines the sums.
LEMMA SumsUpUnique ==
  ASSUME NEW f, NEW U, IsFiniteSet(U), NEW V, NEW g, NEW h,
         SumsUp(f, g, U), SumsUp(f, h, V), NEW s \in SUBSET U, s \in SUBSET V
  PROVE  g[s] = h[s]
<1> DEFINE T == {t \in SUBSET s : g[t] # h[t]}
<1>1. IsFiniteSet(s)
  BY FS_Subset
<1>2. SUFFICES T = {}
  OBVIOUS
<1>3. SUFFICES ASSUME T # {} PROVE FALSE
  OBVIOUS
<1>4. PICK t \in T : \A v \in SUBSET t : v # t => v \notin T
  <2> HIDE DEF T
  <2>1. T \in SUBSET SUBSET s
    BY DEF T
  <2> QED
    BY <1>1, <1>3, <2>1, MinimalSubset
<1>5. t \in SUBSET U /\ t \in SUBSET V /\ g[t] # h[t]
  OBVIOUS
<1>6. CASE t = {}
  BY <1>5, <1>6 DEF SumsUp
<1>7. CASE t # {}
  <2> DEFINE v == t \ {Pick(t)}
  <2>1. v \in SUBSET t /\ v # t
    BY <1>7, PickSmaller
  <2>2. g[v] = h[v]
    BY <1>4, <2>1
  <2>3. g[t] = f[Pick(t)] + g[v] /\ h[t] = f[Pick(t)] + h[v]
    BY <1>5, <1>7 DEF SumsUp
  <2> QED
    BY <1>5, <2>2, <2>3
<1> QED
  BY <1>6, <1>7

\* It has a solution.
LEMMA SumsUpExists ==
  ASSUME NEW f, NEW S, IsFiniteSet(S)
  PROVE  SumsUp(f, Partial(f, S), S)
<1> DEFINE T == {U \in SUBSET S : ~ \E g : SumsUp(f, g, U)}
<1>1. ASSUME T # {} PROVE FALSE
  <2>1. PICK U \in T : \A v \in SUBSET U : v # U => v \notin T
    <3> HIDE DEF T
    <3>1. T \in SUBSET SUBSET S
      BY DEF T
    <3> QED
      BY <1>1, <3>1, MinimalSubset
  <2>2. U \in SUBSET S /\ ~ \E g : SumsUp(f, g, U)
    OBVIOUS
  <2>3. ASSUME NEW v \in SUBSET U, v # U
        PROVE  SumsUp(f, Partial(f, v), v) /\ IsFiniteSet(v)
    <3>1. v \in SUBSET S /\ v \notin T
      BY <2>1, <2>2, <2>3
    <3>2. \E g : SumsUp(f, g, v)
      BY <3>1
    <3> QED
      BY <3>1, <3>2, FS_Subset DEF Partial
  <2> DEFINE rest(s) == s \ {Pick(s)}
             G == [s \in SUBSET U |->
                     IF s = {} THEN 0 ELSE f[Pick(s)] + Partial(f, rest(s))[rest(s)]]
  <2>4. ASSUME NEW s \in SUBSET U, s # {}
        PROVE  G[rest(s)] = Partial(f, rest(s))[rest(s)]
    <3> DEFINE t == rest(s)
    <3>1. t \in SUBSET U /\ t # U
      BY <2>4, PickSmaller
    <3>2. SumsUp(f, Partial(f, t), t) /\ IsFiniteSet(t)
      BY <2>3, <3>1
    <3>3. CASE t = {}
      <4>1. Partial(f, t)[t] = 0
        BY <3>2, <3>3 DEF SumsUp
      <4> QED
        BY <3>1, <3>3, <4>1
    <3>4. CASE t # {}
      <4> DEFINE r == rest(t)
      <4>1. r \in SUBSET t /\ r # t /\ r \in SUBSET U /\ r # U
        BY <3>1, <3>4, PickSmaller
      <4>2. SumsUp(f, Partial(f, r), r)
        BY <2>3, <4>1
      <4>3. Partial(f, t)[r] = Partial(f, r)[r]
        BY <3>2, <4>1, <4>2, SumsUpUnique
      <4>4. Partial(f, t)[t] = f[Pick(t)] + Partial(f, t)[r]
        BY <3>2, <3>4 DEF SumsUp
      <4>5. G[t] = f[Pick(t)] + Partial(f, r)[r]
        BY <3>1, <3>4
      <4> QED
        BY <4>3, <4>4, <4>5
    <3> QED
      BY <3>3, <3>4
  <2>5. G = [s \in SUBSET U |-> IF s = {} THEN 0 ELSE f[Pick(s)] + G[s \ {Pick(s)}]]
    BY <2>4
  <2>6. SumsUp(f, G, U)
    BY <2>5 DEF SumsUp
  <2> QED
    BY <2>2, <2>6
<1>2. \E g : SumsUp(f, g, S)
  BY <1>1
<1> QED
  BY <1>2 DEF Partial

\* A sum is what the recursion says.
LEMMA SumRecursion ==
  ASSUME NEW f, NEW S, IsFiniteSet(S)
  PROVE  /\ S = {} => Sum(f, S) = 0
         /\ S # {} => Sum(f, S) = f[Pick(S)] + Sum(f, S \ {Pick(S)})
<1>1. SumsUp(f, Partial(f, S), S)
  BY SumsUpExists
<1>2. CASE S = {}
  BY <1>1, <1>2 DEF SumsUp, Sum
<1>3. CASE S # {}
  <2> DEFINE r == S \ {Pick(S)}
  <2>1. r \in SUBSET S /\ IsFiniteSet(r)
    BY FS_Subset
  <2>2. SumsUp(f, Partial(f, r), r)
    BY <2>1, SumsUpExists
  <2>3. Partial(f, S)[r] = Partial(f, r)[r]
    BY <1>1, <2>1, <2>2, SumsUpUnique
  <2>4. Partial(f, S)[S] = f[Pick(S)] + Partial(f, S)[r]
    BY <1>1, <1>3 DEF SumsUp
  <2> QED
    BY <1>3, <2>3, <2>4 DEF Sum
<1> QED
  BY <1>2, <1>3

\* Equal summands have the same sum, which is a natural number.
LEMMA SumSame ==
  ASSUME NEW S, IsFiniteSet(S), NEW f, NEW g,
         \A x \in S : f[x] \in Nat /\ f[x] = g[x]
  PROVE  Sum(f, S) \in Nat /\ Sum(f, S) = Sum(g, S)
<1> DEFINE P(U) == Sum(f, U) \in Nat /\ Sum(f, U) = Sum(g, U)
           T == {U \in SUBSET S : ~P(U)}
<1>1. ASSUME T # {} PROVE FALSE
  <2>1. PICK U \in T : \A v \in SUBSET U : v # U => v \notin T
    <3> HIDE DEF T
    <3>1. T \in SUBSET SUBSET S
      BY DEF T
    <3> QED
      BY <1>1, <3>1, MinimalSubset
  <2>2. U \in SUBSET S /\ IsFiniteSet(U) /\ ~P(U)
    BY FS_Subset
  <2>3. U # {}
    <3>1. ASSUME U = {} PROVE FALSE
      <4>1. Sum(f, U) = 0 /\ Sum(g, U) = 0
        BY <2>2, <3>1, SumRecursion
      <4> QED
        BY <2>2, <4>1
    <3> QED
      BY <3>1
  <2> DEFINE x == Pick(U)
             v == U \ {x}
  <2>4. x \in S /\ v \in SUBSET U /\ v # U
    BY <2>2, <2>3, PickSmaller
  <2>5. P(v)
    BY <2>1, <2>2, <2>4
  <2>6. Sum(f, U) = f[x] + Sum(f, v) /\ Sum(g, U) = g[x] + Sum(g, v)
    BY <2>2, <2>3, SumRecursion
  <2>7. f[x] \in Nat /\ f[x] = g[x]
    BY <2>4
  <2> HIDE DEF x, v
  <2> QED
    BY <2>2, <2>5, <2>6, <2>7
<1> QED
  BY <1>1

\* Any element may be taken out first.
LEMMA SumWithout ==
  ASSUME NEW S, IsFiniteSet(S), NEW f, \A x \in S : f[x] \in Nat, NEW y \in S
  PROVE  Sum(f, S) = f[y] + Sum(f, S \ {y})
<1> DEFINE P(U) == \A x \in U : Sum(f, U) = f[x] + Sum(f, U \ {x})
           T == {U \in SUBSET S : ~P(U)}
<1>1. ASSUME T # {} PROVE FALSE
  <2>1. PICK U \in T : \A v \in SUBSET U : v # U => v \notin T
    <3> HIDE DEF T
    <3>1. T \in SUBSET SUBSET S
      BY DEF T
    <3> QED
      BY <1>1, <3>1, MinimalSubset
  <2>2. U \in SUBSET S /\ IsFiniteSet(U) /\ ~P(U)
    BY FS_Subset
  <2>3. PICK x \in U : Sum(f, U) # f[x] + Sum(f, U \ {x})
    BY <2>2
  <2>4. PICK z : z = Pick(U)
    OBVIOUS
  <2>5. z \in U /\ Sum(f, U) = f[z] + Sum(f, U \ {z})
    BY <2>2, <2>3, <2>4, SumRecursion, PickSmaller
  <2>6. x # z
    BY <2>3, <2>5
  <2>7. P(U \ {z}) /\ P(U \ {x})
    BY <2>1, <2>2, <2>3, <2>5
  <2>8. Sum(f, U \ {z}) = f[x] + Sum(f, (U \ {z}) \ {x})
    BY <2>3, <2>6, <2>7
  <2>9. Sum(f, U \ {x}) = f[z] + Sum(f, (U \ {x}) \ {z})
    BY <2>5, <2>6, <2>7
  <2>10. PICK V : V = (U \ {x}) \ {z} /\ V = (U \ {z}) \ {x}
    OBVIOUS
  <2>11. Sum(f, V) \in Nat /\ f[x] \in Nat /\ f[z] \in Nat
    <3>1. IsFiniteSet(V) /\ V \subseteq S
      BY <2>2, <2>10, FS_Subset
    <3> QED
      BY <2>2, <2>3, <2>5, <3>1, SumSame
  <2>12. Sum(f, U) = f[z] + (f[x] + Sum(f, V))
    BY <2>5, <2>8, <2>10
  <2>13. Sum(f, U \ {x}) = f[z] + Sum(f, V)
    BY <2>9, <2>10
  <2> QED
    BY <2>3, <2>11, <2>12, <2>13
<1>2. P(S)
  BY <1>1
<1> QED
  BY <1>2

\* The sum over two sets without a common element.
LEMMA SumUnion ==
  ASSUME NEW A, NEW B, IsFiniteSet(A), IsFiniteSet(B), A \cap B = {},
         NEW f, \A x \in A \cup B : f[x] \in Nat
  PROVE  Sum(f, A \cup B) = Sum(f, A) + Sum(f, B)
<1> DEFINE P(U) == Sum(f, A \cup U) = Sum(f, A) + Sum(f, U)
           T == {U \in SUBSET B : ~P(U)}
<1>1. ASSUME T # {} PROVE FALSE
  <2>1. PICK U \in T : \A v \in SUBSET U : v # U => v \notin T
    <3> HIDE DEF T
    <3>1. T \in SUBSET SUBSET B
      BY DEF T
    <3> QED
      BY <1>1, <3>1, MinimalSubset
  <2>2. U \in SUBSET B /\ IsFiniteSet(U) /\ ~P(U) /\ IsFiniteSet(A \cup U)
    BY FS_Subset, FS_Union
  <2>3. Sum(f, A) \in Nat
    BY SumSame
  <2>4. CASE U = {}
    <3>1. Sum(f, U) = 0 /\ A \cup U = A
      BY <2>2, <2>4, SumRecursion
    <3> QED
      BY <2>2, <2>3, <3>1
  <2>5. CASE U # {}
    <3>1. PICK x : x \in U
      BY <2>5
    <3>2. PICK v : v = U \ {x}
      OBVIOUS
    <3>3. /\ v \in SUBSET U /\ v # U /\ IsFiniteSet(v) /\ v \subseteq B
          /\ (A \cup U) \ {x} = A \cup v
      BY <2>2, <3>1, <3>2, FS_Subset
    <3>4. P(v)
      BY <2>1, <2>2, <3>3
    <3>5. Sum(f, U) = f[x] + Sum(f, v)
      BY <2>2, <3>1, <3>2, SumWithout
    <3>6. Sum(f, A \cup U) = f[x] + Sum(f, A \cup v)
      <4>1. \A z \in A \cup U : f[z] \in Nat
        BY <2>2
      <4>2. PICK W : W = A \cup U
        OBVIOUS
      <4>3. Sum(f, W) = f[x] + Sum(f, W \ {x})
        BY <2>2, <3>1, <4>1, <4>2, SumWithout
      <4> QED
        BY <3>3, <4>2, <4>3
    <3>7. Sum(f, v) \in Nat /\ f[x] \in Nat
      BY <2>2, <3>1, <3>3, SumSame
    <3> QED
      BY <2>2, <2>3, <3>4, <3>5, <3>6, <3>7
  <2> QED
    BY <2>4, <2>5
<1>2. P(B)
  BY <1>1
<1> QED
  BY <1>2

\* Fewer and smaller summands.
LEMMA SumSmaller ==
  ASSUME NEW B, IsFiniteSet(B), NEW A \in SUBSET B, NEW f, NEW g,
         \A x \in B : g[x] \in Nat, \A x \in A : f[x] \in Nat /\ f[x] <= g[x]
  PROVE  Sum(f, A) <= Sum(g, B)
<1>1. IsFiniteSet(A) /\ IsFiniteSet(B \ A)
  BY FS_Subset
<1> DEFINE P(U) == Sum(f, U) <= Sum(g, U)
           T == {U \in SUBSET A : ~P(U)}
<1>2. ASSUME T # {} PROVE FALSE
  <2>1. PICK U \in T : \A v \in SUBSET U : v # U => v \notin T
    <3> HIDE DEF T
    <3>1. T \in SUBSET SUBSET A
      BY DEF T
    <3> QED
      BY <1>1, <1>2, <3>1, MinimalSubset
  <2>2. U \in SUBSET A /\ IsFiniteSet(U) /\ ~P(U)
    BY <1>1, FS_Subset
  <2>3. U # {}
    <3>1. ASSUME U = {} PROVE FALSE
      <4>1. Sum(f, U) = 0 /\ Sum(g, U) = 0
        BY <2>2, <3>1, SumRecursion
      <4> QED
        BY <2>2, <4>1
    <3> QED
      BY <3>1
  <2>4. PICK x : x = Pick(U)
    OBVIOUS
  <2>5. PICK v : v = U \ {x}
    OBVIOUS
  <2>6. x \in A /\ x \in B /\ v \in SUBSET U /\ v # U
    BY <2>2, <2>3, <2>4, <2>5, PickSmaller
  <2>7. P(v) /\ IsFiniteSet(v)
    BY <2>1, <2>2, <2>6, FS_Subset
  <2>8. Sum(f, U) = f[x] + Sum(f, v) /\ Sum(g, U) = g[x] + Sum(g, v)
    BY <2>2, <2>3, <2>4, <2>5, SumRecursion
  <2>9. f[x] \in Nat /\ g[x] \in Nat /\ f[x] <= g[x]
    BY <2>6
  <2>10. Sum(f, v) \in Nat /\ Sum(g, v) \in Nat
    <3>1. \A y \in v : f[y] \in Nat /\ g[y] \in Nat
      BY <2>2, <2>6
    <3> QED
      BY <2>7, <3>1, SumSame
  <2> QED
    BY <2>2, <2>7, <2>8, <2>9, <2>10
<1>3. P(A)
  BY <1>2
<1>4. Sum(g, B) = Sum(g, A) + Sum(g, B \ A)
  <2>1. B = A \cup (B \ A) /\ A \cap (B \ A) = {}
    OBVIOUS
  <2> QED
    BY <1>1, <2>1, SumUnion
<1>5. Sum(f, A) \in Nat /\ Sum(g, A) \in Nat /\ Sum(g, B \ A) \in Nat
  BY <1>1, SumSame
<1> QED
  BY <1>3, <1>4, <1>5

\* The sum does not depend on how the summands are named.
LEMMA SumRenamed ==
  ASSUME NEW S, IsFiniteSet(S), NEW f, NEW g, NEW h,
         \A x, y \in S : h[x] = h[y] => x = y,
         \A x \in S : f[x] \in Nat /\ f[x] = g[h[x]]
  PROVE  Sum(f, S) = Sum(g, {h[x] : x \in S})
<1> DEFINE Image(U) == {h[x] : x \in U}
           P(U) == Sum(f, U) = Sum(g, Image(U))
           T == {U \in SUBSET S : ~P(U)}
<1>1. ASSUME T # {} PROVE FALSE
  <2>1. PICK U \in T : \A v \in SUBSET U : v # U => v \notin T
    <3> HIDE DEF T
    <3>1. T \in SUBSET SUBSET S
      BY DEF T
    <3> QED
      BY <1>1, <3>1, MinimalSubset
  <2>2. U \in SUBSET S /\ IsFiniteSet(U) /\ ~P(U)
    BY FS_Subset
  <2>3. U # {}
    <3>1. ASSUME U = {} PROVE FALSE
      <4>1. Image(U) = {} /\ IsFiniteSet(Image(U))
        BY <3>1, FS_EmptySet
      <4>2. Sum(f, U) = 0 /\ Sum(g, Image(U)) = 0
        BY <2>2, <3>1, <4>1, SumRecursion
      <4> QED
        BY <2>2, <4>2
    <3> QED
      BY <3>1
  <2>4. PICK x : x = Pick(U)
    OBVIOUS
  <2>5. PICK v : v = U \ {x}
    OBVIOUS
  <2>6. x \in U /\ v \in SUBSET U /\ v # U
    BY <2>2, <2>3, <2>4, <2>5, PickSmaller
  <2>7. P(v)
    BY <2>1, <2>2, <2>6
  <2>8. Sum(f, U) = f[x] + Sum(f, v)
    BY <2>2, <2>3, <2>4, <2>5, SumRecursion
  <2>9. PICK W : W = Image(U)
    OBVIOUS
  <2>10. IsFiniteSet(W) /\ h[x] \in W /\ W \ {h[x]} = Image(v)
    <3>1. IsFiniteSet(W)
      <4>1. [y \in U |-> h[y]] \in Surjection(U, W)
        BY <2>9 DEF Surjection
      <4> QED
        BY <2>2, <4>1, FS_Surjection
    <3>2. \A y \in U : y # x => h[y] # h[x]
      BY <2>2, <2>6
    <3> QED
      BY <2>5, <2>6, <2>9, <3>1, <3>2
  <2>11. \A z \in W : g[z] \in Nat
    BY <2>2, <2>9
  <2>12. Sum(g, W) = g[h[x]] + Sum(g, W \ {h[x]})
    BY <2>10, <2>11, SumWithout
  <2> QED
    BY <2>2, <2>6, <2>7, <2>8, <2>9, <2>10, <2>12
<1>2. P(S)
  BY <1>1
<1> QED
  BY <1>2

\* The sum of positive summands.
LEMMA SumPositive ==
  ASSUME NEW S, IsFiniteSet(S), S # {}, NEW f, \A x \in S : f[x] \in Nat \ {0}
  PROVE  Sum(f, S) > 0
<1>1. PICK y \in S : TRUE
  OBVIOUS
<1>2. Sum(f, S) = f[y] + Sum(f, S \ {y})
  BY SumWithout
<1>3. IsFiniteSet(S \ {y}) /\ \A x \in S \ {y} : f[x] \in Nat
  BY FS_Subset
<1>4. Sum(f, S \ {y}) \in Nat
  BY <1>3, SumSame
<1>5. f[y] \in Nat \ {0}
  OBVIOUS
<1> QED
  BY <1>2, <1>4, <1>5

\* Two functions that cancel have sums that cancel.
LEMMA SumsCancel ==
  ASSUME NEW S, IsFiniteSet(S), NEW f, NEW g,
         \A x \in S : f[x] \in Int /\ g[x] \in Int /\ f[x] + g[x] = 0
  PROVE  Sum(f, S) \in Int /\ Sum(g, S) \in Int /\ Sum(f, S) + Sum(g, S) = 0
<1> DEFINE P(U) == Sum(f, U) \in Int /\ Sum(g, U) \in Int /\ Sum(f, U) + Sum(g, U) = 0
           T == {U \in SUBSET S : ~P(U)}
<1>1. ASSUME T # {} PROVE FALSE
  <2>1. PICK U \in T : \A v \in SUBSET U : v # U => v \notin T
    <3> HIDE DEF T
    <3>1. T \in SUBSET SUBSET S
      BY DEF T
    <3> QED
      BY <1>1, <3>1, MinimalSubset
  <2>2. U \in SUBSET S /\ IsFiniteSet(U) /\ ~P(U)
    BY FS_Subset
  <2>3. U # {}
    <3>1. ASSUME U = {} PROVE FALSE
      <4>1. Sum(f, U) = 0 /\ Sum(g, U) = 0
        BY <2>2, <3>1, SumRecursion
      <4> QED
        BY <2>2, <4>1
    <3> QED
      BY <3>1
  <2> DEFINE x == Pick(U)
             v == U \ {x}
  <2>4. x \in S /\ v \in SUBSET U /\ v # U
    BY <2>2, <2>3, PickSmaller
  <2>5. P(v)
    BY <2>1, <2>2, <2>4
  <2>6. Sum(f, U) = f[x] + Sum(f, v) /\ Sum(g, U) = g[x] + Sum(g, v)
    BY <2>2, <2>3, SumRecursion
  <2>7. f[x] \in Int /\ g[x] \in Int /\ f[x] + g[x] = 0
    BY <2>4
  <2> HIDE DEF x, v
  <2> QED
    BY <2>2, <2>5, <2>6, <2>7
<1> QED
  BY <1>1
=============================================================================

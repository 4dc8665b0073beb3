----------------------------- MODULE SumTheorems -----------------------------
(***************************************************************************)
(* What SumFunctionOnSet of the community modules computes over a finite   *)
(* set of naturals: it may be taken apart at any element, it is monotone,  *)
(* a part has no larger sum than the whole, and the sum is bounded by the  *)
(* largest term times the number of terms.                                 *)
(*                                                                         *)
(* The operator is a recursion over subsets.  The induction is made by     *)
(* hand, as a smallest counterexample: the subsets of a finite set are     *)
(* well founded.                                                           *)
(***************************************************************************)
EXTENDS Functions, FiniteSetTheorems, TLAPS

Pick(s) == CHOOSE x \in s : TRUE

(* g is a table of the sums of f over the subsets of S.                     *)
Table(f, S, g) ==
    g = [s \in SUBSET S |-> IF s = {} THEN 0 ELSE f[Pick(s)] + g[s \ {Pick(s)}]]

-----------------------------------------------------------------------------
(* Smallest counterexamples.                                                *)

LEMMA SmallestSet ==
    ASSUME NEW S, IsFiniteSet(S), NEW B \in SUBSET (SUBSET S), B # {}
    PROVE  \E t \in B : \A u \in B : u \subseteq t => u = t
<1>1. IsWellFoundedOn(StrictSubsetOrdering(S), SUBSET S)
  BY FS_StrictSubsetOrderingWellFounded, FS_FiniteSubsetsOfFinite
<1>2. PICK t \in B : \A u \in B : ~ (<<u, t>> \in StrictSubsetOrdering(S))
  BY <1>1, WFMin
<1>. QED BY <1>2 DEF StrictSubsetOrdering

LEMMA PickIn == ASSUME NEW s, s # {} PROVE Pick(s) \in s
BY DEF Pick

-----------------------------------------------------------------------------
(* There is one table for each finite set.                                  *)

LEMMA OneTable ==
    ASSUME NEW f, NEW S, IsFiniteSet(S), NEW g, Table(f, S, g), NEW h, Table(f, S, h)
    PROVE  g = h
<1>. DEFINE B == {s \in SUBSET S : g[s] # h[s]}
<1>1. SUFFICES B = {}
  BY <1>1 DEF Table
<1>2. SUFFICES ASSUME B # {} PROVE FALSE
  OBVIOUS
<1>3. PICK t \in B : \A u \in B : u \subseteq t => u = t
  <2>. HIDE DEF B
  <2>. B \in SUBSET (SUBSET S)
    BY DEF B
  <2>. QED BY <1>2, SmallestSet
<1>4. CASE t = {}
  BY <1>4, g[t] = 0, h[t] = 0 DEF Table
<1>5. CASE t # {}
  <2>1. Pick(t) \in t /\ t \ {Pick(t)} \in SUBSET S
    BY <1>5, PickIn
  <2>2. g[t \ {Pick(t)}] = h[t \ {Pick(t)}]
    BY <1>3, <2>1
  <2>3. g[t] = f[Pick(t)] + g[t \ {Pick(t)}]
    BY <1>5 DEF Table
  <2>4. h[t] = f[Pick(t)] + h[t \ {Pick(t)}]
    BY <1>5 DEF Table
  <2>. QED BY <2>2, <2>3, <2>4
<1>. QED BY <1>4, <1>5

TableOf(f, S) == CHOOSE g : Table(f, S, g)

(* A table for a set contains those for its subsets.                        *)
LEMMA PartOfTable ==
    ASSUME NEW f, NEW S, IsFiniteSet(S), NEW g, Table(f, S, g), NEW T \in SUBSET S
    PROVE  Table(f, T, TableOf(f, T)) /\ TableOf(f, T)[T] = g[T]
<1>. DEFINE h == [s \in SUBSET T |-> g[s]]
<1>1. Table(f, T, h)
  <2>1. \A s \in SUBSET T : s \ {Pick(s)} \in SUBSET T
    OBVIOUS
  <2>2. \A s \in SUBSET T : g[s] = IF s = {} THEN 0 ELSE f[Pick(s)] + g[s \ {Pick(s)}]
    BY DEF Table
  <2>. QED BY <2>1, <2>2 DEF Table
<1>2. Table(f, T, TableOf(f, T))
  BY <1>1 DEF TableOf
<1>3. TableOf(f, T) = h
  BY <1>1, <1>2, OneTable, FS_Subset
<1>. QED BY <1>2, <1>3

LEMMA TableExists ==
    ASSUME NEW f, NEW S, IsFiniteSet(S)
    PROVE  Table(f, S, TableOf(f, S))
<1>. DEFINE Good(t) == Table(f, t, TableOf(f, t))
            B == {t \in SUBSET S : ~ Good(t)}
<1>1. SUFFICES ASSUME B # {} PROVE FALSE
  OBVIOUS
<1>2. PICK t \in B : \A u \in B : u \subseteq t => u = t
  <2>. HIDE DEF B
  <2>. B \in SUBSET (SUBSET S)
    BY DEF B
  <2>. QED BY <1>1, SmallestSet
<1>3. \A u \in SUBSET t : u # t => Good(u) /\ IsFiniteSet(u)
  BY <1>2, FS_Subset
<1>. DEFINE value(u) == TableOf(f, u)[u]
            h == [s \in SUBSET t |->
                    IF s = {} THEN 0 ELSE f[Pick(s)] + value(s \ {Pick(s)})]
<1>4. ASSUME NEW s \in SUBSET t, s # t
      PROVE  h[s] = value(s)
  <2>1. CASE s = {}
    <3>1. TableOf(f, s)[s] = 0
      BY <1>3, <1>4, <2>1 DEF Table
    <3>. QED BY <2>1, <3>1
  <2>2. CASE s # {}
    <3>1. Pick(s) \in s /\ s \ {Pick(s)} \in SUBSET s
      BY <2>2, PickIn
    <3>2. TableOf(f, s)[s] = f[Pick(s)] + TableOf(f, s)[s \ {Pick(s)}]
      BY <1>3, <1>4, <2>2 DEF Table
    <3>3. value(s \ {Pick(s)}) = TableOf(f, s)[s \ {Pick(s)}]
      BY <1>3, <1>4, <3>1, PartOfTable
    <3>. QED BY <2>2, <3>2, <3>3
  <2>. QED BY <2>1, <2>2
<1>5. Table(f, t, h)
  <2>1. ASSUME NEW s \in SUBSET t, s # {}
        PROVE  h[s] = f[Pick(s)] + h[s \ {Pick(s)}]
    <3>1. Pick(s) \in s
      BY <2>1, PickIn
    <3>2. s \ {Pick(s)} \in SUBSET t /\ s \ {Pick(s)} # t
      BY <3>1
    <3>3. h[s \ {Pick(s)}] = value(s \ {Pick(s)})
      BY <1>4, <3>2
    <3>. QED BY <2>1, <3>3
  <2>2. h[{}] = 0
    OBVIOUS
  <2>3. h = [s \in SUBSET t |-> h[s]]
    OBVIOUS
  <2>. HIDE DEF h
  <2>4. h = [s \in SUBSET t |-> IF s = {} THEN 0 ELSE f[Pick(s)] + h[s \ {Pick(s)}]]
    BY <2>1, <2>2, <2>3
  <2>. QED BY <2>4 DEF Table
<1>6. Good(t)
  BY <1>5 DEF TableOf
<1>. QED BY <1>2, <1>6

LEMMA SumIsInTable ==
    ASSUME NEW f, NEW S
    PROVE  SumFunctionOnSet(f, S) = TableOf(f, S)[S]
BY DEF SumFunctionOnSet, FoldFunctionOnSet, MapThenFoldSet, TableOf, Table, Pick

LEMMA SumUnfolds ==
    ASSUME NEW f, NEW S, IsFiniteSet(S), S # {}
    PROVE  SumFunctionOnSet(f, S) = f[Pick(S)] + SumFunctionOnSet(f, S \ {Pick(S)})
<1>. DEFINE g == TableOf(f, S)
<1>1. Table(f, S, g)
  BY TableExists
<1>2. TableOf(f, S \ {Pick(S)})[S \ {Pick(S)}] = g[S \ {Pick(S)}]
  BY <1>1, PartOfTable
<1>. HIDE DEF g
<1>3. g[S] = f[Pick(S)] + g[S \ {Pick(S)}]
  BY <1>1 DEF Table
<1>4. SumFunctionOnSet(f, S) = g[S]
  BY SumIsInTable DEF g
<1>5. SumFunctionOnSet(f, S \ {Pick(S)}) = g[S \ {Pick(S)}]
  BY <1>2, SumIsInTable
<1>. QED BY <1>3, <1>4, <1>5

-----------------------------------------------------------------------------
(* The facts.                                                               *)

LEMMA SumOfNone ==
    ASSUME NEW f
    PROVE  SumFunctionOnSet(f, {}) = 0
<1>1. Table(f, {}, TableOf(f, {}))
  BY TableExists, FS_EmptySet
<1>. QED BY <1>1, SumIsInTable DEF Table

LEMMA SumInNat ==
    ASSUME NEW f, NEW S, IsFiniteSet(S), \A x \in S : f[x] \in Nat
    PROVE  SumFunctionOnSet(f, S) \in Nat
<1>. DEFINE B == {t \in SUBSET S : SumFunctionOnSet(f, t) \notin Nat}
<1>1. SUFFICES ASSUME B # {} PROVE FALSE
  OBVIOUS
<1>2. PICK t \in B : \A u \in B : u \subseteq t => u = t
  <2>. HIDE DEF B
  <2>. B \in SUBSET (SUBSET S)
    BY DEF B
  <2>. QED BY <1>1, SmallestSet
<1>3. IsFiniteSet(t)
  BY FS_Subset
<1>nonempty. t # {}
  <2>1. SUFFICES ASSUME t = {} PROVE FALSE
    OBVIOUS
  <2>2. SumFunctionOnSet(f, t) = 0
    BY <2>1, SumOfNone
  <2>. QED BY <2>2
<1>4. Pick(t) \in t /\ t \ {Pick(t)} \in SUBSET S
  BY <1>nonempty, PickIn
<1>5. SumFunctionOnSet(f, t \ {Pick(t)}) \in Nat
  BY <1>2, <1>4
<1>6. SumFunctionOnSet(f, t) = f[Pick(t)] + SumFunctionOnSet(f, t \ {Pick(t)})
  BY <1>3, <1>nonempty, SumUnfolds
<1>. QED BY <1>2, <1>4, <1>5, <1>6

(* The order in which the terms are taken does not matter.                  *)
LEMMA SumRemoves ==
    ASSUME NEW f, NEW S, IsFiniteSet(S), \A x \in S : f[x] \in Nat, NEW y \in S
    PROVE  SumFunctionOnSet(f, S) = f[y] + SumFunctionOnSet(f, S \ {y})
<1>. DEFINE Apart(t) == \A x \in t :
                SumFunctionOnSet(f, t) = f[x] + SumFunctionOnSet(f, t \ {x})
            B == {t \in SUBSET S : ~ Apart(t)}
<1>1. SUFFICES ASSUME B # {} PROVE FALSE
  OBVIOUS
<1>2. PICK t \in B : \A u \in B : u \subseteq t => u = t
  <2>. HIDE DEF B
  <2>. B \in SUBSET (SUBSET S)
    BY DEF B
  <2>. QED BY <1>1, SmallestSet
<1>3. PICK x \in t : SumFunctionOnSet(f, t) # f[x] + SumFunctionOnSet(f, t \ {x})
  BY <1>2
<1>. DEFINE p == Pick(t)
<1>4. IsFiniteSet(t) /\ p \in t
  BY FS_Subset, PickIn
<1>5. SumFunctionOnSet(f, t) = f[p] + SumFunctionOnSet(f, t \ {p})
  BY <1>4, SumUnfolds
<1>. HIDE DEF p
<1>6. x # p
  BY <1>3, <1>5
<1>7. Apart(t \ {p}) /\ Apart(t \ {x})
  BY <1>2, <1>3, <1>4
<1>8. SumFunctionOnSet(f, t \ {p}) = f[x] + SumFunctionOnSet(f, (t \ {p}) \ {x})
  BY <1>6, <1>7
<1>9. SumFunctionOnSet(f, t \ {x}) = f[p] + SumFunctionOnSet(f, (t \ {x}) \ {p})
  BY <1>4, <1>6, <1>7
<1>10. (t \ {p}) \ {x} = (t \ {x}) \ {p}
  OBVIOUS
<1>11. SumFunctionOnSet(f, (t \ {x}) \ {p}) \in Nat
  BY <1>4, FS_Subset, SumInNat, (t \ {x}) \ {p} \in SUBSET S
<1>12. f[x] \in Nat /\ f[p] \in Nat
  BY <1>4
<1>. DEFINE rest == SumFunctionOnSet(f, (t \ {x}) \ {p})
<1>13. SumFunctionOnSet(f, t) = f[p] + (f[x] + rest)
  BY <1>5, <1>8, <1>10
<1>14. SumFunctionOnSet(f, t) # f[x] + (f[p] + rest)
  BY <1>3, <1>9
<1>. HIDE DEF rest
<1>15. f[p] + (f[x] + rest) = f[x] + (f[p] + rest)
  BY <1>11, <1>12 DEF rest
<1>. QED BY <1>13, <1>14, <1>15

(* Sums are monotone in their terms; equal terms have equal sums.           *)
LEMMA SumMonotone ==
    ASSUME NEW f, NEW g, NEW S, IsFiniteSet(S),
           \A x \in S : f[x] \in Nat /\ g[x] \in Nat /\ f[x] <= g[x]
    PROVE  SumFunctionOnSet(f, S) <= SumFunctionOnSet(g, S)
<1>. DEFINE B == {t \in SUBSET S : ~ (SumFunctionOnSet(f, t) <= SumFunctionOnSet(g, t))}
<1>1. SUFFICES ASSUME B # {} PROVE FALSE
  OBVIOUS
<1>2. PICK t \in B : \A u \in B : u \subseteq t => u = t
  <2>. HIDE DEF B
  <2>. B \in SUBSET (SUBSET S)
    BY DEF B
  <2>. QED BY <1>1, SmallestSet
<1>3. IsFiniteSet(t)
  BY FS_Subset
<1>nonempty. t # {}
  <2>1. SUFFICES ASSUME t = {} PROVE FALSE
    OBVIOUS
  <2>2. SumFunctionOnSet(f, t) = 0 /\ SumFunctionOnSet(g, t) = 0
    BY <2>1, SumOfNone
  <2>. QED BY <2>2
<1>4. Pick(t) \in t /\ t \ {Pick(t)} \in SUBSET S
  BY <1>nonempty, PickIn
<1>5. SumFunctionOnSet(f, t \ {Pick(t)}) <= SumFunctionOnSet(g, t \ {Pick(t)})
  BY <1>2, <1>4
<1>6. /\ SumFunctionOnSet(f, t \ {Pick(t)}) \in Nat
      /\ SumFunctionOnSet(g, t \ {Pick(t)}) \in Nat
  BY <1>4, FS_Subset, SumInNat
<1>7. /\ SumFunctionOnSet(f, t) = f[Pick(t)] + SumFunctionOnSet(f, t \ {Pick(t)})
      /\ SumFunctionOnSet(g, t) = g[Pick(t)] + SumFunctionOnSet(g, t \ {Pick(t)})
  BY <1>3, <1>nonempty, SumUnfolds
<1>. QED BY <1>2, <1>4, <1>5, <1>6, <1>7

LEMMA SumSame ==
    ASSUME NEW f, NEW g, NEW S, IsFiniteSet(S),
           \A x \in S : f[x] \in Nat /\ f[x] = g[x]
    PROVE  SumFunctionOnSet(f, S) = SumFunctionOnSet(g, S)
<1>1. SumFunctionOnSet(f, S) <= SumFunctionOnSet(g, S)
  BY SumMonotone
<1>2. SumFunctionOnSet(g, S) <= SumFunctionOnSet(f, S)
  BY SumMonotone
<1>. QED BY <1>1, <1>2, SumInNat

(* One term is replaced.                                                    *)
LEMMA SumUpdates ==
    ASSUME NEW f, NEW g, NEW S, IsFiniteSet(S), NEW y \in S,
           \A x \in S : f[x] \in Nat /\ g[x] \in Nat,
           \A x \in S \ {y} : g[x] = f[x]
    PROVE  SumFunctionOnSet(g, S) = SumFunctionOnSet(f, S) - f[y] + g[y]
<1>1. IsFiniteSet(S \ {y})
  BY FS_Subset
<1>2. SumFunctionOnSet(f, S \ {y}) = SumFunctionOnSet(g, S \ {y})
  BY <1>1, SumSame
<1>3. SumFunctionOnSet(f, S) = f[y] + SumFunctionOnSet(f, S \ {y})
  BY SumRemoves
<1>4. SumFunctionOnSet(g, S) = g[y] + SumFunctionOnSet(g, S \ {y})
  BY SumRemoves
<1>5. SumFunctionOnSet(f, S \ {y}) \in Nat
  BY <1>1, SumInNat
<1>. QED BY <1>2, <1>3, <1>4, <1>5

(* A part sums to no more than the whole.                                   *)
LEMMA SumOfPart ==
    ASSUME NEW f, NEW S, IsFiniteSet(S), \A x \in S : f[x] \in Nat, NEW T \in SUBSET S
    PROVE  SumFunctionOnSet(f, T) <= SumFunctionOnSet(f, S)
<1>. DEFINE B == {t \in SUBSET S : ~ (SumFunctionOnSet(f, t \cap T) <= SumFunctionOnSet(f, t))}
<1>1. SUFFICES B = {}
  <2>. S \cap T = T /\ S \in SUBSET S
    OBVIOUS
  <2>. QED BY <1>1
<1>2. SUFFICES ASSUME B # {} PROVE FALSE
  OBVIOUS
<1>3. PICK t \in B : \A u \in B : u \subseteq t => u = t
  <2>. HIDE DEF B
  <2>. B \in SUBSET (SUBSET S)
    BY DEF B
  <2>. QED BY <1>2, SmallestSet
<1>4. IsFiniteSet(t) /\ IsFiniteSet(t \cap T)
  BY FS_Subset
<1>5. t # {}
  <2>1. SUFFICES ASSUME t = {} PROVE FALSE
    OBVIOUS
  <2>2. SumFunctionOnSet(f, t) = 0 /\ t \cap T = t
    BY <2>1, SumOfNone
  <2>. QED BY <2>2
<1>6. PICK x \in t : TRUE
  BY <1>5
<1>. DEFINE u == t \ {x}
<1>7. u \in SUBSET S /\ IsFiniteSet(u) /\ IsFiniteSet(u \cap T) /\ f[x] \in Nat
  BY <1>4, FS_Subset
<1>8. SumFunctionOnSet(f, u \cap T) <= SumFunctionOnSet(f, u)
  BY <1>3, <1>6, <1>7
<1>9. SumFunctionOnSet(f, t) = f[x] + SumFunctionOnSet(f, u)
  BY <1>4, SumRemoves
<1>10. SumFunctionOnSet(f, u) \in Nat /\ SumFunctionOnSet(f, u \cap T) \in Nat
  BY <1>7, SumInNat
<1>13. ~ (SumFunctionOnSet(f, t \cap T) <= SumFunctionOnSet(f, t))
  BY <1>3
<1>. HIDE DEF B, u
<1>11. CASE x \in T
  <2>1. (t \cap T) \ {x} = u \cap T /\ x \in t \cap T
    BY <1>6, <1>11 DEF u
  <2>2. SumFunctionOnSet(f, t \cap T) = f[x] + SumFunctionOnSet(f, u \cap T)
    BY <1>4, <2>1, SumRemoves
  <2>. QED BY <1>7, <1>8, <1>9, <1>10, <1>13, <2>2
<1>12. CASE x \notin T
  <2>1. t \cap T = u \cap T
    BY <1>12 DEF u
  <2>2. SumFunctionOnSet(f, t \cap T) = SumFunctionOnSet(f, u \cap T)
    BY <2>1
  <2>. QED BY <1>7, <1>8, <1>9, <1>10, <1>13, <2>2
<1>. QED BY <1>11, <1>12

(* No term is more than the sum.                                            *)
LEMMA TermWithinSum ==
    ASSUME NEW f, NEW S, IsFiniteSet(S), \A x \in S : f[x] \in Nat, NEW y \in S
    PROVE  f[y] <= SumFunctionOnSet(f, S)
<1>1. SumFunctionOnSet(f, S) = f[y] + SumFunctionOnSet(f, S \ {y})
  BY SumRemoves
<1>2. SumFunctionOnSet(f, S \ {y}) \in Nat
  BY FS_Subset, SumInNat
<1>. QED BY <1>1, <1>2

(* A sum is at most the number of its terms times a bound of them.          *)
LEMMA SumBounded ==
    ASSUME NEW f, NEW S, IsFiniteSet(S), NEW c \in Nat,
           \A x \in S : f[x] \in Nat /\ f[x] <= c
    PROVE  SumFunctionOnSet(f, S) <= Cardinality(S) * c
<1>. DEFINE B == {t \in SUBSET S : ~ (SumFunctionOnSet(f, t) <= Cardinality(t) * c)}
<1>1. SUFFICES ASSUME B # {} PROVE FALSE
  OBVIOUS
<1>2. PICK t \in B : \A u \in B : u \subseteq t => u = t
  <2>. HIDE DEF B
  <2>. B \in SUBSET (SUBSET S)
    BY DEF B
  <2>. QED BY <1>1, SmallestSet
<1>3. IsFiniteSet(t)
  BY FS_Subset
<1>nonempty. t # {}
  <2>1. SUFFICES ASSUME t = {} PROVE FALSE
    OBVIOUS
  <2>2. SumFunctionOnSet(f, t) = 0
    BY <2>1, SumOfNone
  <2>3. Cardinality(t) = 0
    BY <2>1, FS_EmptySet
  <2>. QED BY <2>2, <2>3
<1>4. Pick(t) \in t /\ t \ {Pick(t)} \in SUBSET S
  BY <1>nonempty, PickIn
<1>. DEFINE n == Cardinality(t \ {Pick(t)})
            s == SumFunctionOnSet(f, t \ {Pick(t)})
<1>5. s <= n * c
  BY <1>2, <1>4
<1>6. n \in Nat /\ Cardinality(t) = n + 1
  <2>1. IsFiniteSet(t \ {Pick(t)})
    BY <1>4, FS_Subset
  <2>2. n \in Nat /\ Cardinality(t) \in Nat
    BY <1>3, <2>1, FS_CardinalityType
  <2>3. n = Cardinality(t) - 1
    BY <1>3, <1>4, FS_RemoveElement
  <2>. QED BY <2>2, <2>3
<1>7. s \in Nat
  BY <1>4, FS_Subset, SumInNat
<1>8. SumFunctionOnSet(f, t) = f[Pick(t)] + s
  BY <1>3, <1>nonempty, SumUnfolds
<1>9. ~ (f[Pick(t)] + s <= (n + 1) * c)
  BY <1>2, <1>6, <1>8
<1>. HIDE DEF n, s
<1>10. (n + 1) * c = n * c + c
  BY <1>6
<1>11. n * c \in Nat
  BY <1>6
<1>. QED BY <1>4, <1>5, <1>7, <1>9, <1>10, <1>11

LEMMA SumOfZeros ==
    ASSUME NEW f, NEW S, IsFiniteSet(S), \A x \in S : f[x] = 0
    PROVE  SumFunctionOnSet(f, S) = 0
<1>1. SumFunctionOnSet(f, S) <= Cardinality(S) * 0
  BY SumBounded
<1>2. Cardinality(S) * 0 = 0
  BY FS_CardinalityType
<1>3. SumFunctionOnSet(f, S) \in Nat
  BY SumInNat
<1>. QED BY <1>1, <1>2, <1>3

LEMMA SumOverDomain ==
    ASSUME NEW f, NEW S, DOMAIN f = S
    PROVE  SumFunction(f) = SumFunctionOnSet(f, S)
BY DEF SumFunction
=============================================================================

----------------------------- MODULE SumsProofs -----------------------------
(***************************************************************************)
(* What totals of amounts do: they split, grow, change and scale with the  *)
(* amounts, for any finite set of anything.                                *)
(***************************************************************************)
EXTENDS Sums, FiniteSetTheorems, WellFoundedInduction, TLAPS

(* The units of one amount are as many as the amount.                      *)
LEMMA SumOfOne ==
  ASSUME NEW f, NEW x, f[x] \in Int
  PROVE  /\ IsFiniteSet(Units(f, {x}))
         /\ f[x] \in Nat => SumOver(f, {x}) = f[x]
  <1>1. Units(f, {x}) = {x} \X (1..f[x])
    BY DEF Units
  <1>2. /\ IsFiniteSet(1..f[x])
        /\ f[x] \in Nat => Cardinality(1..f[x]) = f[x]
    <2>1. 1 \in Int /\ f[x] \in Int
      OBVIOUS
    <2>2. /\ IsFiniteSet(1..f[x])
          /\ Cardinality(1..f[x]) = IF 1 > f[x] THEN 0 ELSE f[x] - 1 + 1
      BY <2>1, FS_Interval
    <2> QED BY <2>2
  <1>3. IsFiniteSet({x}) /\ Cardinality({x}) = 1
    BY FS_Singleton
  <1>4. /\ IsFiniteSet({x} \X (1..f[x]))
        /\ Cardinality({x} \X (1..f[x])) = 1 * Cardinality(1..f[x])
    BY <1>2, <1>3, FS_Product
  <1>5. f[x] \in Nat => Cardinality({x} \X (1..f[x])) = f[x]
    BY <1>2, <1>4
  <1> QED BY <1>1, <1>4, <1>5 DEF SumOver

LEMMA SumOfNone ==
  ASSUME NEW f
  PROVE  Units(f, {}) = {} /\ SumOver(f, {}) = 0
  <1>1. Units(f, {}) = {}
    BY DEF Units
  <1> QED BY <1>1, FS_EmptySet DEF SumOver

(* A total is a number, whatever finitely many numbers are summed.         *)
LEMMA UnitsFinite ==
  ASSUME NEW f, NEW S, IsFiniteSet(S), \A x \in S : f[x] \in Int
  PROVE  IsFiniteSet(Units(f, S)) /\ SumOver(f, S) \in Nat
  <1> DEFINE parts == {{x} \X (1..f[x]) : x \in S}
  <1>1. IsFiniteSet(parts)
    <2> DEFINE g == [x \in S |-> {x} \X (1..f[x])]
    <2>1. g \in Surjection(S, parts)
      BY DEF Surjection
    <2> QED BY <2>1, FS_Surjection
  <1>2. \A p \in parts : IsFiniteSet(p)
    <2>1. ASSUME NEW x \in S PROVE IsFiniteSet({x} \X (1..f[x]))
      <3>1. Units(f, {x}) = {x} \X (1..f[x])
        BY DEF Units
      <3> QED BY <3>1, SumOfOne
    <2> QED BY <2>1
  <1>3. IsFiniteSet(UNION parts)
    BY <1>1, <1>2, FS_UNION
  <1> QED BY <1>3, FS_CardinalityType DEF Units, SumOver

(* Finitely many amounts, whole and not negative.                          *)
Amounts(f, S) == IsFiniteSet(S) /\ \A x \in S : f[x] \in Nat

LEMMA SumIsAmount ==
  ASSUME NEW f, NEW S, Amounts(f, S)
  PROVE  IsFiniteSet(Units(f, S)) /\ SumOver(f, S) \in Nat
  <1>1. \A x \in S : f[x] \in Int
    BY DEF Amounts
  <1> QED BY <1>1, UnitsFinite DEF Amounts

(* The units of different parts are different.                             *)
LEMMA SumOfDisjoint ==
  ASSUME NEW f, NEW S, NEW T, Amounts(f, S), Amounts(f, T), S \cap T = {}
  PROVE  SumOver(f, S \cup T) = SumOver(f, S) + SumOver(f, T)
  <1> DEFINE U == Units(f, S)
             V == Units(f, T)
  <1>1. Units(f, S \cup T) = U \cup V
    BY DEF Units
  <1>2. U \cap V = {}
    BY DEF Units
  <1>3. /\ IsFiniteSet(U) /\ Cardinality(U) \in Nat
        /\ IsFiniteSet(V) /\ Cardinality(V) \in Nat
    BY SumIsAmount DEF SumOver
  <1> HIDE DEF U, V
  <1>4. Cardinality(U \cup V)
          = Cardinality(U) + Cardinality(V) - Cardinality(U \cap V)
    BY <1>3, FS_Union
  <1>5. Cardinality(U \cap V) = 0
    BY <1>2, FS_EmptySet
  <1>6. Cardinality(U \cup V) = Cardinality(U) + Cardinality(V)
    BY <1>3, <1>4, <1>5
  <1> QED BY <1>1, <1>6 DEF SumOver, U, V

(* One amount taken out of a total.                                        *)
LEMMA SumSplits ==
  ASSUME NEW f, NEW S, Amounts(f, S), NEW x \in S
  PROVE  SumOver(f, S) = f[x] + SumOver(f, S \ {x})
  <1>1. Amounts(f, {x}) /\ Amounts(f, S \ {x})
    BY FS_Singleton, FS_Subset DEF Amounts
  <1>2. S = {x} \cup (S \ {x}) /\ {x} \cap (S \ {x}) = {}
    OBVIOUS
  <1>3. SumOver(f, S) = SumOver(f, {x}) + SumOver(f, S \ {x})
    BY <1>1, <1>2, SumOfDisjoint
  <1>4. SumOver(f, {x}) = f[x]
    BY SumOfOne DEF Amounts
  <1> QED BY <1>3, <1>4

(* A total depends on nothing but the amounts summed, and is none when     *)
(* they are all zero.                                                      *)
LEMMA SumOfSame ==
  ASSUME NEW f, NEW g, NEW S, \A x \in S : f[x] = g[x]
  PROVE  SumOver(f, S) = SumOver(g, S)
  <1>1. Units(f, S) = Units(g, S)
    BY DEF Units
  <1> QED BY <1>1 DEF SumOver

(* More, or more of them, is not less.                                     *)
LEMMA SumGrows ==
  ASSUME NEW f, NEW g, NEW S, NEW T, S \subseteq T, Amounts(f, S), Amounts(g, T),
         \A x \in S : f[x] <= g[x]
  PROVE  SumOver(f, S) <= SumOver(g, T)
  <1>1. Units(f, S) \subseteq Units(g, T)
    <2> SUFFICES ASSUME NEW x \in S, NEW k \in 1..f[x]
                 PROVE  k \in 1..g[x]
      BY DEF Units
    <2>1. f[x] \in Nat /\ g[x] \in Nat
      BY DEF Amounts
    <2> QED BY <2>1
  <1>2. IsFiniteSet(Units(g, T))
    BY SumIsAmount
  <1> QED BY <1>1, <1>2, FS_Subset DEF SumOver

LEMMA SumOfZeros ==
  ASSUME NEW f, NEW S, \A x \in S : f[x] = 0
  PROVE  SumOver(f, S) = 0
  <1>1. Units(f, S) = {}
    BY DEF Units
  <1> QED BY <1>1, FS_EmptySet DEF SumOver

(* One amount changed.                                                     *)
LEMMA SumChanges ==
  ASSUME NEW f, NEW g, NEW S, Amounts(f, S), Amounts(g, S), NEW x \in S,
         \A y \in S \ {x} : g[y] = f[y]
  PROVE  SumOver(g, S) = SumOver(f, S) - f[x] + g[x]
  <1>1. /\ SumOver(f, S) = f[x] + SumOver(f, S \ {x})
        /\ SumOver(g, S) = g[x] + SumOver(g, S \ {x})
    BY SumSplits
  <1>2. SumOver(g, S \ {x}) = SumOver(f, S \ {x})
    BY SumOfSame
  <1>3. Amounts(f, S \ {x})
    BY FS_Subset DEF Amounts
  <1>4. SumOver(f, S \ {x}) \in Nat /\ f[x] \in Nat /\ g[x] \in Nat
    BY <1>3, SumIsAmount DEF Amounts
  <1> QED BY <1>1, <1>2, <1>4

(* Zero amounts may be left out.                                           *)
LEMMA SumOfNonzero ==
  ASSUME NEW f, NEW S, NEW T \in SUBSET S, Amounts(f, S),
         \A x \in S \ T : f[x] = 0
  PROVE  SumOver(f, S) = SumOver(f, T)
  <1>1. Units(f, S) = Units(f, T)
    BY DEF Units
  <1> QED BY <1>1 DEF SumOver

-----------------------------------------------------------------------------
(* Facts that take an induction over the set: of the sets at fault, some   *)
(* set is one from which no element can be taken.                          *)

LEMMA LeastAtFault ==
  ASSUME NEW S, IsFiniteSet(S), NEW F \in SUBSET (SUBSET S), F # {}
  PROVE  \E T \in F : \A x \in T : T \ {x} \notin F
  <1> DEFINE R == StrictSubsetOrdering(S)
  <1>1. IsWellFoundedOn(R, SUBSET S)
    BY FS_StrictSubsetOrderingWellFounded, FS_FiniteSubsetsOfFinite
  <1> HIDE DEF R
  <1>2. F \subseteq SUBSET S
    OBVIOUS
  <1>3. PICK T \in F : \A U \in F : ~ (<<U, T>> \in R)
    BY <1>1, <1>2, WFMin
  <1>4. ASSUME NEW x \in T, T \ {x} \in F PROVE FALSE
    <2>1. T \in SUBSET S /\ T \ {x} \in SUBSET S /\ T \ {x} # T
      OBVIOUS
    <2>2. <<T \ {x}, T>> \in R
      BY <2>1 DEF R, StrictSubsetOrdering
    <2> QED BY <1>3, <1>4, <2>2
  <1> QED BY <1>4

(* The total of two amounts each is the two totals together.               *)
LEMMA SumOfSums ==
  ASSUME NEW f, NEW g, NEW h, NEW S, Amounts(f, S), Amounts(g, S),
         \A x \in S : h[x] = f[x] + g[x]
  PROVE  SumOver(h, S) = SumOver(f, S) + SumOver(g, S)
  <1> DEFINE F == {T \in SUBSET S : SumOver(h, T) # SumOver(f, T) + SumOver(g, T)}
  <1> SUFFICES ASSUME F # {} PROVE FALSE
    OBVIOUS
  <1>1. PICK T \in F : \A x \in T : T \ {x} \notin F
    BY LeastAtFault DEF Amounts
  <1>2. /\ T \in SUBSET S
        /\ SumOver(h, T) # SumOver(f, T) + SumOver(g, T)
        /\ \A x \in T : T \ {x} \in SUBSET S
    OBVIOUS
  <1>3. T # {}
    BY <1>2, SumOfNone
  <1>4. PICK x \in T : TRUE
    BY <1>3
  <1>5. SumOver(h, T \ {x}) = SumOver(f, T \ {x}) + SumOver(g, T \ {x})
    BY <1>1
  <1>6. Amounts(h, T) /\ Amounts(f, T) /\ Amounts(g, T)
    <2>1. \A y \in T : f[y] \in Nat /\ g[y] \in Nat /\ h[y] = f[y] + g[y]
      BY <1>2 DEF Amounts
    <2>2. \A y \in T : h[y] \in Nat
      BY <2>1
    <2> QED BY <1>2, <2>1, <2>2, FS_Subset DEF Amounts
  <1>7. /\ SumOver(h, T) = h[x] + SumOver(h, T \ {x})
        /\ SumOver(f, T) = f[x] + SumOver(f, T \ {x})
        /\ SumOver(g, T) = g[x] + SumOver(g, T \ {x})
    BY <1>6, SumSplits
  <1>8. /\ SumOver(f, T \ {x}) \in Nat /\ SumOver(g, T \ {x}) \in Nat
        /\ f[x] \in Nat /\ g[x] \in Nat /\ h[x] = f[x] + g[x]
    <2>1. Amounts(f, T \ {x}) /\ Amounts(g, T \ {x})
      BY <1>6, FS_Subset DEF Amounts
    <2> QED BY <1>2, <1>6, <2>1, SumIsAmount DEF Amounts
  <1> QED BY <1>2, <1>5, <1>7, <1>8

(* Amounts each times c come to the total times c.                         *)
LEMMA SumScales ==
  ASSUME NEW f, NEW g, NEW S, NEW c \in Nat, Amounts(f, S),
         \A x \in S : g[x] = c * f[x]
  PROVE  SumOver(g, S) = c * SumOver(f, S)
  <1> DEFINE F == {T \in SUBSET S : SumOver(g, T) # c * SumOver(f, T)}
  <1> SUFFICES ASSUME F # {} PROVE FALSE
    OBVIOUS
  <1>1. PICK T \in F : \A x \in T : T \ {x} \notin F
    BY LeastAtFault DEF Amounts
  <1>2. /\ T \in SUBSET S
        /\ SumOver(g, T) # c * SumOver(f, T)
        /\ \A x \in T : T \ {x} \in SUBSET S
    OBVIOUS
  <1>3. T # {}
    <2>1. c * 0 = 0
      OBVIOUS
    <2>2. SumOver(f, {}) = 0 /\ SumOver(g, {}) = 0
      BY SumOfNone
    <2> QED BY <1>2, <2>1, <2>2
  <1>4. PICK x \in T : TRUE
    BY <1>3
  <1>5. SumOver(g, T \ {x}) = c * SumOver(f, T \ {x})
    BY <1>1
  <1>6. Amounts(g, T) /\ Amounts(f, T)
    <2>1. \A y \in T : f[y] \in Nat /\ g[y] = c * f[y]
      BY <1>2 DEF Amounts
    <2>2. \A y \in T : g[y] \in Nat
      BY <2>1
    <2> QED BY <1>2, <2>1, <2>2, FS_Subset DEF Amounts
  <1>7. /\ SumOver(g, T) = g[x] + SumOver(g, T \ {x})
        /\ SumOver(f, T) = f[x] + SumOver(f, T \ {x})
    BY <1>6, SumSplits
  <1>8. PICK n \in Nat : n = SumOver(f, T \ {x})
    <2>1. Amounts(f, T \ {x})
      BY <1>6, FS_Subset DEF Amounts
    <2> QED BY <2>1, SumIsAmount
  <1>9. PICK a \in Nat : a = f[x]
    BY <1>6 DEF Amounts
  <1>10. SumOver(g, T) = c * a + c * n /\ SumOver(f, T) = a + n
    BY <1>2, <1>5, <1>7, <1>8, <1>9
  <1>11. c * (a + n) = c * a + c * n
    OBVIOUS
  <1> QED BY <1>2, <1>10, <1>11

(* Negative amounts count nothing.                                         *)
LEMMA SumOfPositive ==
  ASSUME NEW f, NEW g, NEW S, \A x \in S : f[x] \in Int,
         \A x \in S : g[x] = IF f[x] > 0 THEN f[x] ELSE 0
  PROVE  SumOver(f, S) = SumOver(g, S)
  <1>1. ASSUME NEW x \in S PROVE 1..f[x] = 1..g[x]
    OBVIOUS
  <1>2. Units(f, S) = Units(g, S)
    BY <1>1 DEF Units
  <1> QED BY <1>2 DEF SumOver

(* If c times each amount is at most k times another, so are the totals.   *)
LEMMA SumOfShares ==
  ASSUME NEW f, NEW g, NEW S, NEW c \in Nat, NEW k \in Nat, Amounts(f, S),
         Amounts(g, S), \A x \in S : c * f[x] <= k * g[x]
  PROVE  c * SumOver(f, S) <= k * SumOver(g, S)
  <1> DEFINE cf == [x \in S |-> c * f[x]]
             kg == [x \in S |-> k * g[x]]
  <1>1. \A x \in S : f[x] \in Nat /\ g[x] \in Nat
    BY DEF Amounts
  <1>2. \A x \in S : cf[x] \in Nat /\ kg[x] \in Nat /\ cf[x] <= kg[x]
    BY <1>1
  <1>3. Amounts(cf, S) /\ Amounts(kg, S)
    BY <1>2 DEF Amounts
  <1>4. SumOver(cf, S) = c * SumOver(f, S) /\ SumOver(kg, S) = k * SumOver(g, S)
    <2>1. (\A x \in S : cf[x] = c * f[x]) /\ (\A x \in S : kg[x] = k * g[x])
      OBVIOUS
    <2> HIDE DEF cf, kg
    <2> QED BY <2>1, SumScales
  <1>5. SumOver(cf, S) <= SumOver(kg, S)
    <2> HIDE DEF cf, kg
    <2> QED BY <1>2, <1>3, SumGrows
  <1> QED BY <1>4, <1>5


(* Ones are as many as there are.                                          *)
LEMMA SumOfOnes ==
  ASSUME NEW S, IsFiniteSet(S)
  PROVE  SumOver([x \in S |-> 1], S) = Cardinality(S)
  <1> DEFINE f == [x \in S |-> 1]
             g == [x \in S |-> <<x, 1>>]
  <1>1. Units(f, S) = {<<x, 1>> : x \in S}
    BY DEF Units
  <1>2. g \in Bijection(S, {<<x, 1>> : x \in S})
    BY DEF Bijection, Injection, Surjection, IsInjective
  <1>3. Cardinality({<<x, 1>> : x \in S}) = Cardinality(S)
    <2> HIDE DEF g
    <2> QED BY <1>2, FS_Bijection DEF ExistsBijection
  <1> QED BY <1>1, <1>3 DEF SumOver

=============================================================================

----------------------------- MODULE SumProofs -----------------------------
(***************************************************************************)
(* Sums over finite sets: what SumFunctionOnSet returns, and what becomes  *)
(* of it when an element comes, goes or changes.  The modules that prove   *)
(* something of a sum of movements or quantities rest on these lemmas.     *)
(***************************************************************************)
EXTENDS Integers, Sequences, FiniteSets, Functions, FiniteSetTheorems,
        SequenceTheorems, WellFoundedInduction, TLAPS

(***************************************************************************)
(* A set of numbers that is not empty has a least element.                 *)
(***************************************************************************)
LEMMA LeastElement ==
  ASSUME NEW T, T \subseteq Nat, T # {}
  PROVE  \E n \in T : \A m \in T : n <= m
<1>1. \E x \in T : \A y \in T : ~(<<y, x>> \in OpToRel(<, Nat))
  BY NatLessThanWellFounded, WFMin
<1>2. PICK x \in T : \A y \in T : ~(<<y, x>> \in OpToRel(<, Nat))
  BY <1>1
<1>3. \A y \in T : ~(y < x)
  BY <1>2 DEF OpToRel
<1> QED
  BY <1>3

(***************************************************************************)
(* Of some subsets of a finite set, one has none of the others within it.  *)
(***************************************************************************)
LEMMA MinimalSet ==
  ASSUME NEW U, IsFiniteSet(U), NEW Sets, Sets \subseteq SUBSET U, Sets # {}
  PROVE  \E R \in Sets : \A T \in SUBSET R : T # R => T \notin Sets
<1> DEFINE sizes == {Cardinality(R) : R \in Sets}
<1>1. \A R \in Sets : IsFiniteSet(R) /\ Cardinality(R) \in Nat
  BY FS_Subset, FS_CardinalityType
<1>2. sizes \subseteq Nat /\ sizes # {}
  BY <1>1
<1>3. PICK n \in sizes : \A m \in sizes : n <= m
  BY <1>2, LeastElement
<1>4. PICK R \in Sets : Cardinality(R) = n
  OBVIOUS
<1>5. ASSUME NEW T \in SUBSET R, T # R, T \in Sets
      PROVE  FALSE
  <2>1. IsFiniteSet(R) /\ Cardinality(R) \in Nat /\ Cardinality(T) \in Nat
    BY <1>1, <1>5
  <2>2. Cardinality(T) <= Cardinality(R) /\ Cardinality(R) # Cardinality(T)
    BY <1>5, <2>1, FS_Subset
  <2>3. n <= Cardinality(T)
    BY <1>3, <1>5
  <2> QED
    BY <1>4, <2>1, <2>2, <2>3
<1> QED
  BY <1>5

-----------------------------------------------------------------------------
(* The recursive function behind a sum *)

AnyOf(S) == CHOOSE x \in S : TRUE

(***************************************************************************)
(* The function g has, for each of the sets, the sum of f: an element's    *)
(* value and the sum over the others.                                      *)
(***************************************************************************)
IsSumOver(g, f, Sets) ==
  g = [S \in Sets |-> IF S = {} THEN 0 ELSE f[AnyOf(S)] + g[S \ {AnyOf(S)}]]

SumsUp(g, f, U) == IsSumOver(g, f, SUBSET U)

LEMMA SumIsFolded ==
  ASSUME NEW f, NEW S
  PROVE  SumFunctionOnSet(f, S) = (CHOOSE g : SumsUp(g, f, S))[S]
  BY DEF SumFunctionOnSet, FoldFunctionOnSet, MapThenFoldSet, SumsUp, IsSumOver, AnyOf

LEMMA AnyElement ==
  ASSUME NEW S, S # {}
  PROVE  AnyOf(S) \in S
  BY DEF AnyOf

(***************************************************************************)
(* There is such a function for the subsets of a finite set: one for those *)
(* of at most n elements gives one for those of at most n + 1.             *)
(***************************************************************************)
UpTo(U, n) == {S \in SUBSET U : Cardinality(S) <= n}

LEMMA SumNextSize ==
  ASSUME NEW f, NEW U, IsFiniteSet(U), NEW n \in Nat,
         NEW g, IsSumOver(g, f, UpTo(U, n))
  PROVE  \E h : IsSumOver(h, f, UpTo(U, n + 1))
<1> DEFINE h == [S \in UpTo(U, n + 1) |->
                   IF S = {} THEN 0 ELSE f[AnyOf(S)] + g[S \ {AnyOf(S)}]]
<1>1. ASSUME NEW S \in UpTo(U, n + 1), S # {}
      PROVE  g[S \ {AnyOf(S)}] = h[S \ {AnyOf(S)}]
  <2> DEFINE R == S \ {AnyOf(S)}
  <2>1. IsFiniteSet(S) /\ Cardinality(S) \in Nat /\ AnyOf(S) \in S
    BY <1>1, FS_Subset, FS_CardinalityType, AnyElement DEF UpTo
  <2>2. Cardinality(R) = Cardinality(S) - 1 /\ R \subseteq U
    BY <2>1, FS_RemoveElement DEF UpTo
  <2>3. R \in UpTo(U, n) /\ R \in UpTo(U, n + 1)
    BY <2>1, <2>2 DEF UpTo
  <2> HIDE DEF R
  <2>4. g[R] = IF R = {} THEN 0 ELSE f[AnyOf(R)] + g[R \ {AnyOf(R)}]
    BY <2>3 DEF IsSumOver
  <2>5. h[R] = IF R = {} THEN 0 ELSE f[AnyOf(R)] + g[R \ {AnyOf(R)}]
    BY <2>3
  <2>6. g[R] = h[R]
    BY <2>4, <2>5
  <2> QED
    BY <2>6 DEF R
<1>2. h = [S \in UpTo(U, n + 1) |->
             IF S = {} THEN 0 ELSE f[AnyOf(S)] + h[S \ {AnyOf(S)}]]
  BY <1>1
<1> HIDE DEF h
<1> QED
  BY <1>2 DEF IsSumOver

LEMMA SumExists ==
  ASSUME NEW f, NEW U, IsFiniteSet(U)
  PROVE  \E g : SumsUp(g, f, U)
<1> DEFINE bad == {n \in Nat : ~\E g : IsSumOver(g, f, UpTo(U, n))}
<1>1. bad = {}
  <2> SUFFICES ASSUME bad # {} PROVE FALSE
    OBVIOUS
  <2>1. PICK n \in bad : \A m \in bad : n <= m
    <3>1. bad \subseteq Nat
      OBVIOUS
    <3> QED
      BY <3>1, LeastElement
  <2>2. CASE n = 0
    <3> DEFINE g == [S \in UpTo(U, 0) |-> 0]
    <3>1. \A S \in UpTo(U, 0) : S = {}
      <4> TAKE S \in UpTo(U, 0)
      <4>1. IsFiniteSet(S) /\ Cardinality(S) \in Nat /\ Cardinality(S) <= 0
        BY FS_Subset, FS_CardinalityType DEF UpTo
      <4> QED
        BY <4>1, FS_EmptySet
    <3>2. IsSumOver(g, f, UpTo(U, 0))
      BY <3>1 DEF SumsUp, IsSumOver
    <3> HIDE DEF g
    <3> QED
      BY <2>1, <2>2, <3>2
  <2>3. CASE n # 0
    <3>1. n \in Nat /\ n - 1 \in Nat /\ n - 1 \notin bad
      BY <2>1, <2>3
    <3>2. PICK g : IsSumOver(g, f, UpTo(U, n - 1))
      BY <3>1
    <3>3. \E h : IsSumOver(h, f, UpTo(U, (n - 1) + 1))
      BY <3>1, <3>2, SumNextSize
    <3>4. (n - 1) + 1 = n
      BY <3>1
    <3> QED
      BY <2>1, <3>3, <3>4
  <2> QED
    BY <2>2, <2>3
<1>2. Cardinality(U) \in Nat
  BY FS_CardinalityType
<1>3. UpTo(U, Cardinality(U)) = SUBSET U
  BY FS_Subset DEF UpTo
<1> QED
  BY <1>1, <1>2, <1>3 DEF SumsUp

(***************************************************************************)
(* It depends on nothing but the values of f on the set.                   *)
(***************************************************************************)
LEMMA SumUnique ==
  ASSUME NEW f, NEW U, NEW g, SumsUp(g, f, U),
         NEW e, NEW V, NEW h, SumsUp(h, e, V),
         NEW S, IsFiniteSet(S), S \subseteq U, S \subseteq V,
         \A x \in S : f[x] = e[x]
  PROVE  g[S] = h[S]
<1> DEFINE bad == {T \in SUBSET S : g[T] # h[T]}
<1>1. bad = {}
  <2> SUFFICES ASSUME bad # {} PROVE FALSE
    OBVIOUS
  <2>1. PICK R \in bad : \A T \in SUBSET R : T # R => T \notin bad
    <3>1. bad \subseteq SUBSET S
      OBVIOUS
    <3> HIDE DEF bad
    <3> QED
      BY <3>1, MinimalSet
  <2>2. /\ g[R] = IF R = {} THEN 0 ELSE f[AnyOf(R)] + g[R \ {AnyOf(R)}]
        /\ h[R] = IF R = {} THEN 0 ELSE e[AnyOf(R)] + h[R \ {AnyOf(R)}]
    BY <2>1 DEF SumsUp, IsSumOver
  <2>3. R # {}
    BY <2>1, <2>2
  <2>4. AnyOf(R) \in R
    BY <2>3, AnyElement
  <2>5. g[R \ {AnyOf(R)}] = h[R \ {AnyOf(R)}]
    BY <2>1, <2>4
  <2> QED
    BY <2>1, <2>2, <2>3, <2>4, <2>5
<1> QED
  BY <1>1

(***************************************************************************)
(* Whichever element is taken out first, the sum is the same.              *)
(***************************************************************************)
LEMMA SumTakenApart ==
  ASSUME NEW f, NEW U, NEW g, SumsUp(g, f, U), IsFiniteSet(U),
         \A x \in U : f[x] \in Int
  PROVE  /\ g[U] \in Int
         /\ \A x \in U : g[U] = f[x] + g[U \ {x}]
<1> DEFINE Good(S) == g[S] \in Int /\ \A x \in S : g[S] = f[x] + g[S \ {x}]
           bad == {S \in SUBSET U : ~Good(S)}
<1>1. bad = {}
  <2> SUFFICES ASSUME bad # {} PROVE FALSE
    OBVIOUS
  <2>1. PICK R \in bad : \A T \in SUBSET R : T # R => T \notin bad
    <3>1. bad \subseteq SUBSET U
      OBVIOUS
    <3> HIDE DEF bad
    <3> QED
      BY <3>1, MinimalSet
  <2>2. R \subseteq U /\ \A x \in R : f[x] \in Int /\ Good(R \ {x})
    <3>1. \A x \in R : R \ {x} \in SUBSET R /\ R \ {x} # R /\ R \ {x} \in SUBSET U
      BY <2>1
    <3> QED
      BY <2>1, <3>1
  <2>3. g[R] = IF R = {} THEN 0 ELSE f[AnyOf(R)] + g[R \ {AnyOf(R)}]
    BY <2>2 DEF SumsUp, IsSumOver
  <2>4. R # {}
    BY <2>1, <2>3
  <2> DEFINE a == AnyOf(R)
  <2>5. a \in R /\ g[R] = f[a] + g[R \ {a}]
    BY <2>3, <2>4, AnyElement
  <2> HIDE DEF a
  <2>6. g[R] \in Int
    <3>1. f[a] \in Int /\ g[R \ {a}] \in Int
      BY <2>2, <2>5
    <3> QED
      BY <2>5, <3>1
  <2>7. ASSUME NEW x \in R, x # a
        PROVE  g[R] = f[x] + g[R \ {x}]
    <3> DEFINE rest == (R \ {a}) \ {x}
    <3>1. rest = (R \ {x}) \ {a}
      OBVIOUS
    <3>2. g[R \ {a}] = f[x] + g[rest] /\ g[R \ {a}] \in Int
      BY <2>2, <2>5, <2>7
    <3>3. g[R \ {x}] = f[a] + g[rest] /\ g[R \ {x}] \in Int
      <4>1. Good(R \ {x}) /\ a \in R \ {x}
        BY <2>2, <2>5, <2>7
      <4>2. g[R \ {x}] = f[a] + g[(R \ {x}) \ {a}] /\ g[R \ {x}] \in Int
        BY <4>1
      <4> HIDE DEF rest
      <4> QED
        BY <4>2, <3>1
    <3>4. g[rest] \in Int
      <4>1. rest \in SUBSET R /\ rest # R /\ rest \in SUBSET U
        BY <2>2, <2>7
      <4> HIDE DEF rest
      <4> QED
        BY <2>1, <4>1
    <3> HIDE DEF rest
    <3> QED
      BY <2>2, <2>5, <2>7, <3>2, <3>3, <3>4
  <2> QED
    BY <2>1, <2>2, <2>5, <2>6, <2>7
<1>2. U \notin bad
  BY <1>1
<1> QED
  BY <1>2

-----------------------------------------------------------------------------
(* Sums *)

(***************************************************************************)
(* What is summed up is what the recursive function has for the set.       *)
(***************************************************************************)
LEMMA SumIsSum ==
  ASSUME NEW f, NEW S, IsFiniteSet(S)
  PROVE  \E g : SumsUp(g, f, S) /\ SumFunctionOnSet(f, S) = g[S]
<1> DEFINE g == CHOOSE h : SumsUp(h, f, S)
<1>1. SumsUp(g, f, S)
  BY SumExists
<1>2. SumFunctionOnSet(f, S) = g[S]
  BY SumIsFolded
<1> HIDE DEF g
<1> QED
  BY <1>1, <1>2

LEMMA SumOfNone ==
  ASSUME NEW f
  PROVE  SumFunctionOnSet(f, {}) = 0
<1>1. IsFiniteSet({})
  BY FS_EmptySet
<1>2. PICK g : SumsUp(g, f, {}) /\ SumFunctionOnSet(f, {}) = g[{}]
  BY <1>1, SumIsSum
<1>3. {} \in SUBSET {}
  OBVIOUS
<1>4. g[{}] = 0
  BY <1>2, <1>3 DEF SumsUp, IsSumOver
<1> QED
  BY <1>2, <1>4

LEMMA SumType ==
  ASSUME NEW f, NEW S, IsFiniteSet(S), \A x \in S : f[x] \in Int
  PROVE  SumFunctionOnSet(f, S) \in Int
<1>1. PICK g : SumsUp(g, f, S) /\ SumFunctionOnSet(f, S) = g[S]
  BY SumIsSum
<1>2. SumsUp(g, f, S)
  BY <1>1
<1>3. g[S] \in Int
  BY <1>2, SumTakenApart
<1> QED
  BY <1>1, <1>3

LEMMA SumSame ==
  ASSUME NEW f, NEW e, NEW S, IsFiniteSet(S), \A x \in S : f[x] = e[x]
  PROVE  SumFunctionOnSet(f, S) = SumFunctionOnSet(e, S)
<1>1. PICK g : SumsUp(g, f, S) /\ SumFunctionOnSet(f, S) = g[S]
  BY SumIsSum
<1>2. PICK h : SumsUp(h, e, S) /\ SumFunctionOnSet(e, S) = h[S]
  BY SumIsSum
<1>3. SumsUp(g, f, S)
  BY <1>1
<1>4. SumsUp(h, e, S)
  BY <1>2
<1>5. g[S] = h[S]
  BY <1>3, <1>4, SumUnique
<1> QED
  BY <1>1, <1>2, <1>5

LEMMA SumWithout ==
  ASSUME NEW f, NEW S, IsFiniteSet(S), \A x \in S : f[x] \in Int,
         NEW a \in S
  PROVE  /\ SumFunctionOnSet(f, S) = f[a] + SumFunctionOnSet(f, S \ {a})
         /\ SumFunctionOnSet(f, S \ {a}) \in Int
<1> DEFINE R == S \ {a}
<1>1. PICK g : SumsUp(g, f, S) /\ SumFunctionOnSet(f, S) = g[S]
  BY SumIsSum
<1>2. IsFiniteSet(R) /\ R \subseteq S
  BY FS_RemoveElement
<1>3. PICK h : SumsUp(h, f, R) /\ SumFunctionOnSet(f, R) = h[R]
  BY <1>2, SumIsSum
<1>4. SumsUp(g, f, S)
  BY <1>1
<1>5. g[R] = h[R]
  <2>1. SumsUp(h, f, R)
    BY <1>3
  <2> HIDE DEF R
  <2> QED
    BY <1>2, <1>4, <2>1, SumUnique
<1>6. g[S] = f[a] + g[R]
  <2>1. \A x \in S : g[S] = f[x] + g[S \ {x}]
    BY <1>4, SumTakenApart
  <2> QED
    BY <2>1
<1>7. SumFunctionOnSet(f, R) \in Int
  BY <1>2, SumType
<1> QED
  BY <1>1, <1>3, <1>5, <1>6, <1>7

(***************************************************************************)
(* An element is added.                                                    *)
(***************************************************************************)
LEMMA SumWith ==
  ASSUME NEW f, NEW S, IsFiniteSet(S), \A x \in S : f[x] \in Int,
         NEW a, a \notin S, f[a] \in Int
  PROVE  SumFunctionOnSet(f, S \cup {a}) = f[a] + SumFunctionOnSet(f, S)
<1> DEFINE R == S \cup {a}
<1>1. IsFiniteSet(R) /\ a \in R /\ \A x \in R : f[x] \in Int
  BY FS_AddElement
<1>2. R \ {a} = S
  OBVIOUS
<1> HIDE DEF R
<1>3. SumFunctionOnSet(f, R) = f[a] + SumFunctionOnSet(f, R \ {a})
  BY <1>1, SumWithout
<1> QED
  BY <1>2, <1>3 DEF R

(***************************************************************************)
(* The sum over two sets that have nothing in common.                      *)
(***************************************************************************)
LEMMA SumOfBoth ==
  ASSUME NEW f, NEW S, NEW T, IsFiniteSet(S), IsFiniteSet(T), S \cap T = {},
         \A x \in S \cup T : f[x] \in Int
  PROVE  SumFunctionOnSet(f, S \cup T)
           = SumFunctionOnSet(f, S) + SumFunctionOnSet(f, T)
<1> DEFINE Total(R) == SumFunctionOnSet(f, R)
           bad == {R \in SUBSET T : Total(S \cup R) # Total(S) + Total(R)}
<1>1. bad = {}
  <2> SUFFICES ASSUME bad # {} PROVE FALSE
    OBVIOUS
  <2>1. PICK R \in bad : \A Q \in SUBSET R : Q # R => Q \notin bad
    <3>1. bad \subseteq SUBSET T
      OBVIOUS
    <3> HIDE DEF bad
    <3> QED
      BY <3>1, MinimalSet
  <2>2. R \subseteq T /\ IsFiniteSet(R) /\ S \cap R = {}
        /\ \A x \in S \cup R : f[x] \in Int
    <3>1. R \in SUBSET T
      BY <2>1
    <3> QED
      BY <3>1, FS_Subset
  <2>3. Total(S) \in Int
    BY SumType
  <2>4. R # {}
    <3> SUFFICES ASSUME R = {} PROVE FALSE
      OBVIOUS
    <3>1. Total(R) = 0 /\ S \cup R = S
      BY SumOfNone
    <3>2. Total(S \cup R) = Total(S)
      BY <3>1
    <3> HIDE DEF Total
    <3>3. Total(S) = Total(S) + Total(R)
      BY <2>3, <3>1
    <3> QED
      BY <2>1, <3>2, <3>3
  <2>5. PICK a \in R : TRUE
    BY <2>4
  <2> DEFINE Q == R \ {a}
  <2>6. Q \in SUBSET R /\ Q # R /\ Q \in SUBSET T /\ IsFiniteSet(Q)
    BY <2>2, <2>5, FS_RemoveElement
  <2>7. Total(S \cup Q) = Total(S) + Total(Q)
    <3> HIDE DEF Q, Total
    <3> QED
      BY <2>1, <2>6
  <2>8. Total(R) = f[a] + Total(Q) /\ Total(Q) \in Int
    BY <2>2, <2>5, SumWithout
  <2>9. Total(S \cup R) = f[a] + Total(S \cup Q)
    <3>1. IsFiniteSet(S \cup R) /\ a \in S \cup R
      BY <2>2, <2>5, FS_Union
    <3>2. (S \cup R) \ {a} = S \cup Q
      BY <2>2, <2>5
    <3> DEFINE SR == S \cup R
    <3> HIDE DEF Q
    <3>3. \A x \in SR : f[x] \in Int
      BY <2>2
    <3> HIDE DEF SR
    <3>4. IsFiniteSet(SR) /\ a \in SR
      BY <3>1 DEF SR
    <3>5. Total(SR) = f[a] + Total(SR \ {a})
      BY <3>3, <3>4, SumWithout
    <3> QED
      BY <3>2, <3>5 DEF SR
  <2>10. f[a] \in Int
    BY <2>2, <2>5
  <2> HIDE DEF Total, Q
  <2>11. Total(S \cup R) = Total(S) + Total(R)
    BY <2>3, <2>7, <2>8, <2>9, <2>10
  <2> QED
    BY <2>1, <2>11
<1>2. T \notin bad
  BY <1>1
<1> QED
  BY <1>2

(***************************************************************************)
(* What holds of the empty set, and of a set as soon as it holds of the    *)
(* set without one of its elements, holds of every finite set.             *)
(***************************************************************************)
LEMMA FromSmaller ==
  ASSUME NEW T, IsFiniteSet(T), NEW good, {} \in good,
         \A R \in SUBSET T : \A a \in R : R \ {a} \in good => R \in good
  PROVE  T \in good
<1> DEFINE bad == (SUBSET T) \ good
<1>1. bad = {}
  <2> SUFFICES ASSUME bad # {} PROVE FALSE
    OBVIOUS
  <2>1. PICK R \in bad : \A Q \in SUBSET R : Q # R => Q \notin bad
    <3>1. bad \subseteq SUBSET T
      OBVIOUS
    <3> HIDE DEF bad
    <3> QED
      BY <3>1, MinimalSet
  <2>2. PICK a \in R : TRUE
    BY <2>1
  <2> DEFINE Q == R \ {a}
  <2>3. Q \in SUBSET R /\ Q # R /\ Q \in SUBSET T
    BY <2>1, <2>2
  <2>4. Q \in good
    BY <2>1, <2>3
  <2>5. R \in good
    BY <2>1, <2>2, <2>4
  <2> QED
    BY <2>1, <2>5
<1> QED
  BY <1>1

(***************************************************************************)
(* A sum over the positions at which the elements of a set are listed.     *)
(***************************************************************************)
LEMMA SumListed ==
  ASSUME NEW f, NEW T, IsFiniteSet(T), NEW S, IsFiniteSet(S), NEW at,
         \A x \in T : at[x] \in S, \A y \in S : \E x \in T : at[x] = y,
         \A x, y \in T : at[x] = at[y] => x = y,
         \A y \in S : f[y] \in Int,
         NEW g, \A x \in T : g[x] = f[at[x]]
  PROVE  SumFunctionOnSet(g, T) = SumFunctionOnSet(f, S)
<1> DEFINE Of(R) == {at[x] : x \in R}
           good == {R \in SUBSET T : SumFunctionOnSet(g, R) = SumFunctionOnSet(f, Of(R))}
<1>1. {} \in good
  <2>1. Of({}) = {}
    OBVIOUS
  <2>2. SumFunctionOnSet(g, {}) = SumFunctionOnSet(f, Of({}))
    BY <2>1, SumOfNone
  <2> QED
    BY <2>2
<1>2. ASSUME NEW R \in SUBSET T, NEW a \in R, R \ {a} \in good
      PROVE  R \in good
  <2> DEFINE Q == R \ {a}
             image == Of(R)
  <2>1. IsFiniteSet(R) /\ \A x \in R : g[x] \in Int
    BY FS_Subset
  <2>2. SumFunctionOnSet(g, R) = g[a] + SumFunctionOnSet(g, Q)
    BY <2>1, SumWithout
  <2>3. IsFiniteSet(image) /\ at[a] \in image /\ \A y \in image : f[y] \in Int
    <3>1. image \subseteq S
      OBVIOUS
    <3> QED
      BY <3>1, FS_Subset
  <2>4. Of(Q) = image \ {at[a]}
    BY <1>2
  <2>5. SumFunctionOnSet(f, image) = f[at[a]] + SumFunctionOnSet(f, image \ {at[a]})
    <3> HIDE DEF image
    <3> QED
      BY <2>3, SumWithout
  <2>6. SumFunctionOnSet(g, Q) = SumFunctionOnSet(f, Of(Q))
    BY <1>2
  <2>7. g[a] = f[at[a]]
    BY <1>2
  <2>8. SumFunctionOnSet(g, R) = SumFunctionOnSet(f, Of(R))
    BY <2>2, <2>4, <2>5, <2>6, <2>7
  <2> QED
    BY <2>8
<1>3. T \in good
  <2> HIDE DEF good
  <2> QED
    BY <1>1, <1>2, FromSmaller
<1>4. Of(T) = S
  OBVIOUS
<1> QED
  BY <1>3, <1>4

LEMMA SumOfSums ==
  ASSUME NEW f, NEW g, NEW e, NEW S, IsFiniteSet(S),
         \A x \in S : f[x] \in Int /\ g[x] \in Int /\ e[x] = f[x] + g[x]
  PROVE  SumFunctionOnSet(e, S) = SumFunctionOnSet(f, S) + SumFunctionOnSet(g, S)
<1> DEFINE Total(h, R) == SumFunctionOnSet(h, R)
           good == {R \in SUBSET S : Total(e, R) = Total(f, R) + Total(g, R)}
<1>1. {} \in good
  BY SumOfNone
<1>2. ASSUME NEW R \in SUBSET S, NEW a \in R, R \ {a} \in good
      PROVE  R \in good
  <2> DEFINE Q == R \ {a}
  <2>1. IsFiniteSet(R) /\ \A x \in R : f[x] \in Int /\ g[x] \in Int /\ e[x] \in Int
    BY FS_Subset
  <2>2. Total(e, R) = e[a] + Total(e, Q) /\ Total(e, Q) \in Int
    BY <2>1, SumWithout
  <2>3. Total(f, R) = f[a] + Total(f, Q) /\ Total(f, Q) \in Int
    BY <2>1, SumWithout
  <2>4. Total(g, R) = g[a] + Total(g, Q) /\ Total(g, Q) \in Int
    BY <2>1, SumWithout
  <2>5. Total(e, Q) = Total(f, Q) + Total(g, Q)
    BY <1>2
  <2>6. e[a] = f[a] + g[a] /\ f[a] \in Int /\ g[a] \in Int
    BY <1>2
  <2> HIDE DEF Total, Q
  <2>7. Total(e, R) = Total(f, R) + Total(g, R)
    BY <2>2, <2>3, <2>4, <2>5, <2>6
  <2> QED
    BY <2>7
<1>3. S \in good
  <2> HIDE DEF good
  <2> QED
    BY <1>1, <1>2, FromSmaller
<1> QED
  BY <1>3

(***************************************************************************)
(* A sum of greater values is at least as great, and equal only if all the *)
(* values are.                                                             *)
(***************************************************************************)
LEMMA SumAtMost ==
  ASSUME NEW f, NEW g, NEW S, IsFiniteSet(S),
         \A x \in S : f[x] \in Int /\ g[x] \in Int /\ f[x] <= g[x]
  PROVE  /\ SumFunctionOnSet(f, S) <= SumFunctionOnSet(g, S)
         /\ SumFunctionOnSet(g, S) <= SumFunctionOnSet(f, S) => \A x \in S : f[x] = g[x]
<1> DEFINE Total(h, R) == SumFunctionOnSet(h, R)
           good == {R \in SUBSET S : /\ Total(f, R) <= Total(g, R)
                                     /\ Total(g, R) <= Total(f, R) => \A x \in R : f[x] = g[x]}
<1>1. {} \in good
  BY SumOfNone
<1>2. ASSUME NEW R \in SUBSET S, NEW a \in R, R \ {a} \in good
      PROVE  R \in good
  <2> DEFINE Q == R \ {a}
  <2>1. IsFiniteSet(R) /\ \A x \in R : f[x] \in Int /\ g[x] \in Int
    BY FS_Subset
  <2>2. Total(f, R) = f[a] + Total(f, Q) /\ Total(f, Q) \in Int
    BY <2>1, SumWithout
  <2>3. Total(g, R) = g[a] + Total(g, Q) /\ Total(g, Q) \in Int
    BY <2>1, SumWithout
  <2>4. Total(f, Q) <= Total(g, Q)
        /\ (Total(g, Q) <= Total(f, Q) => \A x \in Q : f[x] = g[x])
    BY <1>2
  <2>5. f[a] <= g[a] /\ f[a] \in Int /\ g[a] \in Int
    BY <1>2
  <2>6. \A x \in R : x = a \/ x \in Q
    OBVIOUS
  <2> HIDE DEF Total, Q
  <2>7. Total(f, R) <= Total(g, R)
    BY <2>2, <2>3, <2>4, <2>5
  <2>8. ASSUME Total(g, R) <= Total(f, R)
        PROVE  f[a] = g[a] /\ Total(g, Q) <= Total(f, Q)
    BY <2>2, <2>3, <2>4, <2>5, <2>8
  <2>9. Total(g, R) <= Total(f, R) => \A x \in R : f[x] = g[x]
    BY <2>4, <2>6, <2>8
  <2> QED
    BY <2>7, <2>9
<1>3. S \in good
  <2> HIDE DEF good
  <2> QED
    BY <1>1, <1>2, FromSmaller
<1> QED
  BY <1>3

LEMMA SumOfZeros ==
  ASSUME NEW f, NEW S, IsFiniteSet(S), \A x \in S : f[x] = 0
  PROVE  SumFunctionOnSet(f, S) = 0
<1> DEFINE good == {R \in SUBSET S : SumFunctionOnSet(f, R) = 0}
<1>1. {} \in good
  BY SumOfNone
<1>2. ASSUME NEW R \in SUBSET S, NEW a \in R, R \ {a} \in good
      PROVE  R \in good
  <2>1. IsFiniteSet(R) /\ \A x \in R : f[x] \in Int
    BY FS_Subset
  <2>2. SumFunctionOnSet(f, R) = f[a] + SumFunctionOnSet(f, R \ {a})
    BY <2>1, SumWithout
  <2>3. f[a] = 0 /\ SumFunctionOnSet(f, R \ {a}) = 0
    BY <1>2
  <2> QED
    BY <2>2, <2>3
<1>3. S \in good
  <2> HIDE DEF good
  <2> QED
    BY <1>1, <1>2, FromSmaller
<1> QED
  BY <1>3

(***************************************************************************)
(* A sum of which only some of the terms are not zero.                     *)
(***************************************************************************)
LEMMA SumOfPart ==
  ASSUME NEW f, NEW S, IsFiniteSet(S), \A x \in S : f[x] \in Int,
         NEW T, T \subseteq S, \A x \in S \ T : f[x] = 0
  PROVE  SumFunctionOnSet(f, S) = SumFunctionOnSet(f, T)
<1> DEFINE rest == S \ T
<1>1. IsFiniteSet(T) /\ IsFiniteSet(rest) /\ T \cap rest = {} /\ T \cup rest = S
  BY FS_Subset
<1>2. \A x \in T \cup rest : f[x] \in Int
  BY <1>1
<1>3. \A x \in rest : f[x] = 0
  OBVIOUS
<1> HIDE DEF rest
<1>4. SumFunctionOnSet(f, T \cup rest) = SumFunctionOnSet(f, T) + SumFunctionOnSet(f, rest)
  BY <1>1, <1>2, SumOfBoth
<1>5. SumFunctionOnSet(f, rest) = 0
  BY <1>1, <1>3, SumOfZeros
<1>6. SumFunctionOnSet(f, T) \in Int
  BY <1>1, SumType
<1>7. SumFunctionOnSet(f, T \cup rest) = SumFunctionOnSet(f, T)
  BY <1>4, <1>5, <1>6
<1> QED
  BY <1>1, <1>7

(***************************************************************************)
(* A value that changes changes the sum by as much.                        *)
(***************************************************************************)
LEMMA SumChangesBy ==
  ASSUME NEW f, NEW g, NEW S, IsFiniteSet(S), \A x \in S : f[x] \in Int /\ g[x] \in Int,
         NEW a \in S, \A x \in S \ {a} : g[x] = f[x]
  PROVE  SumFunctionOnSet(g, S) = SumFunctionOnSet(f, S) + (g[a] - f[a])
<1> DEFINE R == S \ {a}
<1>1. /\ SumFunctionOnSet(f, S) = f[a] + SumFunctionOnSet(f, R)
      /\ SumFunctionOnSet(f, R) \in Int
  BY SumWithout
<1>2. SumFunctionOnSet(g, S) = g[a] + SumFunctionOnSet(g, R)
  BY SumWithout
<1>3. IsFiniteSet(R) /\ \A x \in R : g[x] = f[x]
  BY FS_RemoveElement
<1> HIDE DEF R
<1>4. SumFunctionOnSet(g, R) = SumFunctionOnSet(f, R)
  BY <1>3, SumSame
<1> QED
  BY <1>1, <1>2, <1>4

-----------------------------------------------------------------------------
(* Movements *)

(***************************************************************************)
(* The net quantity of those rows of a sequence that are in a set.         *)
(***************************************************************************)
NetAmong(rows, counted) ==
  SumFunctionOnSet([i \in DOMAIN rows |-> rows[i].delta],
                   {i \in DOMAIN rows : rows[i] \in counted})

LEMMA NetType ==
  ASSUME NEW T, \A r \in T : r.delta \in Int, NEW s \in Seq(T), NEW counted
  PROVE  NetAmong(s, counted) \in Int
<1> DEFINE f == [i \in DOMAIN s |-> s[i].delta]
           S == {i \in DOMAIN s : s[i] \in counted}
<1>1. Len(s) \in Nat /\ DOMAIN s = 1 .. Len(s) /\ \A i \in 1 .. Len(s) : s[i] \in T
  BY LenProperties, ElementOfSeq
<1>2. IsFiniteSet(1 .. Len(s))
  BY <1>1, FS_Interval
<1>3. IsFiniteSet(S) /\ \A i \in S : f[i] \in Int
  BY <1>1, <1>2, FS_Subset
<1> HIDE DEF f, S
<1>4. SumFunctionOnSet(f, S) \in Int
  BY <1>3, SumType
<1> QED
  BY <1>4 DEF NetAmong, f, S

LEMMA NetOfBoth ==
  ASSUME NEW T, \A r \in T : r.delta \in Int, NEW s \in Seq(T), NEW t \in Seq(T),
         NEW counted
  PROVE  NetAmong(s \o t, counted) = NetAmong(s, counted) + NetAmong(t, counted)
<1> DEFINE u == s \o t
           f == [i \in DOMAIN s |-> s[i].delta]
           g == [i \in DOMAIN t |-> t[i].delta]
           e == [i \in DOMAIN u |-> u[i].delta]
           S == {i \in DOMAIN s : s[i] \in counted}
           R == {i \in DOMAIN t : t[i] \in counted}
           U == {i \in DOMAIN u : u[i] \in counted}
           W == {i \in U : i > Len(s)}
           at == [i \in W |-> i - Len(s)]
<1>1. /\ u \in Seq(T) /\ Len(u) = Len(s) + Len(t) /\ Len(s) \in Nat /\ Len(t) \in Nat
      /\ \A i \in 1 .. Len(s) : u[i] = s[i]
      /\ \A i \in 1 .. Len(t) : u[Len(s) + i] = t[i]
  BY ConcatProperties, LenProperties
<1> HIDE DEF u
<1>2. /\ DOMAIN s = 1 .. Len(s) /\ DOMAIN t = 1 .. Len(t) /\ DOMAIN u = 1 .. Len(s) + Len(t)
      /\ \A i \in DOMAIN s : s[i] \in T
      /\ \A i \in DOMAIN t : t[i] \in T
      /\ \A i \in DOMAIN u : u[i] \in T
  BY <1>1, LenProperties, ElementOfSeq
<1>3. \A i \in DOMAIN u : \/ i \in DOMAIN s /\ u[i] = s[i]
                          \/ i - Len(s) \in DOMAIN t /\ u[i] = t[i - Len(s)] /\ i > Len(s)
  <2> SUFFICES ASSUME NEW i \in DOMAIN u, i \notin DOMAIN s
               PROVE  i - Len(s) \in DOMAIN t /\ u[i] = t[i - Len(s)] /\ i > Len(s)
    BY <1>1, <1>2
  <2>1. i \in Nat /\ i > Len(s) /\ i - Len(s) \in 1 .. Len(t)
    BY <1>1, <1>2
  <2>2. u[Len(s) + (i - Len(s))] = t[i - Len(s)]
    BY <1>1, <2>1
  <2>3. Len(s) + (i - Len(s)) = i
    BY <1>1, <2>1
  <2> QED
    BY <1>2, <2>1, <2>2, <2>3
<1>4. IsFiniteSet(S) /\ IsFiniteSet(R) /\ IsFiniteSet(W)
  <2>1. IsFiniteSet(1 .. Len(s)) /\ IsFiniteSet(1 .. Len(t)) /\ IsFiniteSet(1 .. Len(s) + Len(t))
    BY <1>1, FS_Interval
  <2>2. S \subseteq 1 .. Len(s) /\ R \subseteq 1 .. Len(t) /\ W \subseteq 1 .. Len(s) + Len(t)
    BY <1>2
  <2> HIDE DEF S, R, W
  <2> QED
    BY <2>1, <2>2, FS_Subset
<1>5. U = S \cup W /\ S \cap W = {}
  <2>1. \A i \in DOMAIN s : i \in DOMAIN u /\ u[i] = s[i] /\ ~(i > Len(s))
    BY <1>1, <1>2
  <2> QED
    BY <1>2, <1>3, <2>1
<1>6. \A i \in S : e[i] = f[i]
  BY <1>1, <1>2
<1>7. \A i \in U : e[i] \in Int
  BY <1>2
<1>8. SumFunctionOnSet(e, U) = SumFunctionOnSet(e, S) + SumFunctionOnSet(e, W)
  <2> HIDE DEF U, S, W, e
  <2> QED
    BY <1>4, <1>5, <1>7, SumOfBoth
<1>9. SumFunctionOnSet(e, S) = SumFunctionOnSet(f, S)
  <2> HIDE DEF S, e, f
  <2> QED
    BY <1>4, <1>6, SumSame
<1>10. /\ \A i \in W : at[i] \in R /\ e[i] = g[at[i]]
       /\ \A j \in R : \E i \in W : at[i] = j
       /\ \A i, j \in W : at[i] = at[j] => i = j
       /\ \A j \in R : g[j] \in Int
  <2>1. \A i \in W : at[i] \in R /\ e[i] = g[at[i]]
    <3> SUFFICES ASSUME NEW i \in W PROVE at[i] \in R /\ e[i] = g[at[i]]
      OBVIOUS
    <3>1. i \in DOMAIN u /\ i > Len(s) /\ u[i] \in counted
      OBVIOUS
    <3>2. i \notin DOMAIN s
      BY <1>1, <1>2, <3>1
    <3>3. i - Len(s) \in DOMAIN t /\ u[i] = t[i - Len(s)]
      BY <1>3, <3>1, <3>2
    <3> QED
      BY <3>1, <3>3
  <2>2. ASSUME NEW j \in R PROVE \E i \in W : at[i] = j
    <3> DEFINE i == Len(s) + j
    <3>1. j \in DOMAIN t /\ t[j] \in counted
      OBVIOUS
    <3>2. i \in DOMAIN u /\ i > Len(s) /\ u[i] = t[j] /\ i - Len(s) = j
      BY <1>1, <1>2, <3>1
    <3> HIDE DEF i
    <3>3. i \in W
      BY <3>1, <3>2
    <3> QED
      BY <3>2, <3>3
  <2>3. \A i, j \in W : at[i] = at[j] => i = j
    BY <1>1, <1>2
  <2>4. \A j \in R : g[j] \in Int
    BY <1>2
  <2> QED
    BY <2>1, <2>2, <2>3, <2>4
<1>11. SumFunctionOnSet(e, W) = SumFunctionOnSet(g, R)
  <2> HIDE DEF W, R, S, U, e, f, g, at
  <2>1. \A i \in W : at[i] \in R
    BY <1>10
  <2>2. \A i \in W : e[i] = g[at[i]]
    BY <1>10
  <2>3. \A j \in R : \E i \in W : at[i] = j
    BY <1>10
  <2>4. \A i, j \in W : at[i] = at[j] => i = j
    BY <1>10
  <2>5. \A j \in R : g[j] \in Int
    BY <1>10
  <2>6. IsFiniteSet(R)
    BY <1>4
  <2>7. IsFiniteSet(W)
    BY <1>4
  <2> QED
    BY ONLY <2>1, <2>2, <2>3, <2>4, <2>5, <2>6, <2>7, SumListed
<1>12. SumFunctionOnSet(e, U) = SumFunctionOnSet(f, S) + SumFunctionOnSet(g, R)
  <2> HIDE DEF W, R, e, g, f, S, U
  <2> QED
    BY <1>8, <1>9, <1>11
<1> QED
  BY <1>12 DEF NetAmong, u

LEMMA NetOfNone ==
  ASSUME NEW counted PROVE NetAmong(<< >>, counted) = 0
<1> DEFINE f == [i \in DOMAIN << >> |-> << >>[i].delta]
           S == {i \in DOMAIN << >> : << >>[i] \in counted}
<1>1. S = {}
  OBVIOUS
<1> HIDE DEF f, S
<1>2. SumFunctionOnSet(f, S) = 0
  BY <1>1, SumOfNone
<1> QED
  BY <1>2 DEF NetAmong, f, S

(***************************************************************************)
(* The rows that list a set's elements, each at one position, have the net *)
(* quantity of the elements.                                               *)
(***************************************************************************)
ListsOnce(at, N, S) ==
  /\ N \in Nat /\ IsFiniteSet(S)
  /\ \A n \in 1 .. N : at[n] \in S
  /\ \A y \in S : \E n \in 1 .. N : at[n] = y
  /\ \A m, n \in 1 .. N : at[m] = at[n] => m = n

RowsListed(rows, row, at, N) ==
  DOMAIN rows = 1 .. N /\ \A n \in 1 .. N : rows[n] = row[at[n]]

CountedOf(e, D, row, S, counted) ==
  /\ D \subseteq S
  /\ \A y \in S : y \in D <=> row[y] \in counted
  /\ \A y \in D : e[y] = row[y].delta /\ e[y] \in Int

LEMMA NetOfListed ==
  ASSUME NEW at, NEW N, NEW S, ListsOnce(at, N, S),
         NEW row, NEW rows, RowsListed(rows, row, at, N),
         NEW counted, NEW D, NEW e, CountedOf(e, D, row, S, counted)
  PROVE  NetAmong(rows, counted) = SumFunctionOnSet(e, D)
<1> DEFINE g == [n \in DOMAIN rows |-> rows[n].delta]
           C == {n \in DOMAIN rows : rows[n] \in counted}
<1>1. IsFiniteSet(C) /\ IsFiniteSet(D)
  <2>1. /\ C \subseteq 1 .. N /\ IsFiniteSet(1 .. N)
        /\ D \subseteq S /\ IsFiniteSet(S)
    BY FS_Interval DEF ListsOnce, RowsListed, CountedOf
  <2> HIDE DEF C
  <2> QED
    BY <2>1, FS_Subset
<1>2. \A n \in C : at[n] \in D
  BY DEF ListsOnce, RowsListed, CountedOf
<1>3. \A n \in C : g[n] = e[at[n]]
  BY <1>2 DEF RowsListed, CountedOf
<1>4. \A y \in D : e[y] \in Int
  BY DEF CountedOf
<1>5. \A y \in D : \E n \in C : at[n] = y
  BY DEF ListsOnce, RowsListed, CountedOf
<1>6. \A m, n \in C : at[m] = at[n] => m = n
  BY DEF ListsOnce, RowsListed
<1>7. SumFunctionOnSet(g, C) = SumFunctionOnSet(e, D)
  <2> HIDE DEF C, g
  <2>1. IsFiniteSet(C)
    BY <1>1
  <2>2. IsFiniteSet(D)
    BY <1>1
  <2> QED
    BY ONLY <2>1, <2>2, <1>2, <1>3, <1>4, <1>5, <1>6, SumListed
<1> QED
  BY <1>7 DEF NetAmong

LEMMA NetOfOthers ==
  ASSUME NEW T, NEW s \in Seq(T), NEW counted, \A r \in T : r \notin counted
  PROVE  NetAmong(s, counted) = 0
<1> DEFINE f == [i \in DOMAIN s |-> s[i].delta]
           S == {i \in DOMAIN s : s[i] \in counted}
<1>1. \A i \in DOMAIN s : s[i] \in T
  BY LenProperties, ElementOfSeq
<1>2. S = {}
  BY <1>1
<1> HIDE DEF f, S
<1>3. SumFunctionOnSet(f, S) = 0
  BY <1>2, SumOfNone
<1> QED
  BY <1>3 DEF NetAmong, f, S

(***************************************************************************)
(* Without some terms that are not negative, a sum is not greater.         *)
(***************************************************************************)
LEMMA SumOfFewer ==
  ASSUME NEW f, NEW S, IsFiniteSet(S), \A x \in S : f[x] \in Int,
         NEW T, T \subseteq S, \A x \in S \ T : 0 <= f[x]
  PROVE  SumFunctionOnSet(f, T) <= SumFunctionOnSet(f, S)
<1> DEFINE rest == S \ T
           zero == [x \in rest |-> 0]
<1>1. IsFiniteSet(T) /\ IsFiniteSet(rest) /\ T \cap rest = {} /\ T \cup rest = S
  BY FS_Subset
<1>2. \A x \in rest : zero[x] = 0 /\ zero[x] \in Int /\ f[x] \in Int /\ zero[x] <= f[x]
  OBVIOUS
<1> HIDE DEF rest, zero
<1>3. SumFunctionOnSet(f, T \cup rest) = SumFunctionOnSet(f, T) + SumFunctionOnSet(f, rest)
  BY <1>1, SumOfBoth
<1>4. SumFunctionOnSet(zero, rest) <= SumFunctionOnSet(f, rest)
  BY <1>1, <1>2, SumAtMost
<1>5. SumFunctionOnSet(zero, rest) = 0
  BY <1>1, <1>2, SumOfZeros
<1>6. SumFunctionOnSet(f, T) \in Int
  BY <1>1, SumType
<1>7. SumFunctionOnSet(f, rest) \in Int /\ 0 <= SumFunctionOnSet(f, rest)
  <2>1. \A x \in rest : f[x] \in Int
    BY <1>2
  <2> QED
    BY <1>1, <1>4, <1>5, <2>1, SumType
<1>8. SumFunctionOnSet(f, T) <= SumFunctionOnSet(f, T \cup rest)
  BY <1>3, <1>6, <1>7
<1> QED
  BY <1>1, <1>8

(***************************************************************************)
(* A sum and the sum of the opposites cancel out.                          *)
(***************************************************************************)
LEMMA SumOfOpposites ==
  ASSUME NEW f, NEW g, NEW S, IsFiniteSet(S),
         \A x \in S : f[x] \in Int /\ g[x] \in Int /\ f[x] + g[x] = 0
  PROVE  SumFunctionOnSet(f, S) + SumFunctionOnSet(g, S) = 0
<1> DEFINE zero == [x \in S |-> 0]
<1>1. \A x \in S : zero[x] = 0 /\ zero[x] = f[x] + g[x]
  OBVIOUS
<1> HIDE DEF zero
<1>2. SumFunctionOnSet(zero, S) = SumFunctionOnSet(f, S) + SumFunctionOnSet(g, S)
  BY <1>1, SumOfSums
<1>3. SumFunctionOnSet(zero, S) = 0
  BY <1>1, SumOfZeros
<1> QED
  BY <1>2, <1>3

(***************************************************************************)
(* A sum of which some terms, each once, change by c.                      *)
(***************************************************************************)
LEMMA SumChangesAt ==
  ASSUME NEW f, NEW g, NEW S, IsFiniteSet(S), \A s \in S : f[s] \in Int /\ g[s] \in Int,
         NEW c, NEW M, IsFiniteSet(M), \A l \in M : c[l] \in Int,
         NEW m, \A l \in M : m[l] \in S /\ g[m[l]] = f[m[l]] + c[l],
         \A k, l \in M : m[k] = m[l] => k = l,
         \A s \in S : (\A l \in M : m[l] # s) => g[s] = f[s]
  PROVE  SumFunctionOnSet(g, S) = SumFunctionOnSet(f, S) + SumFunctionOnSet(c, M)
<1> DEFINE d == [s \in S |-> g[s] - f[s]]
           I == {s \in S : \E l \in M : m[l] = s}
<1>1. \A s \in S : d[s] \in Int /\ g[s] = f[s] + d[s]
  OBVIOUS
<1>2. \A s \in S \ I : d[s] = 0
  OBVIOUS
<1>3. \A l \in M : m[l] \in I /\ c[l] = d[m[l]]
  OBVIOUS
<1>4. I \subseteq S /\ \A s \in I : \E l \in M : m[l] = s
  OBVIOUS
<1> HIDE DEF d, I
<1>5. IsFiniteSet(I) /\ \A s \in I : d[s] \in Int
  BY <1>1, <1>4, FS_Subset
<1>6. SumFunctionOnSet(g, S) = SumFunctionOnSet(f, S) + SumFunctionOnSet(d, S)
  BY <1>1, SumOfSums
<1>7. SumFunctionOnSet(d, S) = SumFunctionOnSet(d, I)
  BY <1>1, <1>2, <1>4, SumOfPart
<1>8. SumFunctionOnSet(c, M) = SumFunctionOnSet(d, I)
  BY <1>3, <1>4, <1>5, SumListed
<1> QED
  BY <1>6, <1>7, <1>8
=============================================================================

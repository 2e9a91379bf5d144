-------------------------------- MODULE Sums --------------------------------
(***************************************************************************)
(* Facts about sums over finite sets, as the community module Functions    *)
(* defines them: the CHOOSE of a recursive function on subsets.  Induction *)
(* is stated about a set of good subsets, which needs no operator for a    *)
(* parameter; from it follow the recursive function's existence and        *)
(* uniqueness, and from these what a sum does when a term or the set       *)
(* changes.                                                                *)
(***************************************************************************)
EXTENDS Functions, FiniteSetTheorems, TLAPS

\* A set of subsets of a finite S that holds each one whose proper subsets it
\* holds, holds them all.
LEMMA SubsetInduction ==
  ASSUME NEW S, IsFiniteSet(S), NEW Good,
         \A T \in SUBSET S : (\A P \in SUBSET T : P # T => P \in Good) => T \in Good
  PROVE  SUBSET S \subseteq Good
  <1> DEFINE Bad == (SUBSET S) \ Good
             Less == StrictSubsetOrdering(S)
  <1>1. SUFFICES ASSUME Bad # {} PROVE FALSE
    OBVIOUS
  <1>2. PICK X \in Bad : \A Y \in Bad : <<Y, X>> \notin Less
    <2>1. IsWellFoundedOn(Less, FiniteSubsetsOf(S))
      BY FS_StrictSubsetOrderingWellFounded
    <2>2. Bad \subseteq FiniteSubsetsOf(S)
      BY FS_FiniteSubsetsOfFinite
    <2> HIDE DEF Bad, Less
    <2> QED
      BY <1>1, <2>1, <2>2, WFMin
  <1>3. ASSUME NEW P \in SUBSET X, P # X PROVE P \in Good
    BY <1>2, <1>3 DEF StrictSubsetOrdering
  <1> QED
    BY <1>2, <1>3

-----------------------------------------------------------------------------
(* The recursion behind a sum *)

\* The element a sum takes first, and the rest.
Pick(s) == CHOOSE x \in s : TRUE
Rest(s) == s \ {Pick(s)}
Iterates(f, S, g) ==
  g = [s \in SUBSET S |-> IF s = {} THEN 0 ELSE f[Pick(s)] + g[Rest(s)]]
Iter(f, S) == CHOOSE g : Iterates(f, S, g)

LEMMA SumIs == \A f, S : SumFunctionOnSet(f, S) = Iter(f, S)[S]
  BY DEF SumFunctionOnSet, FoldFunctionOnSet, MapThenFoldSet, Iter, Iterates, Pick, Rest

LEMMA RestIs ==
  ASSUME NEW s, s # {}
  PROVE  Pick(s) \in s /\ Rest(s) \in SUBSET s /\ Rest(s) # s
  BY DEF Pick, Rest

\* The recursive function on a smaller set is a restriction of that on a larger.
Cut(g, T) == [s \in SUBSET T |-> g[s]]

LEMMA Restricts ==
  ASSUME NEW f, NEW S, NEW T \in SUBSET S, NEW g, Iterates(f, S, g)
  PROVE  Iterates(f, T, Cut(g, T))
  <1> DEFINE h == [s \in SUBSET T |-> g[s]]
  <1>1. ASSUME NEW s \in SUBSET T
        PROVE  h[s] = IF s = {} THEN 0 ELSE f[Pick(s)] + h[Rest(s)]
    <2>1. s \in SUBSET S /\ (s # {} => Rest(s) \in SUBSET T)
      BY RestIs
    <2>2. g[s] = IF s = {} THEN 0 ELSE f[Pick(s)] + g[Rest(s)]
      BY <2>1 DEF Iterates
    <2> QED
      BY <2>1, <2>2
  <1> QED
    BY <1>1 DEF Iterates, Cut

\* There is at most one, and there is one.
LEMMA IterUnique ==
  ASSUME NEW f, NEW S, IsFiniteSet(S), NEW g, NEW h, Iterates(f, S, g), Iterates(f, S, h)
  PROVE  g = h
  <1> DEFINE Good == {s \in SUBSET S : g[s] = h[s]}
  <1>1. ASSUME NEW T \in SUBSET S, \A P \in SUBSET T : P # T => P \in Good
        PROVE  T \in Good
    <2>1. CASE T = {}
      BY <2>1 DEF Iterates
    <2>2. CASE T # {}
      <3>1. Rest(T) \in Good
        BY <1>1, <2>2, RestIs
      <3>2. /\ g[T] = f[Pick(T)] + g[Rest(T)]
            /\ h[T] = f[Pick(T)] + h[Rest(T)]
        BY <2>2 DEF Iterates
      <3> QED
        BY <3>1, <3>2
    <2> QED
      BY <2>1, <2>2
  <1> HIDE DEF Good
  <1>2. SUBSET S \subseteq Good
    BY <1>1, SubsetInduction
  <1> USE DEF Good
  <1>3. g = [s \in SUBSET S |-> g[s]] /\ h = [s \in SUBSET S |-> h[s]]
    BY DEF Iterates
  <1> QED
    BY <1>2, <1>3

LEMMA IterExists ==
  ASSUME NEW f, NEW S, IsFiniteSet(S)
  PROVE  Iterates(f, S, Iter(f, S))
  <1> DEFINE Good == {T \in SUBSET S : Iterates(f, T, Iter(f, T))}
  <1>1. ASSUME NEW T \in SUBSET S, \A P \in SUBSET T : P # T => P \in Good
        PROVE  T \in Good
    <2> DEFINE V(P) == Iter(f, P)[P]
               g == [s \in SUBSET T |-> IF s = {} THEN 0 ELSE f[Pick(s)] + V(Rest(s))]
    <2>1. ASSUME NEW P \in SUBSET T, P # T
          PROVE  V(P) = g[P]
      <3>1. Iterates(f, P, Iter(f, P))
        BY <1>1, <2>1
      <3>2. CASE P = {}
        BY <3>1, <3>2 DEF Iterates
      <3>3. CASE P # {}
        <4> DEFINE Q == Rest(P)
        <4>1. Q \in SUBSET P /\ Q \in SUBSET T /\ Q # T
          BY <2>1, <3>3, RestIs
        <4>2. Iterates(f, Q, Iter(f, Q))
          BY <1>1, <4>1
        <4>3. Iterates(f, Q, Cut(Iter(f, P), Q))
          <5> HIDE DEF Q
          <5> QED
            BY <3>1, <4>1, Restricts
        <4>4. IsFiniteSet(Q)
          BY <4>1, FS_Subset
        <4>5. Iter(f, Q) = Cut(Iter(f, P), Q)
          BY <4>2, <4>3, <4>4, IterUnique
        <4>6. V(Q) = Iter(f, P)[Q]
          BY <4>5 DEF Cut
        <4>7. Iter(f, P)[P] = f[Pick(P)] + Iter(f, P)[Q]
          BY <3>1, <3>3 DEF Iterates
        <4> QED
          BY <3>3, <4>6, <4>7
      <3> QED
        BY <3>2, <3>3
    <2>2. ASSUME NEW s \in SUBSET T
          PROVE  g[s] = IF s = {} THEN 0 ELSE f[Pick(s)] + g[Rest(s)]
      <3>1. s # {} => Rest(s) \in SUBSET T /\ Rest(s) # T
        BY RestIs
      <3> HIDE DEF V
      <3> QED
        BY <2>1, <3>1
    <2>3. Iterates(f, T, g)
      <3> DEFINE e(s) == IF s = {} THEN 0 ELSE f[Pick(s)] + g[Rest(s)]
      <3>1. g = [s \in SUBSET T |-> g[s]]
        OBVIOUS
      <3>2. \A s \in SUBSET T : g[s] = e(s)
        BY <2>2
      <3> HIDE DEF g
      <3>3. g = [s \in SUBSET T |-> e(s)]
        BY <3>1, <3>2
      <3> QED
        BY <3>3 DEF Iterates
    <2> HIDE DEF g
    <2> QED
      BY <2>3 DEF Iter
  <1> HIDE DEF Good
  <1>2. SUBSET S \subseteq Good
    BY <1>1, SubsetInduction
  <1> USE DEF Good
  <1> QED
    BY <1>2

-----------------------------------------------------------------------------
(* Sums *)

LEMMA SumEmpty == \A f : SumFunctionOnSet(f, {}) = 0
  <1> TAKE f
  <1>1. Iterates(f, {}, Iter(f, {}))
    BY IterExists, FS_EmptySet
  <1> QED
    BY <1>1, SumIs DEF Iterates

\* What the definition says of the element it takes first ...
LEMMA SumPick ==
  ASSUME NEW f, NEW S, IsFiniteSet(S), S # {}
  PROVE  SumFunctionOnSet(f, S) = f[Pick(S)] + SumFunctionOnSet(f, Rest(S))
  <1>1. Iterates(f, S, Iter(f, S))
    BY IterExists
  <1>2. Rest(S) \in SUBSET S /\ IsFiniteSet(Rest(S))
    BY RestIs, FS_Subset
  <1>3. Iter(f, Rest(S)) = Cut(Iter(f, S), Rest(S))
    <2>1. Iterates(f, Rest(S), Cut(Iter(f, S), Rest(S)))
      BY <1>1, <1>2, Restricts
    <2>2. Iterates(f, Rest(S), Iter(f, Rest(S)))
      BY <1>2, IterExists
    <2> QED
      BY <1>2, <2>1, <2>2, IterUnique
  <1>4. Iter(f, S)[S] = f[Pick(S)] + Iter(f, S)[Rest(S)]
    BY <1>1 DEF Iterates
  <1>5. Iter(f, Rest(S))[Rest(S)] = Iter(f, S)[Rest(S)]
    BY <1>3 DEF Cut
  <1> QED
    BY <1>4, <1>5, SumIs

\* ... holds of every element: the order does not matter to a sum of integers.
LEMMA SumStep ==
  ASSUME NEW S, IsFiniteSet(S), NEW f, \A x \in S : f[x] \in Int
  PROVE  /\ SumFunctionOnSet(f, S) \in Int
         /\ \A x \in S : SumFunctionOnSet(f, S) = f[x] + SumFunctionOnSet(f, S \ {x})
  <1> DEFINE Total(T) == SumFunctionOnSet(f, T)
             Good == {T \in SUBSET S : /\ Total(T) \in Int
                                       /\ \A x \in T : Total(T) = f[x] + Total(T \ {x})}
  <1>1. ASSUME NEW T \in SUBSET S, \A P \in SUBSET T : P # T => P \in Good
        PROVE  T \in Good
    <2>1. CASE T = {}
      BY <2>1, SumEmpty
    <2>2. CASE T # {}
      <3> DEFINE y == Pick(T)
      <3>1. y \in T /\ Rest(T) = T \ {y} /\ Rest(T) \in Good
        BY <1>1, <2>2, RestIs DEF Rest
      <3>2. Total(T) = f[y] + Total(T \ {y})
        BY <2>2, <3>1, SumPick, FS_Subset
      <3>3. Total(T \ {y}) \in Int /\ f[y] \in Int
        BY <3>1
      <3>4. ASSUME NEW x \in T, x # y
            PROVE  Total(T) = f[x] + Total(T \ {x})
        <4>1. T \ {x} \in Good
          BY <1>1
        <4>2. Total(T \ {y}) = f[x] + Total((T \ {y}) \ {x})
          BY <3>1, <3>4
        <4>3. Total(T \ {x}) = f[y] + Total((T \ {x}) \ {y})
          BY <3>1, <3>4, <4>1
        <4>4. (T \ {y}) \ {x} = (T \ {x}) \ {y}
          OBVIOUS
        <4>5. Total(T \ {x}) \in Int /\ f[x] \in Int /\ Total((T \ {x}) \ {y}) \in Int
          <5>1. (T \ {x}) \ {y} \in Good
            BY <1>1, <3>1
          <5> QED
            BY <4>1, <5>1
        <4> DEFINE r == Total((T \ {x}) \ {y})
        <4>6. Total(T) = f[y] + (f[x] + r) /\ Total(T \ {x}) = f[y] + r
          BY <3>2, <4>2, <4>3, <4>4
        <4>7. f[x] \in Int /\ f[y] \in Int /\ r \in Int
          BY <3>3, <4>5
        <4> HIDE DEF Total, y, r
        <4>8. f[y] + (f[x] + r) = f[x] + (f[y] + r)
          BY <4>7
        <4> QED
          BY <4>6, <4>8
      <3> HIDE DEF Total, y
      <3> QED
        BY <3>2, <3>3, <3>4
    <2> QED
      BY <2>1, <2>2
  <1> HIDE DEF Good
  <1>2. SUBSET S \subseteq Good
    BY <1>1, SubsetInduction
  <1> USE DEF Good
  <1> QED
    BY <1>2

\* Equal terms, equal sums.
LEMMA SumEqual ==
  ASSUME NEW S, IsFiniteSet(S), NEW f, NEW g, \A x \in S : f[x] = g[x]
  PROVE  SumFunctionOnSet(f, S) = SumFunctionOnSet(g, S)
  <1> DEFINE Good == {T \in SUBSET S : SumFunctionOnSet(f, T) = SumFunctionOnSet(g, T)}
  <1>1. ASSUME NEW T \in SUBSET S, \A P \in SUBSET T : P # T => P \in Good
        PROVE  T \in Good
    <2>1. CASE T = {}
      BY <2>1, SumEmpty
    <2>2. CASE T # {}
      <3>1. Pick(T) \in T /\ Rest(T) \in Good
        BY <1>1, <2>2, RestIs
      <3> QED
        BY <2>2, <3>1, SumPick, FS_Subset
    <2> QED
      BY <2>1, <2>2
  <1> HIDE DEF Good
  <1>2. SUBSET S \subseteq Good
    BY <1>1, SubsetInduction
  <1> USE DEF Good
  <1> QED
    BY <1>2

\* One term changes.
LEMMA SumChange ==
  ASSUME NEW S, IsFiniteSet(S), NEW f, NEW g, NEW x \in S,
         \A y \in S : f[y] \in Int /\ g[y] \in Int,
         \A y \in S \ {x} : f[y] = g[y]
  PROVE  SumFunctionOnSet(g, S) = SumFunctionOnSet(f, S) - f[x] + g[x]
  <1>1. IsFiniteSet(S \ {x})
    BY FS_Subset
  <1>2. SumFunctionOnSet(f, S \ {x}) = SumFunctionOnSet(g, S \ {x})
    BY <1>1, SumEqual
  <1>3. SumFunctionOnSet(f, S \ {x}) \in Int
    BY <1>1, SumStep
  <1>4. /\ SumFunctionOnSet(f, S) = f[x] + SumFunctionOnSet(f, S \ {x})
        /\ SumFunctionOnSet(g, S) = g[x] + SumFunctionOnSet(g, S \ {x})
    BY SumStep
  <1> QED
    BY <1>2, <1>3, <1>4

\* One term more.
LEMMA SumGrows ==
  ASSUME NEW S, IsFiniteSet(S), NEW f, NEW x, x \notin S,
         \A y \in S \cup {x} : f[y] \in Int
  PROVE  SumFunctionOnSet(f, S \cup {x}) = SumFunctionOnSet(f, S) + f[x]
  <1>1. IsFiniteSet(S \cup {x})
    BY FS_AddElement
  <1>2. (S \cup {x}) \ {x} = S
    OBVIOUS
  <1>3. SumFunctionOnSet(f, S) \in Int
    BY SumStep
  <1>4. SumFunctionOnSet(f, S \cup {x}) = f[x] + SumFunctionOnSet(f, S)
    BY <1>1, <1>2, SumStep
  <1> QED
    BY <1>3, <1>4

\* A sum of natural numbers is one, and no term exceeds it.
LEMMA SumNatural ==
  ASSUME NEW S, IsFiniteSet(S), NEW f, \A x \in S : f[x] \in Nat
  PROVE  /\ SumFunctionOnSet(f, S) \in Nat
         /\ \A x \in S : f[x] <= SumFunctionOnSet(f, S)
  <1> DEFINE Good == {T \in SUBSET S : SumFunctionOnSet(f, T) \in Nat}
  <1>1. ASSUME NEW T \in SUBSET S, \A P \in SUBSET T : P # T => P \in Good
        PROVE  T \in Good
    <2>1. CASE T = {}
      BY <2>1, SumEmpty
    <2>2. CASE T # {}
      <3>1. Pick(T) \in T /\ Rest(T) \in Good
        BY <1>1, <2>2, RestIs
      <3>2. SumFunctionOnSet(f, T) = f[Pick(T)] + SumFunctionOnSet(f, Rest(T))
        BY <2>2, SumPick, FS_Subset
      <3>3. f[Pick(T)] \in Nat /\ SumFunctionOnSet(f, Rest(T)) \in Nat
        BY <3>1
      <3> QED
        BY <3>2, <3>3
    <2> QED
      BY <2>1, <2>2
  <1> HIDE DEF Good
  <1>2. SUBSET S \subseteq Good
    BY <1>1, SubsetInduction
  <1> USE DEF Good
  <1>3. ASSUME NEW x \in S PROVE f[x] <= SumFunctionOnSet(f, S)
    <2>1. SumFunctionOnSet(f, S \ {x}) \in Nat
      BY <1>2
    <2>2. SumFunctionOnSet(f, S) = f[x] + SumFunctionOnSet(f, S \ {x})
      BY SumStep
    <2> QED
      BY <2>1, <2>2
  <1> QED
    BY <1>2, <1>3

\* A sum over S is a sum over T by a bijection from S to T.
LEMMA SumRenamed ==
  ASSUME NEW S, IsFiniteSet(S), NEW f, NEW g, NEW name,
         \A x, y \in S : name[x] = name[y] => x = y,
         \A x \in S : f[x] = g[name[x]],
         \A x \in S : f[x] \in Int
  PROVE  SumFunctionOnSet(f, S) = SumFunctionOnSet(g, {name[x] : x \in S})
  <1> DEFINE Good == {T \in SUBSET S :
                             /\ IsFiniteSet({name[x] : x \in T})
                             /\ SumFunctionOnSet(f, T)
                                  = SumFunctionOnSet(g, {name[x] : x \in T})}
  <1>1. ASSUME NEW T \in SUBSET S, \A P \in SUBSET T : P # T => P \in Good
        PROVE  T \in Good
    <2>1. CASE T = {}
      <3>1. {name[x] : x \in T} = {}
        BY <2>1
      <3> QED
        BY <2>1, <3>1, SumEmpty, FS_EmptySet
    <2>2. CASE T # {}
      <3> DEFINE y == Pick(T)
                 Image(U) == {name[x] : x \in U}
      <3>1. y \in T /\ Rest(T) = T \ {y} /\ Rest(T) \in Good
        BY <1>1, <2>2, RestIs DEF Rest
      <3>2. /\ Image(T) = Image(Rest(T)) \cup {name[y]} /\ name[y] \notin Image(Rest(T))
        BY <3>1
      <3>3. /\ IsFiniteSet(Image(Rest(T)))
            /\ SumFunctionOnSet(f, Rest(T)) = SumFunctionOnSet(g, Image(Rest(T)))
        BY <3>1
      <3>4. \A z \in Image(Rest(T)) \cup {name[y]} : g[z] \in Int
        BY <3>1
      <3>5. IsFiniteSet(Image(T))
        <4> DEFINE I == Image(Rest(T))
        <4>1. IsFiniteSet(I) /\ Image(T) = I \cup {name[y]}
          BY <3>2, <3>3
        <4> HIDE DEF I, Image, y
        <4> QED
          BY <4>1, FS_AddElement
      <3>6. SumFunctionOnSet(g, Image(T)) = SumFunctionOnSet(g, Image(Rest(T))) + g[name[y]]
        <4> DEFINE I == Image(Rest(T))
                   n == name[y]
        <4>1. IsFiniteSet(I) /\ Image(T) = I \cup {n} /\ n \notin I
          BY <3>2, <3>3
        <4>2. \A z \in I \cup {n} : g[z] \in Int
          BY <3>4
        <4> HIDE DEF I, Image, n
        <4>3. SumFunctionOnSet(g, I \cup {n}) = SumFunctionOnSet(g, I) + g[n]
          BY <4>1, <4>2, SumGrows
        <4> QED
          BY <4>1, <4>3 DEF I, n
      <3>7. SumFunctionOnSet(f, T) = f[y] + SumFunctionOnSet(f, Rest(T))
        BY <2>2, SumPick, FS_Subset
      <3>8. f[y] = g[name[y]] /\ f[y] \in Int
        BY <3>1
      <3>9. SumFunctionOnSet(f, Rest(T)) \in Int
        BY <3>1, SumStep, FS_Subset
      <3> HIDE DEF y
      <3> QED
        BY <3>3, <3>5, <3>6, <3>7, <3>8, <3>9
    <2> QED
      BY <2>1, <2>2
  <1> HIDE DEF Good
  <1>2. SUBSET S \subseteq Good
    BY <1>1, SubsetInduction
  <1> USE DEF Good
  <1> QED
    BY <1>2
=============================================================================

-------------------------------- MODULE Sums --------------------------------
(***************************************************************************)
(* Sums over finite sets, for the modules whose rows add up: what          *)
(* SumFunctionOnSet of the community module Functions returns for every    *)
(* finite set.  It is a fold that takes the elements out in an order of    *)
(* its own choice; the lemmas say that the order does not matter.  They    *)
(* rest on induction, stated for sets instead of predicates and derived    *)
(* from the cardinality of finite sets.  Last, what an enumeration of a    *)
(* finite set is (SetToSeqs of the community module SequencesExt).         *)
(***************************************************************************)
EXTENDS Integers, Sequences, FiniteSets, Functions, SequencesExt, FiniteSetTheorems, TLAPS

\* A set that holds zero and the successor of each of its elements holds every number.
LEMMA UpwardInduction ==
  ASSUME NEW S \in SUBSET Nat, 0 \in S, \A n \in S : n + 1 \in S
  PROVE  \A n \in Nat : n \in S
<1> TAKE n \in Nat
<1> SUFFICES ASSUME n \notin S PROVE FALSE
  OBVIOUS
<1> DEFINE B == S \cap (0 .. n)
           f == [i \in B |-> i + 1]
<1>1. IsFiniteSet(0 .. n)
  BY FS_Interval
<1>2. IsFiniteSet(B) /\ Cardinality(B) \in Nat
  BY <1>1, FS_Subset, FS_CardinalityType
<1>3. IsFiniteSet(B \ {0}) /\ Cardinality(B \ {0}) = Cardinality(B) - 1
  <2>1. 0 \in B
    OBVIOUS
  <2> QED
    BY <1>2, <2>1, FS_RemoveElement
<1>4. f \in [B -> B \ {0}]
  OBVIOUS
<1>5. f \in Injection(B, B \ {0})
  BY <1>4 DEF Injection, IsInjective
<1>6. Cardinality(B) <= Cardinality(B \ {0})
  BY <1>3, <1>5, FS_Injection
<1> QED
  BY <1>2, <1>3, <1>6

\* A family of subsets of a finite set that holds each one it holds all of whose subsets with
\* an element less.
LEMMA SizeInduction ==
  ASSUME NEW S, IsFiniteSet(S), NEW Q \in SUBSET SUBSET S,
         \A s \in SUBSET S : (\A x \in s : s \ {x} \in Q) => s \in Q
  PROVE  Q = SUBSET S
<1> DEFINE N == {n \in Nat : \A s \in SUBSET S : Cardinality(s) = n => s \in Q}
<1>1. \A s \in SUBSET S : IsFiniteSet(s) /\ Cardinality(s) \in Nat
  BY FS_Subset, FS_CardinalityType
<1>2. 0 \in N
  BY <1>1, FS_EmptySet
<1>3. ASSUME NEW n \in N PROVE n + 1 \in N
  <2> SUFFICES ASSUME NEW s \in SUBSET S, Cardinality(s) = n + 1 PROVE s \in Q
    OBVIOUS
  <2>1. ASSUME NEW x \in s PROVE s \ {x} \in Q
    <3>1. Cardinality(s \ {x}) = Cardinality(s) - 1
      BY <1>1, FS_RemoveElement
    <3>2. n \in Nat /\ Cardinality(s \ {x}) = n
      BY <3>1
    <3> QED
      BY <3>2
  <2> QED
    BY <2>1
<1>4. \A n \in Nat : n \in N
  <2> HIDE DEF N
  <2>1. N \in SUBSET Nat
    BY DEF N
  <2>2. \A n \in N : n + 1 \in N
    BY <1>3
  <2> QED
    BY <1>2, <2>1, <2>2, UpwardInduction
<1> QED
  BY <1>1, <1>4

\* A family of subsets of a finite set that holds the empty set, and with a set each one that
\* has an element more, holds them all.
LEMMA SubsetInduction ==
  ASSUME NEW S, IsFiniteSet(S), NEW Q \in SUBSET SUBSET S,
         {} \in Q,
         \A s \in Q : \A x \in S \ s : s \cup {x} \in Q
  PROVE  Q = SUBSET S
<1>1. ASSUME NEW s \in SUBSET S, \A x \in s : s \ {x} \in Q PROVE s \in Q
  <2>1. CASE s = {}
    BY <2>1
  <2>2. CASE s # {}
    <3>1. PICK x \in s : TRUE
      BY <2>2
    <3>2. s \ {x} \in Q /\ x \in S \ (s \ {x}) /\ s = (s \ {x}) \cup {x}
      BY <1>1
    <3> QED
      BY <3>2, Zenon
  <2> QED
    BY <2>1, <2>2
<1> QED
  BY <1>1, SizeInduction

-----------------------------------------------------------------------------
\* g sums f over the subsets of S, whichever element is taken out of one.
AddsUp(f, S, g) ==
  /\ g \in [SUBSET S -> Int] /\ g[{}] = 0
  /\ \A s \in SUBSET S : \A x \in s : g[s] = f[x] + g[s \ {x}]

\* g does so for the element that the fold takes out.
AnyOf(s) == CHOOSE x \in s : TRUE
Fold(f, S, g) ==
  g = [s \in SUBSET S |-> IF s = {} THEN 0 ELSE f[AnyOf(s)] + g[s \ {AnyOf(s)}]]

\* Such sums exist.
LEMMA SumsExist ==
  ASSUME NEW S, IsFiniteSet(S), NEW f, \A x \in S : f[x] \in Int
  PROVE  \E g : AddsUp(f, S, g)
<1> DEFINE Q == {s \in SUBSET S : \E g : AddsUp(f, s, g)}
<1>1. {} \in Q
  <2> DEFINE g == [s \in SUBSET {} |-> 0]
  <2>1. AddsUp(f, {}, g)
    BY DEF AddsUp
  <2> QED
    BY <2>1
<1>2. ASSUME NEW s \in Q, NEW y \in S \ s PROVE s \cup {y} \in Q
  <2>1. PICK g : AddsUp(f, s, g)
    OBVIOUS
  <2> DEFINE T == s \cup {y}
             h == [t \in SUBSET T |-> IF y \in t THEN f[y] + g[t \ {y}] ELSE g[t]]
  <2>2. \A t \in SUBSET T : t \ {y} \in SUBSET s /\ (y \notin t => t \in SUBSET s)
    OBVIOUS
  <2>3. h \in [SUBSET T -> Int] /\ h[{}] = 0
    BY <2>1, <2>2 DEF AddsUp
  <2>4. ASSUME NEW t \in SUBSET T, NEW x \in t PROVE h[t] = f[x] + h[t \ {x}]
    <3>1. CASE y \notin t
      BY <2>1, <2>2, <3>1 DEF AddsUp
    <3>2. CASE x = y
      BY <3>2
    <3>3. CASE y \in t /\ x # y
      <4>1. x \in t \ {y} /\ (t \ {x}) \ {y} = (t \ {y}) \ {x} /\ t \ {x} \in SUBSET T
        BY <3>3
      <4>2. g[t \ {y}] = f[x] + g[(t \ {y}) \ {x}]
        BY <2>1, <2>2, <4>1 DEF AddsUp
      <4>3. h[t \ {x}] = f[y] + g[(t \ {y}) \ {x}] /\ h[t] = f[y] + g[t \ {y}]
        BY <3>3, <4>1
      <4>4. f[x] \in Int /\ f[y] \in Int /\ g[(t \ {y}) \ {x}] \in Int
        BY <2>1 DEF AddsUp
      <4> QED
        BY <4>2, <4>3, <4>4
    <3> QED
      BY <3>1, <3>2, <3>3
  <2> HIDE DEF h
  <2>5. AddsUp(f, T, h)
    BY <2>3, <2>4 DEF AddsUp
  <2> QED
    BY <2>5
<1>3. Q = SUBSET S
  <2> HIDE DEF Q
  <2>1. Q \in SUBSET SUBSET S
    BY DEF Q
  <2> QED
    BY <1>1, <1>2, <2>1, SubsetInduction
<1> QED
  BY <1>3

\* The fold is one of them.
LEMMA FoldSums ==
  ASSUME NEW S, IsFiniteSet(S), NEW f, NEW g, AddsUp(f, S, g)
  PROVE  SumFunctionOnSet(f, S) = g[S]
<1> DEFINE iter == CHOOSE h : Fold(f, S, h)
<1>1. SumFunctionOnSet(f, S) = iter[S]
  BY Zenon DEF SumFunctionOnSet, FoldFunctionOnSet, MapThenFoldSet, Fold, AnyOf
<1>2. \A s \in SUBSET S : s # {} => AnyOf(s) \in s
  BY DEF AnyOf
<1>3. Fold(f, S, g)
  <2>1. \A s \in SUBSET S : g[s] = IF s = {} THEN 0 ELSE f[AnyOf(s)] + g[s \ {AnyOf(s)}]
    BY <1>2 DEF AddsUp
  <2>2. g = [s \in SUBSET S |-> g[s]]
    BY DEF AddsUp
  <2> QED
    BY <2>1, <2>2 DEF Fold
<1>4. Fold(f, S, iter)
  BY <1>3
<1> DEFINE Q == {s \in SUBSET S : iter[s] = g[s]}
<1> HIDE DEF iter
<1>5. \A s \in SUBSET S :
        iter[s] = IF s = {} THEN 0 ELSE f[AnyOf(s)] + iter[s \ {AnyOf(s)}]
  BY <1>4 DEF Fold
<1>6. ASSUME NEW s \in SUBSET S, \A x \in s : s \ {x} \in Q PROVE s \in Q
  <2>1. CASE s = {}
    BY <1>5, <2>1 DEF AddsUp
  <2>2. CASE s # {}
    <3>1. AnyOf(s) \in s /\ iter[s \ {AnyOf(s)}] = g[s \ {AnyOf(s)}]
      BY <1>2, <1>6, <2>2
    <3>2. g[s] = f[AnyOf(s)] + g[s \ {AnyOf(s)}]
      BY <3>1 DEF AddsUp
    <3> QED
      BY <1>5, <2>2, <3>1, <3>2
  <2> QED
    BY <2>1, <2>2
<1>7. Q = SUBSET S
  <2> HIDE DEF Q
  <2>1. Q \in SUBSET SUBSET S
    BY DEF Q
  <2> QED
    BY <1>6, <2>1, SizeInduction
<1> QED
  BY <1>1, <1>7

-----------------------------------------------------------------------------
\* What is said of a fold below it is said of the sums of FoldSums: they exist, they are the
\* fold over each subset, and any element of it may be taken out first.
LEMMA SumRule ==
  ASSUME NEW S, IsFiniteSet(S), NEW f, \A x \in S : f[x] \in Int
  PROVE  /\ SumFunctionOnSet(f, {}) = 0
         /\ \A s \in SUBSET S :
              /\ SumFunctionOnSet(f, s) \in Int
              /\ \A x \in s : SumFunctionOnSet(f, s) = f[x] + SumFunctionOnSet(f, s \ {x})
<1>1. PICK g : AddsUp(f, S, g)
  BY SumsExist
<1>2. ASSUME NEW s \in SUBSET S PROVE SumFunctionOnSet(f, s) = g[s]
  <2>1. IsFiniteSet(s)
    BY FS_Subset
  <2> DEFINE h == [t \in SUBSET s |-> g[t]]
  <2>2. AddsUp(f, s, h)
    <3>1. \A t \in SUBSET s : t \in SUBSET S /\ \A x \in t : t \ {x} \in SUBSET s
      OBVIOUS
    <3>2. h \in [SUBSET s -> Int] /\ h[{}] = 0
      BY <1>1, <3>1 DEF AddsUp
    <3>3. ASSUME NEW t \in SUBSET s, NEW x \in t PROVE h[t] = f[x] + h[t \ {x}]
      BY <1>1, <3>1 DEF AddsUp
    <3> QED
      BY <3>2, <3>3 DEF AddsUp
  <2>3. SumFunctionOnSet(f, s) = h[s]
    <3> HIDE DEF h
    <3> QED
      BY <2>1, <2>2, FoldSums
  <2> QED
    BY <2>3
<1>3. \A s \in SUBSET S : \A x \in s : s \ {x} \in SUBSET S
  OBVIOUS
<1> QED
  BY <1>1, <1>2, <1>3 DEF AddsUp

\* A sum of integers is one.
LEMMA SumType ==
  ASSUME NEW S, IsFiniteSet(S), NEW f, \A x \in S : f[x] \in Int
  PROVE  SumFunctionOnSet(f, S) \in Int
BY SumRule

\* Nothing adds up to zero.
LEMMA SumEmpty == \A f : SumFunctionOnSet(f, {}) = 0
<1> TAKE f
<1>1. IsFiniteSet({})
  BY FS_EmptySet
<1> QED
  BY <1>1, SumRule

\* Any element may be taken out.
LEMMA SumRemove ==
  ASSUME NEW S, IsFiniteSet(S), NEW f, \A y \in S : f[y] \in Int, NEW x \in S
  PROVE  /\ SumFunctionOnSet(f, S \ {x}) \in Int
         /\ SumFunctionOnSet(f, S) = f[x] + SumFunctionOnSet(f, S \ {x})
<1>1. S \in SUBSET S /\ S \ {x} \in SUBSET S
  OBVIOUS
<1> QED
  BY <1>1, SumRule

\* Any element may be added.
LEMMA SumAdd ==
  ASSUME NEW S, IsFiniteSet(S), NEW x, x \notin S,
         NEW f, \A y \in S \cup {x} : f[y] \in Int
  PROVE  /\ SumFunctionOnSet(f, S) \in Int
         /\ SumFunctionOnSet(f, S \cup {x}) = f[x] + SumFunctionOnSet(f, S)
<1>1. IsFiniteSet(S \cup {x}) /\ (S \cup {x}) \ {x} = S
  BY FS_AddElement
<1> QED
  BY <1>1, SumRemove

\* Only the values on the set count.
LEMMA SumSame ==
  ASSUME NEW S, IsFiniteSet(S), NEW f, NEW g,
         \A x \in S : f[x] \in Int /\ g[x] = f[x]
  PROVE  SumFunctionOnSet(g, S) = SumFunctionOnSet(f, S)
<1> DEFINE Q == {s \in SUBSET S : SumFunctionOnSet(g, s) = SumFunctionOnSet(f, s)}
<1>1. {} \in Q
  BY SumEmpty
<1>2. ASSUME NEW s \in Q, NEW x \in S \ s PROVE s \cup {x} \in Q
  <2>1. IsFiniteSet(s)
    BY FS_Subset
  <2>2. SumFunctionOnSet(f, s \cup {x}) = f[x] + SumFunctionOnSet(f, s)
    BY <2>1, SumAdd
  <2>3. SumFunctionOnSet(g, s \cup {x}) = g[x] + SumFunctionOnSet(g, s)
    BY <2>1, SumAdd
  <2> QED
    BY <2>2, <2>3
<1>3. Q = SUBSET S
  <2> HIDE DEF Q
  <2>1. Q \in SUBSET SUBSET S
    BY DEF Q
  <2> QED
    BY <1>1, <1>2, <2>1, SubsetInduction
<1> QED
  BY <1>3

\* One value changes: so does the sum.
LEMMA SumChange ==
  ASSUME NEW S, IsFiniteSet(S), NEW f, NEW g, NEW x \in S,
         \A y \in S : f[y] \in Int /\ g[y] \in Int,
         \A y \in S \ {x} : g[y] = f[y]
  PROVE  SumFunctionOnSet(g, S) = SumFunctionOnSet(f, S) - f[x] + g[x]
<1>1. IsFiniteSet(S \ {x})
  BY FS_Subset
<1>2. SumFunctionOnSet(g, S \ {x}) = SumFunctionOnSet(f, S \ {x})
  BY <1>1, SumSame
<1>3. /\ SumFunctionOnSet(f, S) = f[x] + SumFunctionOnSet(f, S \ {x})
      /\ SumFunctionOnSet(f, S \ {x}) \in Int
  BY SumRemove
<1>4. SumFunctionOnSet(g, S) = g[x] + SumFunctionOnSet(g, S \ {x})
  BY SumRemove
<1>5. f[x] \in Int /\ g[x] \in Int
  OBVIOUS
<1> QED
  BY <1>2, <1>3, <1>4, <1>5

\* The sums of two sets without a common element add up.
LEMMA SumUnion ==
  ASSUME NEW S, IsFiniteSet(S), NEW T, IsFiniteSet(T), S \cap T = {},
         NEW f, \A x \in S \cup T : f[x] \in Int
  PROVE  SumFunctionOnSet(f, S \cup T) = SumFunctionOnSet(f, S) + SumFunctionOnSet(f, T)
<1> DEFINE Q == {t \in SUBSET T :
                   SumFunctionOnSet(f, S \cup t) = SumFunctionOnSet(f, S) + SumFunctionOnSet(f, t)}
<1>0. SumFunctionOnSet(f, S) \in Int
  BY SumType
<1>1. {} \in Q
  <2>1. S \cup {} = S
    OBVIOUS
  <2> QED
    BY <1>0, <2>1, SumEmpty
<1>2. ASSUME NEW t \in Q, NEW x \in T \ t PROVE t \cup {x} \in Q
  <2>1. IsFiniteSet(t) /\ IsFiniteSet(S \cup t)
    BY FS_Subset, FS_Union
  <2>2. /\ SumFunctionOnSet(f, t \cup {x}) = f[x] + SumFunctionOnSet(f, t)
        /\ SumFunctionOnSet(f, t) \in Int
    BY <2>1, SumAdd
  <2>3. SumFunctionOnSet(f, (S \cup t) \cup {x}) = f[x] + SumFunctionOnSet(f, S \cup t)
    <3>1. x \notin S \cup t /\ \A y \in (S \cup t) \cup {x} : f[y] \in Int
      OBVIOUS
    <3> QED
      BY <2>1, <3>1, SumAdd
  <2>4. S \cup (t \cup {x}) = (S \cup t) \cup {x} /\ f[x] \in Int
    OBVIOUS
  <2> QED
    <3>1. SumFunctionOnSet(f, S \cup t) = SumFunctionOnSet(f, S) + SumFunctionOnSet(f, t)
      OBVIOUS
    <3> HIDE DEF Q
    <3>2. SumFunctionOnSet(f, S \cup (t \cup {x}))
            = SumFunctionOnSet(f, S) + SumFunctionOnSet(f, t \cup {x})
      <4>1. SumFunctionOnSet(f, S \cup (t \cup {x})) = f[x] + SumFunctionOnSet(f, S \cup t)
        BY <2>3, <2>4, Zenon
      <4> QED
        BY <1>0, <2>2, <2>4, <3>1, <4>1
    <3> QED
      BY <3>2 DEF Q
<1>3. Q = SUBSET T
  <2> HIDE DEF Q
  <2>1. Q \in SUBSET SUBSET T
    BY DEF Q
  <2> QED
    BY <1>1, <1>2, <2>1, SubsetInduction
<1> QED
  BY <1>3

\* Where no value is larger, the sum is not.
LEMMA SumMonotone ==
  ASSUME NEW S, IsFiniteSet(S), NEW f, NEW g,
         \A x \in S : f[x] \in Int /\ g[x] \in Int /\ f[x] <= g[x]
  PROVE  SumFunctionOnSet(f, S) <= SumFunctionOnSet(g, S)
<1> DEFINE Q == {s \in SUBSET S : SumFunctionOnSet(f, s) <= SumFunctionOnSet(g, s)}
<1>1. {} \in Q
  BY SumEmpty
<1>2. ASSUME NEW s \in Q, NEW x \in S \ s PROVE s \cup {x} \in Q
  <2>1. IsFiniteSet(s)
    BY FS_Subset
  <2>2. /\ SumFunctionOnSet(f, s \cup {x}) = f[x] + SumFunctionOnSet(f, s)
        /\ SumFunctionOnSet(f, s) \in Int
    BY <2>1, SumAdd
  <2>3. /\ SumFunctionOnSet(g, s \cup {x}) = g[x] + SumFunctionOnSet(g, s)
        /\ SumFunctionOnSet(g, s) \in Int
    BY <2>1, SumAdd
  <2>4. f[x] \in Int /\ g[x] \in Int /\ f[x] <= g[x]
    OBVIOUS
  <2> QED
    BY <2>2, <2>3, <2>4
<1>3. Q = SUBSET S
  <2> HIDE DEF Q
  <2>1. Q \in SUBSET SUBSET S
    BY DEF Q
  <2> QED
    BY <1>1, <1>2, <2>1, SubsetInduction
<1> QED
  BY <1>3

\* The values may be summed over where they come from.
LEMMA SumImage ==
  ASSUME NEW T, IsFiniteSet(T), NEW S, NEW g \in [T -> S],
         \A x, y \in T : g[x] = g[y] => x = y,
         \A y \in S : \E x \in T : g[x] = y,
         NEW f, NEW h, \A x \in T : f[g[x]] \in Int /\ h[x] = f[g[x]]
  PROVE  SumFunctionOnSet(h, T) = SumFunctionOnSet(f, S)
<1> DEFINE Img(t) == {g[x] : x \in t}
           Q == {t \in SUBSET T :
                   /\ IsFiniteSet(Img(t))
                   /\ SumFunctionOnSet(h, t) = SumFunctionOnSet(f, Img(t))}
<1>1. {} \in Q
  <2>1. Img({}) = {}
    OBVIOUS
  <2> QED
    BY <2>1, SumEmpty, FS_EmptySet
<1>2. ASSUME NEW t \in Q, NEW x \in T \ t PROVE t \cup {x} \in Q
  <2>1. IsFiniteSet(t) /\ IsFiniteSet(Img(t))
    BY FS_Subset
  <2>2. Img(t \cup {x}) = Img(t) \cup {g[x]} /\ g[x] \notin Img(t)
    OBVIOUS
  <2>3. \A y \in Img(t) \cup {g[x]} : f[y] \in Int
    OBVIOUS
  <2>4. SumFunctionOnSet(h, t) = SumFunctionOnSet(f, Img(t)) /\ h[x] = f[g[x]]
    OBVIOUS
  <2>5. SumFunctionOnSet(h, t \cup {x}) = h[x] + SumFunctionOnSet(h, t)
    <3>1. x \notin t /\ \A y \in t \cup {x} : h[y] \in Int
      OBVIOUS
    <3> QED
      BY <2>1, <3>1, SumAdd
  <2> HIDE DEF Img
  <2>6. IsFiniteSet(Img(t) \cup {g[x]})
    BY <2>1, FS_AddElement
  <2>7. SumFunctionOnSet(f, Img(t) \cup {g[x]}) = f[g[x]] + SumFunctionOnSet(f, Img(t))
    BY <2>1, <2>2, <2>3, SumAdd
  <2> QED
    BY <2>2, <2>4, <2>5, <2>6, <2>7
<1>3. Q = SUBSET T
  <2> HIDE DEF Q
  <2>1. Q \in SUBSET SUBSET T
    BY DEF Q
  <2> QED
    BY <1>1, <1>2, <2>1, SubsetInduction
<1>4. Img(T) = S
  OBVIOUS
<1> QED
  BY <1>3, <1>4

\* The sum of the opposites is the opposite.
LEMMA SumNegate ==
  ASSUME NEW S, IsFiniteSet(S), NEW f, NEW g, \A x \in S : f[x] \in Int /\ g[x] = -f[x]
  PROVE  SumFunctionOnSet(g, S) = -SumFunctionOnSet(f, S)
<1> DEFINE Q == {s \in SUBSET S : SumFunctionOnSet(g, s) = -SumFunctionOnSet(f, s)}
<1>1. {} \in Q
  BY SumEmpty
<1>2. ASSUME NEW s \in Q, NEW x \in S \ s PROVE s \cup {x} \in Q
  <2>1. IsFiniteSet(s)
    BY FS_Subset
  <2>2. /\ SumFunctionOnSet(f, s \cup {x}) = f[x] + SumFunctionOnSet(f, s)
        /\ SumFunctionOnSet(f, s) \in Int
    BY <2>1, SumAdd
  <2>3. SumFunctionOnSet(g, s \cup {x}) = g[x] + SumFunctionOnSet(g, s)
    <3>1. x \notin s /\ \A y \in s \cup {x} : g[y] \in Int
      OBVIOUS
    <3> QED
      BY <2>1, <3>1, SumAdd
  <2>4. f[x] \in Int /\ g[x] = -f[x] /\ SumFunctionOnSet(g, s) = -SumFunctionOnSet(f, s)
    OBVIOUS
  <2> QED
    BY <2>2, <2>3, <2>4
<1>3. Q = SUBSET S
  <2> HIDE DEF Q
  <2>1. Q \in SUBSET SUBSET S
    BY DEF Q
  <2> QED
    BY <1>1, <1>2, <2>1, SubsetInduction
<1> QED
  BY <1>3
-----------------------------------------------------------------------------
\* An enumeration of a finite set leaves nothing out.
LEMMA Enumerates ==
  ASSUME NEW S, IsFiniteSet(S), NEW f \in SetToSeqs(S)
  PROVE  /\ DOMAIN f = 1 .. Cardinality(S) /\ f \in [DOMAIN f -> S]
         /\ f \in Seq(S) /\ Len(f) = Cardinality(S)
         /\ \A i, j \in DOMAIN f : f[i] = f[j] => i = j
         /\ {f[k] : k \in DOMAIN f} = S
<1> DEFINE n == Cardinality(S)
           T == {f[k] : k \in 1 .. n}
<1>1. n \in Nat
  BY FS_CardinalityType
<1>2. f \in [1 .. n -> S] /\ \A i, j \in 1 .. n : i # j => f[i] # f[j]
  BY DEF SetToSeqs
<1>3. ExistsBijection(1 .. n, T)
  <2>1. f \in Bijection(1 .. n, T)
    BY <1>2 DEF Bijection, Injection, Surjection, IsInjective
  <2> QED
    BY <2>1 DEF ExistsBijection
<1>4. IsFiniteSet(1 .. n) /\ Cardinality(1 .. n) = n
  BY <1>1, FS_Interval
<1>5. T \subseteq S
  BY <1>2
<1>6. IsFiniteSet(T) /\ Cardinality(T) = n
  <2> HIDE DEF T, n
  <2> QED
    BY <1>3, <1>4, FS_Bijection
<1>7. T = S
  <2> HIDE DEF T
  <2> QED
    BY <1>5, <1>6, FS_Subset
<1> QED
  BY <1>1, <1>2, <1>7

-----------------------------------------------------------------------------
\* A fold of any kind: take out the element the order names, apply the step to the rest.
Folds(base, step, order, S, h) ==
  h = [s \in SUBSET S |-> IF s = {} THEN base ELSE step[<<order[s], h[s \ {order[s]}]>>]]

\* Over a finite set such a fold exists, and never leaves the type of its step.
LEMMA FoldsExist ==
  ASSUME NEW S, IsFiniteSet(S), NEW T, NEW base \in T, NEW step \in [S \X T -> T],
         NEW order, \A s \in SUBSET S : s # {} => order[s] \in s
  PROVE  \E h \in [SUBSET S -> T] : Folds(base, step, order, S, h)
<1> DEFINE Small(n) == {s \in SUBSET S : Cardinality(s) <= n}
           Upto(n, h) ==
             /\ h \in [Small(n) -> T]
             /\ \A s \in Small(n) :
                  h[s] = IF s = {} THEN base ELSE step[<<order[s], h[s \ {order[s]}]>>]
           N == {n \in Nat : \E h : Upto(n, h)}
<1>1. \A s \in SUBSET S : IsFiniteSet(s) /\ Cardinality(s) \in Nat
  BY FS_Subset, FS_CardinalityType
<1>2. ASSUME NEW s \in SUBSET S, s # {}
      PROVE  /\ order[s] \in S /\ s \ {order[s]} \in SUBSET S
             /\ Cardinality(s \ {order[s]}) = Cardinality(s) - 1
  <2>1. order[s] \in s
    BY <1>2
  <2> QED
    BY <1>1, <2>1, FS_RemoveElement
<1>3. 0 \in N
  <2>1. \A s \in Small(0) : s = {}
    BY <1>1, FS_EmptySet
  <2> DEFINE h == [s \in Small(0) |-> base]
  <2>2. Upto(0, h)
    BY <2>1
  <2> QED
    BY <2>2
<1>4. ASSUME NEW n \in N PROVE n + 1 \in N
  <2>1. PICK g : Upto(n, g)
    OBVIOUS
  <2> DEFINE value(s) == IF s = {} THEN base ELSE step[<<order[s], g[s \ {order[s]}]>>]
             h == [s \in Small(n + 1) |-> value(s)]
  <2>2. \A s \in Small(n + 1) : s # {} => s \ {order[s]} \in Small(n)
    BY <1>1, <1>2
  <2>3. \A s \in Small(n + 1) : value(s) \in T
    BY <1>2, <2>1, <2>2
  <2>4. \A s \in Small(n) : s \in Small(n + 1) /\ value(s) = g[s]
    BY <1>1, <2>1
  <2>5. \A s \in Small(n) : h[s] = g[s]
    BY <2>4
  <2>6. \A s \in Small(n + 1) :
          h[s] = IF s = {} THEN base ELSE step[<<order[s], h[s \ {order[s]}]>>]
    BY <2>2, <2>5
  <2>7. h \in [Small(n + 1) -> T]
    BY <2>3
  <2> HIDE DEF h, Small
  <2>8. Upto(n + 1, h)
    BY <2>6, <2>7
  <2> HIDE DEF Upto
  <2> QED
    BY <2>8
<1>5. \A n \in Nat : n \in N
  <2> HIDE DEF N
  <2>1. N \in SUBSET Nat
    BY DEF N
  <2> QED
    BY <1>3, <1>4, <2>1, UpwardInduction
<1>6. PICK h : Upto(Cardinality(S), h)
  BY <1>1, <1>5
<1>7. Small(Cardinality(S)) = SUBSET S
  BY <1>1, FS_Subset
<1>8. h \in [SUBSET S -> T] /\ h = [s \in SUBSET S |-> h[s]]
  BY <1>6, <1>7
<1>9. Folds(base, step, order, S, h)
  BY <1>6, <1>7, <1>8 DEF Folds
<1> QED
  BY <1>8, <1>9

\* The sum of a set of rows by one of their fields is the fold of FoldSums as well.
LEMMA SumOfTotals ==
  ASSUME NEW S, IsFiniteSet(S), \A x \in S : x.total \in Int
  PROVE  /\ MapThenSumSet(LAMBDA x : x.total, S) \in Int
         /\ MapThenSumSet(LAMBDA x : x.total, S) = SumFunctionOnSet([x \in S |-> x.total], S)
<1> DEFINE f == [x \in S |-> x.total]
<1>1. PICK g : AddsUp(f, S, g)
  BY SumsExist
<1> DEFINE ByTotal(h) ==
      h = [s \in SUBSET S |-> IF s = {} THEN 0 ELSE AnyOf(s).total + h[s \ {AnyOf(s)}]]
           iter == CHOOSE h : ByTotal(h)
<1>2. MapThenSumSet(LAMBDA x : x.total, S) = iter[S]
  BY Zenon DEF MapThenSumSet, MapThenFoldSet, AnyOf
<1>3. \A s \in SUBSET S : s # {} => AnyOf(s) \in s
  BY DEF AnyOf
<1>4. ByTotal(g)
  <2>1. \A s \in SUBSET S :
          g[s] = IF s = {} THEN 0 ELSE AnyOf(s).total + g[s \ {AnyOf(s)}]
    BY <1>1, <1>3 DEF AddsUp
  <2>2. g = [s \in SUBSET S |-> g[s]]
    BY <1>1 DEF AddsUp
  <2> QED
    BY <2>1, <2>2
<1>5. ByTotal(iter)
  BY <1>4
<1> DEFINE Q == {s \in SUBSET S : iter[s] = g[s]}
<1> HIDE DEF iter
<1>6. \A s \in SUBSET S :
        iter[s] = IF s = {} THEN 0 ELSE AnyOf(s).total + iter[s \ {AnyOf(s)}]
  BY <1>5
<1>7. ASSUME NEW s \in SUBSET S, \A x \in s : s \ {x} \in Q PROVE s \in Q
  <2>1. CASE s = {}
    BY <1>1, <1>6, <2>1 DEF AddsUp
  <2>2. CASE s # {}
    <3>1. AnyOf(s) \in s /\ iter[s \ {AnyOf(s)}] = g[s \ {AnyOf(s)}]
      BY <1>3, <1>7, <2>2
    <3>2. g[s] = AnyOf(s).total + g[s \ {AnyOf(s)}]
      BY <1>1, <3>1 DEF AddsUp
    <3> QED
      BY <1>6, <2>2, <3>1, <3>2
  <2> QED
    BY <2>1, <2>2
<1>8. Q = SUBSET S
  <2> HIDE DEF Q
  <2>1. Q \in SUBSET SUBSET S
    BY DEF Q
  <2> QED
    BY <1>7, <2>1, SizeInduction
<1>9. iter[S] = g[S] /\ g[S] \in Int
  BY <1>1, <1>8 DEF AddsUp
<1>10. SumFunctionOnSet(f, S) = g[S]
  <2> HIDE DEF f
  <2> QED
    BY <1>1, FoldSums
<1> QED
  BY <1>2, <1>9, <1>10

\* Amounts that are not negative have a sum that is not.
LEMMA SumNatural ==
  ASSUME NEW S, IsFiniteSet(S), NEW f, \A x \in S : f[x] \in Nat
  PROVE  SumFunctionOnSet(f, S) \in Nat
<1> DEFINE Q == {s \in SUBSET S : SumFunctionOnSet(f, s) \in Nat}
<1>1. ASSUME NEW s \in SUBSET S, \A x \in s : s \ {x} \in Q PROVE s \in Q
  <2>1. CASE s = {}
    BY <2>1, SumEmpty
  <2>2. CASE s # {}
    <3>1. PICK x \in s : TRUE
      BY <2>2
    <3>2. SumFunctionOnSet(f, s \ {x}) \in Nat
      BY <1>1
    <3>3. IsFiniteSet(s) /\ \A y \in s : f[y] \in Int
      BY FS_Subset
    <3>4. SumFunctionOnSet(f, s) = f[x] + SumFunctionOnSet(f, s \ {x})
      BY <3>3, SumRemove
    <3> QED
      BY <3>2, <3>4
  <2> QED
    BY <2>1, <2>2
<1>2. Q = SUBSET S
  <2>1. Q \in SUBSET SUBSET S
    OBVIOUS
  <2> HIDE DEF Q
  <2> QED
    BY <1>1, <2>1, SizeInduction
<1> QED
  BY <1>2

\* More rows with totals that are not negative add up to no less.
LEMMA TotalsGrow ==
  ASSUME NEW S, IsFiniteSet(S), NEW T \in SUBSET S, \A x \in S : x.total \in Nat
  PROVE  /\ MapThenSumSet(LAMBDA x : x.total, S) \in Nat
         /\ MapThenSumSet(LAMBDA x : x.total, T) \in Nat
         /\ MapThenSumSet(LAMBDA x : x.total, T) <= MapThenSumSet(LAMBDA x : x.total, S)
<1> DEFINE f == [x \in S |-> x.total]
           h == [x \in T |-> x.total]
<1>1. IsFiniteSet(T) /\ IsFiniteSet(S \ T)
  BY FS_Subset
<1>2. /\ MapThenSumSet(LAMBDA x : x.total, S) = SumFunctionOnSet(f, S)
      /\ MapThenSumSet(LAMBDA x : x.total, T) = SumFunctionOnSet(h, T)
  BY <1>1, SumOfTotals
<1>3. \A x \in S : f[x] \in Nat
  OBVIOUS
<1>4. \A x \in T : f[x] \in Int /\ h[x] = f[x]
  OBVIOUS
<1> HIDE DEF f, h
<1>5. SumFunctionOnSet(h, T) = SumFunctionOnSet(f, T)
  BY <1>1, <1>4, SumSame
<1>6. /\ SumFunctionOnSet(f, T) \in Nat /\ SumFunctionOnSet(f, S \ T) \in Nat
      /\ SumFunctionOnSet(f, S) \in Nat
  BY <1>1, <1>3, SumNatural
<1>7. SumFunctionOnSet(f, S) = SumFunctionOnSet(f, T) + SumFunctionOnSet(f, S \ T)
  <2>1. S = T \cup (S \ T) /\ T \cap (S \ T) = {} /\ \A x \in T \cup (S \ T) : f[x] \in Int
    BY <1>3
  <2>2. SumFunctionOnSet(f, T \cup (S \ T)) = SumFunctionOnSet(f, T) + SumFunctionOnSet(f, S \ T)
    BY <1>1, <2>1, SumUnion
  <2> QED
    BY <2>1, <2>2
<1> QED
  BY <1>2, <1>5, <1>6, <1>7

\* Of finitely many numbers one is the largest.
LEMMA LargestExists ==
  ASSUME NEW S, IsFiniteSet(S), NEW f, \A x \in S : f[x] \in Int
  PROVE  \A s \in SUBSET S : s # {} => \E x \in s : \A y \in s : f[y] <= f[x]
<1> DEFINE Q == {s \in SUBSET S : s = {} \/ \E x \in s : \A y \in s : f[y] <= f[x]}
<1>1. ASSUME NEW s \in Q, NEW z \in S \ s PROVE s \cup {z} \in Q
  <2>1. CASE s = {}
    BY <2>1
  <2>2. CASE s # {}
    <3>1. PICK x \in s : \A y \in s : f[y] <= f[x]
      BY <2>2
    <3>2. f[x] \in Int /\ f[z] \in Int /\ \A y \in s : f[y] \in Int
      OBVIOUS
    <3>3. CASE f[z] <= f[x]
      BY <3>1, <3>3
    <3>4. CASE ~(f[z] <= f[x])
      <4>1. \A y \in s \cup {z} : f[y] <= f[z]
        BY <3>1, <3>2, <3>4
      <4> QED
        BY <4>1
    <3> QED
      BY <3>3, <3>4
  <2> QED
    BY <2>1, <2>2
<1>2. Q = SUBSET S
  <2>1. Q \in SUBSET SUBSET S /\ {} \in Q
    OBVIOUS
  <2> HIDE DEF Q
  <2> QED
    BY <1>1, <2>1, SubsetInduction
<1> QED
  BY <1>2
=============================================================================

-------------------------------- MODULE Sums --------------------------------
(***************************************************************************)
(* Sums of a function over a finite set.  SumFunctionOnSet takes the       *)
(* elements in an order CHOOSE fixes; these lemmas say that the order does *)
(* not matter, so that a sum can be followed from one state to the next.   *)
(* The induction is on the smallest subset that fails.                     *)
(***************************************************************************)
EXTENDS Integers, FiniteSets, Functions, FiniteSetTheorems, WellFoundedInduction,
        TLAPS

Chosen(s) == CHOOSE x \in s : TRUE
FirstAndRest(f, w, s) == IF s = {} THEN 0 ELSE w[Chosen(s)] + f[s \ {Chosen(s)}]
IsSumFcn(f, w, S) == f = [s \in SUBSET S |-> FirstAndRest(f, w, s)]
SumFcn(w, S) == CHOOSE f : IsSumFcn(f, w, S)

\* The library's sum is the value at S of the function that defines it.
LEMMA SumIsLast ==
  ASSUME NEW w, NEW S
  PROVE  SumFunctionOnSet(w, S) = SumFcn(w, S)[S]
  BY Zenon DEF SumFunctionOnSet, FoldFunctionOnSet, MapThenFoldSet, SumFcn, IsSumFcn,
               FirstAndRest, Chosen

\* A nonempty family of subsets of a finite set has a minimal member.
LEMMA Smallest ==
  ASSUME NEW S, IsFiniteSet(S), NEW T \in SUBSET SUBSET S, T # {}
  PROVE  \E X \in T : \A Y \in T : Y \subseteq X => Y = X
<1> DEFINE R == StrictSubsetOrdering(S)
<1>1. IsWellFoundedOn(R, FiniteSubsetsOf(S))
  BY FS_StrictSubsetOrderingWellFounded
<1>2. T \subseteq FiniteSubsetsOf(S)
  BY FS_Subset DEF FiniteSubsetsOf
<1>3. PICK X \in T : \A Y \in T : ~(<<Y, X>> \in R)
  <2> HIDE DEF R
  <2> QED
    BY <1>1, <1>2, WFMin
<1>4. \A Y \in T : Y \subseteq X => Y = X
  BY <1>3 DEF StrictSubsetOrdering
<1> QED
  BY <1>4

\* An element taken from a set is in the set.
LEMMA ChosenIn == \A s : s # {} => Chosen(s) \in s
  BY DEF Chosen

\* The defining equation at a subset.
LEMMA SumFcnAt ==
  ASSUME NEW f, NEW w, NEW S, IsSumFcn(f, w, S), NEW s \in SUBSET S
  PROVE  f[s] = IF s = {} THEN 0 ELSE w[Chosen(s)] + f[s \ {Chosen(s)}]
<1>1. f[s] = FirstAndRest(f, w, s)
  BY DEF IsSumFcn
<1> QED
  BY <1>1 DEF FirstAndRest

\* The recursive equation has one solution at most ...
LEMMA SumFcnUnique ==
  ASSUME NEW f, NEW g, NEW w, NEW S, IsFiniteSet(S),
         IsSumFcn(f, w, S), IsSumFcn(g, w, S)
  PROVE  \A s \in SUBSET S : f[s] = g[s]
<1> DEFINE T == {s \in SUBSET S : f[s] # g[s]}
<1> SUFFICES ASSUME T # {} PROVE FALSE
  OBVIOUS
<1>0. T \in SUBSET SUBSET S
  OBVIOUS
<1>1. PICK X \in T : \A Y \in T : Y \subseteq X => Y = X
  <2> HIDE DEF T
  <2> QED
    BY <1>0, Smallest
<1>2. X # {}
  BY SumFcnAt
<1>3. /\ Chosen(X) \in X /\ X \ {Chosen(X)} \in SUBSET S
      /\ X \ {Chosen(X)} \subseteq X /\ X \ {Chosen(X)} # X
  BY <1>2, ChosenIn
<1>4. f[X \ {Chosen(X)}] = g[X \ {Chosen(X)}]
  BY <1>1, <1>3
<1> QED
  BY <1>2, <1>4, SumFcnAt

\* ... whose restriction to a subset is the solution there ...
LEMMA SumFcnRestrict ==
  ASSUME NEW f, NEW w, NEW S, IsSumFcn(f, w, S), NEW X \in SUBSET S
  PROVE  IsSumFcn([s \in SUBSET X |-> f[s]], w, X)
<1> DEFINE g == [s \in SUBSET X |-> f[s]]
<1>1. ASSUME NEW s \in SUBSET X PROVE g[s] = FirstAndRest(g, w, s)
  <2>1. g[s] = f[s] /\ f[s] = FirstAndRest(f, w, s)
    BY SumFcnAt DEF FirstAndRest
  <2>2. s # {} => s \ {Chosen(s)} \in SUBSET X
    OBVIOUS
  <2> QED
    BY <2>1, <2>2 DEF FirstAndRest
<1>2. g = [s \in SUBSET X |-> FirstAndRest(g, w, s)]
  BY <1>1
<1> QED
  BY <1>2 DEF IsSumFcn

\* ... and one at least: extend the solutions of the smaller subsets.
LEMMA SumFcnExists ==
  ASSUME NEW w, NEW S, IsFiniteSet(S)
  PROVE  IsSumFcn(SumFcn(w, S), w, S)
<1> DEFINE T == {X \in SUBSET S : ~IsSumFcn(SumFcn(w, X), w, X)}
<1> SUFFICES ASSUME T # {} PROVE FALSE
  BY DEF SumFcn
<1>0. T \in SUBSET SUBSET S
  OBVIOUS
<1>1. PICK X \in T : \A Y \in T : Y \subseteq X => Y = X
  <2> HIDE DEF T
  <2> QED
    BY <1>0, Smallest
<1>2. \A Y \in SUBSET X : Y # X => IsSumFcn(SumFcn(w, Y), w, Y)
  BY <1>1
<1>3. \A Y \in SUBSET X : IsFiniteSet(Y)
  BY FS_Subset
<1> DEFINE rest(s) == s \ {Chosen(s)}
           g == [s \in SUBSET X |->
                   IF s = {} THEN 0 ELSE w[Chosen(s)] + SumFunctionOnSet(w, rest(s))]
<1>4. ASSUME NEW s \in SUBSET X, s # {}
      PROVE  g[rest(s)] = SumFunctionOnSet(w, rest(s))
  <2>1. /\ rest(s) \in SUBSET X /\ rest(s) # X
    BY <1>4, ChosenIn
  <2>2. PICK r : r = rest(s)
    OBVIOUS
  <2>3. /\ r \in SUBSET X /\ IsSumFcn(SumFcn(w, r), w, r) /\ IsFiniteSet(r)
    BY <1>2, <1>3, <2>1, <2>2
  <2>4. SumFunctionOnSet(w, r)
          = IF r = {} THEN 0 ELSE w[Chosen(r)] + SumFcn(w, r)[rest(r)]
    BY <2>3, SumFcnAt, SumIsLast
  <2>5. CASE r = {}
    BY <2>1, <2>2, <2>4, <2>5
  <2>6. CASE r # {}
    <3>1. rest(r) \in SUBSET r /\ rest(r) \in SUBSET X /\ rest(r) # X
      BY <2>3, <2>6, ChosenIn
    <3>2. PICK q : q = rest(r)
      OBVIOUS
    <3>3. IsSumFcn(SumFcn(w, q), w, q) /\ IsFiniteSet(q) /\ q \in SUBSET r
      BY <1>2, <1>3, <3>1, <3>2
    <3>4. IsSumFcn([t \in SUBSET q |-> SumFcn(w, r)[t]], w, q)
      BY <2>3, <3>3, SumFcnRestrict
    <3>5. [t \in SUBSET q |-> SumFcn(w, r)[t]][q] = SumFcn(w, q)[q]
      BY <3>3, <3>4, SumFcnUnique
    <3>6. SumFcn(w, r)[q] = SumFunctionOnSet(w, q)
      BY <3>5, SumIsLast
    <3> QED
      BY <2>2, <2>3, <2>4, <2>6, <3>2, <3>6
  <2> QED
    BY <2>5, <2>6
<1>5. ASSUME NEW s \in SUBSET X PROVE g[s] = FirstAndRest(g, w, s)
  <2>1. CASE s = {}
    BY <2>1 DEF FirstAndRest
  <2>2. CASE s # {}
    BY <1>4, <2>2 DEF FirstAndRest
  <2> QED
    BY <2>1, <2>2
<1>6. IsSumFcn(g, w, X)
  <2>1. g = [s \in SUBSET X |-> FirstAndRest(g, w, s)]
    BY <1>5
  <2> HIDE DEF g
  <2> QED
    BY <2>1 DEF IsSumFcn
<1>7. IsSumFcn(SumFcn(w, X), w, X)
  <2> HIDE DEF g
  <2> QED
    BY <1>6 DEF SumFcn
<1> QED
  BY <1>1, <1>7

\* A sum is the element CHOOSE takes and the sum of the rest.
LEMMA SumPick ==
  ASSUME NEW w, NEW S, IsFiniteSet(S)
  PROVE  SumFunctionOnSet(w, S)
           = IF S = {} THEN 0
             ELSE w[Chosen(S)] + SumFunctionOnSet(w, S \ {Chosen(S)})
<1>1. SumFunctionOnSet(w, S)
        = IF S = {} THEN 0 ELSE w[Chosen(S)] + SumFcn(w, S)[S \ {Chosen(S)}]
  BY SumFcnExists, SumFcnAt, SumIsLast
<1>2. PICK q : q = S \ {Chosen(S)}
  OBVIOUS
<1>3. q \in SUBSET S /\ IsFiniteSet(q)
  BY <1>2, FS_Subset
<1>4. /\ IsSumFcn(SumFcn(w, S), w, S) /\ IsSumFcn(SumFcn(w, q), w, q)
  BY <1>3, SumFcnExists
<1>5. IsSumFcn([t \in SUBSET q |-> SumFcn(w, S)[t]], w, q)
  BY <1>3, <1>4, SumFcnRestrict
<1>6. [t \in SUBSET q |-> SumFcn(w, S)[t]][q] = SumFcn(w, q)[q]
  BY <1>3, <1>4, <1>5, SumFcnUnique
<1>7. SumFcn(w, S)[q] = SumFunctionOnSet(w, q)
  BY <1>6, SumIsLast
<1> QED
  BY <1>1, <1>2, <1>7

\* The empty sum.
LEMMA SumNone == \A w : SumFunctionOnSet(w, {}) = 0
  BY SumPick, FS_EmptySet

\* A sum of integers is an integer.
LEMMA SumType ==
  ASSUME NEW w, NEW S, IsFiniteSet(S), \A x \in S : w[x] \in Int
  PROVE  SumFunctionOnSet(w, S) \in Int
<1> DEFINE T == {X \in SUBSET S : SumFunctionOnSet(w, X) \notin Int}
<1> SUFFICES ASSUME T # {} PROVE FALSE
  OBVIOUS
<1>0. T \in SUBSET SUBSET S
  OBVIOUS
<1>1. PICK X \in T : \A Y \in T : Y \subseteq X => Y = X
  <2> HIDE DEF T
  <2> QED
    BY <1>0, Smallest
<1>2. IsFiniteSet(X)
  BY FS_Subset
<1>3. X # {}
  BY SumNone
<1>4. /\ Chosen(X) \in X /\ X \ {Chosen(X)} \in SUBSET S
      /\ X \ {Chosen(X)} \subseteq X /\ X \ {Chosen(X)} # X
  BY <1>3, ChosenIn
<1>5. SumFunctionOnSet(w, X \ {Chosen(X)}) \in Int
  BY <1>1, <1>4
<1> QED
  BY <1>2, <1>3, <1>4, <1>5, SumPick

\* Functions that agree on the set have the same sum.
LEMMA SumSame ==
  ASSUME NEW w, NEW v, NEW S, IsFiniteSet(S), \A x \in S : w[x] = v[x]
  PROVE  SumFunctionOnSet(w, S) = SumFunctionOnSet(v, S)
<1> DEFINE T == {X \in SUBSET S : SumFunctionOnSet(w, X) # SumFunctionOnSet(v, X)}
<1> SUFFICES ASSUME T # {} PROVE FALSE
  OBVIOUS
<1>0. T \in SUBSET SUBSET S
  OBVIOUS
<1>1. PICK X \in T : \A Y \in T : Y \subseteq X => Y = X
  <2> HIDE DEF T
  <2> QED
    BY <1>0, Smallest
<1>2. IsFiniteSet(X)
  BY FS_Subset
<1>3. X # {}
  BY SumNone
<1>4. /\ Chosen(X) \in X /\ X \ {Chosen(X)} \in SUBSET S
      /\ X \ {Chosen(X)} \subseteq X /\ X \ {Chosen(X)} # X
  BY <1>3, ChosenIn
<1>5. SumFunctionOnSet(w, X \ {Chosen(X)}) = SumFunctionOnSet(v, X \ {Chosen(X)})
  BY <1>1, <1>4
<1> QED
  BY <1>2, <1>3, <1>4, <1>5, SumPick

\* A sum is any element, not only the one CHOOSE takes, and the sum of the rest.
LEMMA SumDrop ==
  ASSUME NEW w, NEW S, IsFiniteSet(S), \A x \in S : w[x] \in Int
  PROVE  \A x \in S : SumFunctionOnSet(w, S) = w[x] + SumFunctionOnSet(w, S \ {x})
<1> DEFINE T == {X \in SUBSET S :
                   \E x \in X : SumFunctionOnSet(w, X)
                                # w[x] + SumFunctionOnSet(w, X \ {x})}
<1> SUFFICES ASSUME T # {} PROVE FALSE
  OBVIOUS
<1>0. T \in SUBSET SUBSET S
  OBVIOUS
<1>1. PICK X \in T : \A Y \in T : Y \subseteq X => Y = X
  <2> HIDE DEF T
  <2> QED
    BY <1>0, Smallest
<1>2. IsFiniteSet(X) /\ X \in SUBSET S
  BY FS_Subset
<1>3. PICK x \in X : SumFunctionOnSet(w, X) # w[x] + SumFunctionOnSet(w, X \ {x})
  OBVIOUS
<1>4. PICK c : c = Chosen(X)
  OBVIOUS
<1>5. c \in X
  BY <1>3, <1>4, ChosenIn
<1>6. SumFunctionOnSet(w, X) = w[c] + SumFunctionOnSet(w, X \ {c})
  BY <1>2, <1>3, <1>4, SumPick
<1>7. c # x
  BY <1>3, <1>6
<1>8. /\ X \ {c} \in SUBSET S /\ X \ {c} \subseteq X /\ X \ {c} # X
      /\ X \ {x} \in SUBSET S /\ X \ {x} \subseteq X /\ X \ {x} # X
      /\ c \in X \ {x} /\ x \in X \ {c}
  BY <1>5, <1>7, <1>2
<1>9. /\ X \ {c} \notin T /\ X \ {x} \notin T
  <2> HIDE DEF T
  <2> QED
    BY <1>1, <1>8
<1>10. /\ SumFunctionOnSet(w, X \ {c}) = w[x] + SumFunctionOnSet(w, (X \ {c}) \ {x})
       /\ SumFunctionOnSet(w, X \ {x}) = w[c] + SumFunctionOnSet(w, (X \ {x}) \ {c})
  BY <1>8, <1>9
<1>11. (X \ {c}) \ {x} = (X \ {x}) \ {c}
  OBVIOUS
<1>12. PICK r : r = (X \ {x}) \ {c}
  OBVIOUS
<1>13. r \in SUBSET S /\ IsFiniteSet(r)
  BY <1>2, <1>12, FS_Subset
<1>14. SumFunctionOnSet(w, r) \in Int /\ w[x] \in Int /\ w[c] \in Int
  BY <1>2, <1>5, <1>13, SumType
<1>15. /\ SumFunctionOnSet(w, X \ {c}) = w[x] + SumFunctionOnSet(w, r)
       /\ SumFunctionOnSet(w, X \ {x}) = w[c] + SumFunctionOnSet(w, r)
  BY <1>10, <1>11, <1>12
<1> QED
  BY <1>3, <1>6, <1>14, <1>15

\* A new element adds its value.
LEMMA SumAdd ==
  ASSUME NEW w, NEW S, IsFiniteSet(S), NEW x, x \notin S,
         \A y \in S \cup {x} : w[y] \in Int
  PROVE  SumFunctionOnSet(w, S \cup {x}) = SumFunctionOnSet(w, S) + w[x]
<1>1. IsFiniteSet(S \cup {x})
  BY FS_AddElement
<1>2. (S \cup {x}) \ {x} = S
  OBVIOUS
<1>3. SumFunctionOnSet(w, S \cup {x}) = w[x] + SumFunctionOnSet(w, S)
  BY <1>1, <1>2, SumDrop
<1> QED
  BY <1>3, SumType

\* Elements worth nothing may be left out.
LEMMA SumSupport ==
  ASSUME NEW w, NEW S, IsFiniteSet(S), NEW R \in SUBSET S,
         \A x \in S : w[x] \in Int, \A x \in S \ R : w[x] = 0
  PROVE  SumFunctionOnSet(w, S) = SumFunctionOnSet(w, R)
<1> DEFINE T == {X \in SUBSET S : R \subseteq X /\ SumFunctionOnSet(w, X) # SumFunctionOnSet(w, R)}
<1> SUFFICES ASSUME T # {} PROVE FALSE
  OBVIOUS
<1>0. T \in SUBSET SUBSET S
  OBVIOUS
<1>1. PICK X \in T : \A Y \in T : Y \subseteq X => Y = X
  <2> HIDE DEF T
  <2> QED
    BY <1>0, Smallest
<1>2. PICK x \in X : x \notin R
  OBVIOUS
<1>3. IsFiniteSet(X) /\ \A y \in X : w[y] \in Int
  BY FS_Subset
<1>4. SumFunctionOnSet(w, X) = w[x] + SumFunctionOnSet(w, X \ {x})
  BY <1>3, SumDrop
<1>5. PICK r : r = X \ {x}
  OBVIOUS
<1>6. SumFunctionOnSet(w, r) \in Int
  <2>1. IsFiniteSet(r) /\ \A y \in r : w[y] \in Int
    BY <1>3, <1>5, FS_Subset
  <2> QED BY <2>1, SumType
<1>7. SumFunctionOnSet(w, X) = SumFunctionOnSet(w, r)
  BY <1>2, <1>4, <1>5, <1>6
<1>8. r \in SUBSET S /\ R \subseteq r /\ r \subseteq X /\ r # X
  BY <1>2, <1>5
<1> QED
  BY <1>1, <1>7, <1>8

\* An element whose value changes changes the sum by as much.
LEMMA SumMove ==
  ASSUME NEW w, NEW v, NEW S, IsFiniteSet(S), NEW x \in S,
         \A y \in S : w[y] \in Int /\ v[y] \in Int,
         \A y \in S \ {x} : w[y] = v[y]
  PROVE  SumFunctionOnSet(v, S) = SumFunctionOnSet(w, S) + v[x] - w[x]
<1> DEFINE r == S \ {x}
<1>1. /\ SumFunctionOnSet(w, S) = w[x] + SumFunctionOnSet(w, r)
      /\ SumFunctionOnSet(v, S) = v[x] + SumFunctionOnSet(v, r)
  BY SumDrop
<1>2. IsFiniteSet(r)
  BY FS_Subset
<1> HIDE DEF r
<1>3. r \subseteq S /\ \A y \in r : w[y] = v[y]
  BY DEF r
<1>4. SumFunctionOnSet(w, r) = SumFunctionOnSet(v, r) /\ SumFunctionOnSet(w, r) \in Int
  BY <1>2, <1>3, SumSame, SumType
<1> QED
  BY <1>1, <1>4

\* The sum of two functions is the sum of their sums.
LEMMA SumPlus ==
  ASSUME NEW u, NEW w, NEW v, NEW S, IsFiniteSet(S),
         \A x \in S : w[x] \in Int /\ v[x] \in Int /\ u[x] = w[x] + v[x]
  PROVE  SumFunctionOnSet(u, S) = SumFunctionOnSet(w, S) + SumFunctionOnSet(v, S)
<1> DEFINE T == {X \in SUBSET S : SumFunctionOnSet(u, X)
                                  # SumFunctionOnSet(w, X) + SumFunctionOnSet(v, X)}
<1> SUFFICES ASSUME T # {} PROVE FALSE
  OBVIOUS
<1>0. T \in SUBSET SUBSET S
  OBVIOUS
<1>1. PICK X \in T : \A Y \in T : Y \subseteq X => Y = X
  <2> HIDE DEF T
  <2> QED
    BY <1>0, Smallest
<1>2. IsFiniteSet(X)
  BY FS_Subset
<1>3. X # {}
  <2>1. /\ SumFunctionOnSet(u, {}) = 0 /\ SumFunctionOnSet(w, {}) = 0
        /\ SumFunctionOnSet(v, {}) = 0
    BY SumNone
  <2>2. SumFunctionOnSet(u, {}) = SumFunctionOnSet(w, {}) + SumFunctionOnSet(v, {})
    BY <2>1
  <2>3. {} \notin T
    BY <2>2
  <2> QED
    BY <2>3
<1>4. /\ Chosen(X) \in X /\ X \ {Chosen(X)} \in SUBSET S
      /\ X \ {Chosen(X)} \subseteq X /\ X \ {Chosen(X)} # X
  BY <1>3, ChosenIn
<1>5. PICK r : r = X \ {Chosen(X)}
  OBVIOUS
<1>6. SumFunctionOnSet(u, r) = SumFunctionOnSet(w, r) + SumFunctionOnSet(v, r)
  BY <1>1, <1>4, <1>5
<1>7. r \in SUBSET S /\ IsFiniteSet(r)
  BY <1>2, <1>4, <1>5, FS_Subset
<1>8. /\ SumFunctionOnSet(u, X) = u[Chosen(X)] + SumFunctionOnSet(u, r)
      /\ SumFunctionOnSet(w, X) = w[Chosen(X)] + SumFunctionOnSet(w, r)
      /\ SumFunctionOnSet(v, X) = v[Chosen(X)] + SumFunctionOnSet(v, r)
  BY <1>2, <1>3, <1>5, SumPick
<1>9. SumFunctionOnSet(w, r) \in Int /\ SumFunctionOnSet(v, r) \in Int
  BY <1>7, SumType
<1>10. /\ Chosen(X) \in S /\ w[Chosen(X)] \in Int /\ v[Chosen(X)] \in Int
       /\ u[Chosen(X)] = w[Chosen(X)] + v[Chosen(X)]
  BY <1>4
<1>11. SumFunctionOnSet(u, X) = SumFunctionOnSet(w, X) + SumFunctionOnSet(v, X)
  BY <1>6, <1>8, <1>9, <1>10
<1> QED
  BY <1>11

\* Naturals have a natural sum ...
LEMMA SumNat ==
  ASSUME NEW w, NEW S, IsFiniteSet(S), \A x \in S : w[x] \in Nat
  PROVE  SumFunctionOnSet(w, S) \in Nat
<1> DEFINE T == {X \in SUBSET S : SumFunctionOnSet(w, X) \notin Nat}
<1> SUFFICES ASSUME T # {} PROVE FALSE
  OBVIOUS
<1>0. T \in SUBSET SUBSET S
  OBVIOUS
<1>1. PICK X \in T : \A Y \in T : Y \subseteq X => Y = X
  <2> HIDE DEF T
  <2> QED
    BY <1>0, Smallest
<1>2. IsFiniteSet(X)
  BY FS_Subset
<1>3. X # {}
  BY SumNone
<1>4. /\ Chosen(X) \in X /\ X \ {Chosen(X)} \in SUBSET S
      /\ X \ {Chosen(X)} \subseteq X /\ X \ {Chosen(X)} # X
  BY <1>3, ChosenIn
<1>5. SumFunctionOnSet(w, X \ {Chosen(X)}) \in Nat
  BY <1>1, <1>4
<1> QED
  BY <1>2, <1>3, <1>4, <1>5, SumPick

\* ... which is zero only if they all are.
LEMMA SumZero ==
  ASSUME NEW w, NEW S, IsFiniteSet(S), \A x \in S : w[x] \in Nat,
         SumFunctionOnSet(w, S) = 0
  PROVE  \A x \in S : w[x] = 0
<1> SUFFICES ASSUME NEW x \in S PROVE w[x] = 0
  OBVIOUS
<1>1. SumFunctionOnSet(w, S) = w[x] + SumFunctionOnSet(w, S \ {x})
  BY SumDrop
<1>2. PICK r : r = S \ {x}
  OBVIOUS
<1>3. IsFiniteSet(r) /\ \A y \in r : w[y] \in Nat
  BY <1>2, FS_Subset
<1>4. SumFunctionOnSet(w, r) \in Nat
  BY <1>3, SumNat
<1> QED
  BY <1>1, <1>2, <1>4

\* A number and its opposite, from their sum.
LEMMA Opposites == \A m, n, k \in Int : k = m + n /\ k = k + k => n = -m
  OBVIOUS

\* Zero is its own opposite.
LEMMA OppositeOfZero == \A m, n \in Int : n = 0 /\ m = -n => m = 0
<1>1. ASSUME NEW o \in Int, o = 0 PROVE o = -o
  <2>1. o = o + o
    BY <1>1
  <2> QED BY <2>1, Opposites
<1> QED BY <1>1

\* Opposite functions have opposite sums.
LEMMA SumOpposite ==
  ASSUME NEW w, NEW v, NEW S, IsFiniteSet(S),
         \A x \in S : w[x] \in Int /\ v[x] = -w[x]
  PROVE  SumFunctionOnSet(v, S) = -SumFunctionOnSet(w, S)
<1> DEFINE z == [x \in S |-> 0]
<1>1. SumFunctionOnSet(z, S) = SumFunctionOnSet(w, S) + SumFunctionOnSet(v, S)
  BY SumPlus
<1>2. SumFunctionOnSet(z, S) = SumFunctionOnSet(z, S) + SumFunctionOnSet(z, S)
  BY SumPlus
<1>3. \A x \in S : z[x] \in Int /\ v[x] \in Int
  OBVIOUS
<1> HIDE DEF z
<1>4. SumFunctionOnSet(w, S) \in Int /\ SumFunctionOnSet(v, S) \in Int
      /\ SumFunctionOnSet(z, S) \in Int
  BY <1>3, SumType
<1> QED
  BY <1>1, <1>2, <1>4, Opposites

\* A sum over part of a set, of what is nothing elsewhere.
LEMMA SumPart ==
  ASSUME NEW S, IsFiniteSet(S), NEW R \in SUBSET S, NEW w, NEW v,
         \A x \in S : v[x] \in Int, \A x \in S \ R : v[x] = 0, \A x \in R : w[x] = v[x]
  PROVE  SumFunctionOnSet(w, R) = SumFunctionOnSet(v, S)
<1>1. IsFiniteSet(R)
  BY FS_Subset
<1>2. SumFunctionOnSet(w, R) = SumFunctionOnSet(v, R)
  BY <1>1, SumSame
<1>3. SumFunctionOnSet(v, S) = SumFunctionOnSet(v, R)
  BY SumSupport
<1> QED BY <1>2, <1>3

(***************************************************************************)
(* Folds                                                                   *)
(***************************************************************************)
\* What holds of 0 and passes from each number to the next holds up to n.
LEMMA UpTo ==
  ASSUME NEW n \in Nat, NEW P, 0 \in P, \A i \in 1..n : i - 1 \in P => i \in P
  PROVE  \A i \in 0..n : i \in P
<1> DEFINE S == 0..n
           T == {X \in SUBSET S : \E k \in S : k \notin P /\ X = 0..k}
<1> SUFFICES ASSUME T # {} PROVE FALSE
  <2> SUFFICES ASSUME NEW i \in 0..n, i \notin P PROVE FALSE
    OBVIOUS
  <2>1. 0..i \in T
    <3>1. 0..i \in SUBSET S
      OBVIOUS
    <3> QED BY <3>1
  <2> HIDE DEF T
  <2> QED BY <2>1
<1>1. IsFiniteSet(S)
  BY FS_Interval
<1>2. T \in SUBSET SUBSET S
  OBVIOUS
<1>3. PICK X \in T : \A Y \in T : Y \subseteq X => Y = X
  <2> HIDE DEF T, S
  <2> QED BY <1>1, <1>2, Smallest
<1>4. PICK k \in S : k \notin P /\ X = 0..k
  OBVIOUS
<1>5. k \in 1..n
  BY <1>4
<1>6. k - 1 \notin P /\ k - 1 \in S
  BY <1>4, <1>5
<1>7. 0..(k - 1) \in SUBSET S
  BY <1>5
<1>8. 0..(k - 1) \in T
  BY <1>6, <1>7
<1>9. 0..(k - 1) \subseteq X /\ k \in X /\ k \notin 0..(k - 1)
  BY <1>4, <1>5
<1> QED
  <2> HIDE DEF T
  <2> QED BY <1>3, <1>8, <1>9

Latest(s) == CHOOSE x \in s : \A y \in s : x >= y

\* The last of the numbers from 1 to k, and of a set that holds k.
LEMMA LatestIs ==
  ASSUME NEW k \in Nat, NEW s \in SUBSET (1..(k + 1))
  PROVE  k + 1 \in s => Latest(s) = k + 1
<1> SUFFICES ASSUME k + 1 \in s PROVE Latest(s) = k + 1
  OBVIOUS
<1>1. \A y \in s : y \in Int /\ k + 1 >= y
  OBVIOUS
<1>2. Latest(s) \in s /\ \A y \in s : Latest(s) >= y
  BY <1>1 DEF Latest
<1>3. Latest(s) >= k + 1 /\ k + 1 >= Latest(s) /\ Latest(s) \in Int
  BY <1>1, <1>2
<1> QED
  BY <1>3

\* The last of some numbers is one of them.
LEMMA LatestIn ==
  ASSUME NEW k \in Nat, NEW s \in SUBSET (1..k), s # {}
  PROVE  Latest(s) \in s
<1> DEFINE P == {i \in 0..k : \A t \in SUBSET (1..i) : t # {} => Latest(t) \in t}
<1>1. 0 \in P
  <2>1. \A t \in SUBSET (1..0) : t = {}
    OBVIOUS
  <2>2. 0 \in 0..k
    OBVIOUS
  <2> QED BY <2>1, <2>2
<1>2. ASSUME NEW i \in 1..k, i - 1 \in P PROVE i \in P
  <2> SUFFICES ASSUME NEW t \in SUBSET (1..i), t # {} PROVE Latest(t) \in t
    OBVIOUS
  <2>1. CASE i \in t
    <3>1. i - 1 \in Nat /\ (i - 1) + 1 = i
      OBVIOUS
    <3>2. Latest(t) = i
      BY <2>1, <3>1, LatestIs
    <3> QED BY <2>1, <3>2
  <2>2. CASE i \notin t
    <3>1. t \in SUBSET (1..(i - 1))
      BY <2>2
    <3> QED BY <1>2, <3>1
  <2> QED BY <2>1, <2>2
<1>3. k \in P
  <2> HIDE DEF P
  <2>1. \A i \in 0..k : i \in P
    BY <1>1, <1>2, UpTo
  <2> QED BY <2>1
<1> QED BY <1>3

\* The recursive function that a left fold over 1..n is the last value of.
IsFold(f, b, step, n) ==
  \A s \in SUBSET (1..n) :
    f[s] = IF s = {} THEN b ELSE step[<<f[s \ {Latest(s)}], Latest(s)>>]

LEMMA FoldExists ==
  ASSUME NEW n \in Nat, NEW A, NEW b \in A, NEW step \in [A \X (1..n) -> A]
  PROVE  \E f \in [SUBSET (1..n) -> A] : IsFold(f, b, step, n)
<1> DEFINE P == {i \in 0..n : \E f \in [SUBSET (1..i) -> A] : IsFold(f, b, step, i)}
<1>1. 0 \in P
  <2> DEFINE f == [s \in SUBSET (1..0) |-> b]
  <2>1. f \in [SUBSET (1..0) -> A] /\ IsFold(f, b, step, 0)
    BY DEF IsFold
  <2>2. \E g \in [SUBSET (1..0) -> A] : IsFold(g, b, step, 0)
    <3> HIDE DEF f
    <3> QED BY <2>1
  <2>3. 0 \in 0..n
    OBVIOUS
  <2> QED BY <2>2, <2>3
<1>2. ASSUME NEW k \in 1..n, k - 1 \in P PROVE k \in P
  <2>1. PICK f \in [SUBSET (1..(k - 1)) -> A] : IsFold(f, b, step, k - 1)
    BY <1>2
  <2> DEFINE g == [s \in SUBSET (1..k) |->
                     IF k \in s THEN step[<<f[s \ {k}], k>>] ELSE f[s]]
  <2>2. ASSUME NEW s \in SUBSET (1..k) PROVE s \ {k} \in SUBSET (1..(k - 1))
    OBVIOUS
  <2>3. g \in [SUBSET (1..k) -> A]
    <3> SUFFICES ASSUME NEW s \in SUBSET (1..k)
                 PROVE  (IF k \in s THEN step[<<f[s \ {k}], k>>] ELSE f[s]) \in A
      OBVIOUS
    <3>1. CASE k \in s
      <4>1. f[s \ {k}] \in A
        BY <2>1, <2>2
      <4> QED BY <3>1, <4>1
    <3>2. CASE k \notin s
      <4>1. s \in SUBSET (1..(k - 1))
        BY <3>2
      <4> QED BY <3>2, <4>1, <2>1
    <3> QED BY <3>1, <3>2
  <2>4. ASSUME NEW s \in SUBSET (1..k)
        PROVE  g[s] = IF s = {} THEN b ELSE step[<<g[s \ {Latest(s)}], Latest(s)>>]
    <3>0. k - 1 \in Nat /\ (k - 1) + 1 = k
      OBVIOUS
    <3>1. CASE k \in s
      <4>1. Latest(s) = k
        BY <3>0, <3>1, LatestIs
      <4>2. s \ {k} \in SUBSET (1..k) /\ k \notin s \ {k}
        OBVIOUS
      <4>3. g[s \ {k}] = f[s \ {k}]
        BY <4>2
      <4> QED BY <3>1, <4>1, <4>3
    <3>2. CASE k \notin s
      <4>1. s \in SUBSET (1..(k - 1))
        BY <3>2
      <4>2. CASE s = {}
        BY <4>1, <4>2, <2>1 DEF IsFold
      <4>3. CASE s # {}
        <5>1. Latest(s) \in s
          BY <3>0, <4>1, <4>3, LatestIn
        <5>2. PICK r : r = s \ {Latest(s)}
          OBVIOUS
        <5>3. r \in SUBSET (1..k) /\ k \notin r
          BY <5>2, <3>2
        <5>4. g[r] = f[r] /\ g[s] = f[s]
          BY <5>3, <3>2
        <5>5. f[s] = step[<<f[r], Latest(s)>>]
          BY <4>1, <4>3, <5>2, <2>1 DEF IsFold
        <5> HIDE DEF g
        <5> QED BY <5>2, <5>4, <5>5, <4>3
      <4> QED BY <4>2, <4>3
    <3> QED BY <3>1, <3>2
  <2>5. IsFold(g, b, step, k)
    <3> HIDE DEF g
    <3> QED BY <2>4 DEF IsFold
  <2>6. \E h \in [SUBSET (1..k) -> A] : IsFold(h, b, step, k)
    <3> HIDE DEF g
    <3> QED BY <2>3, <2>5
  <2> QED BY <2>6
<1>3. n \in P
  <2> HIDE DEF P
  <2>1. \A i \in 0..n : i \in P
    BY <1>1, <1>2, UpTo
  <2> QED BY <2>1
<1> QED BY <1>3

(***************************************************************************)
(* Sums along a sequence                                                   *)
(***************************************************************************)
\* A sum up to a number is the sum up to the one before it and its value.
LEMMA SumUpTo ==
  ASSUME NEW n \in Nat \ {0}, NEW w, \A i \in 1..n : w[i] \in Int
  PROVE  SumFunctionOnSet(w, 1..n) = SumFunctionOnSet(w, 1..(n - 1)) + w[n]
<1>1. IsFiniteSet(1..(n - 1))
  BY FS_Interval
<1>2. n \notin 1..(n - 1) /\ 1..n = 1..(n - 1) \cup {n}
  OBVIOUS
<1> DEFINE S == 1..(n - 1)
<1>3. \A y \in S \cup {n} : w[y] \in Int
  BY <1>2
<1>4. SumFunctionOnSet(w, S \cup {n}) = SumFunctionOnSet(w, S) + w[n]
  <2> HIDE DEF S
  <2>1. IsFiniteSet(S) /\ n \notin S
    BY <1>1, <1>2 DEF S
  <2> QED BY <2>1, <1>3, SumAdd
<1> QED BY <1>2, <1>4

\* A sum up to n + m is the sum up to n and the sum of the m values after it.
LEMMA SumAfter ==
  ASSUME NEW n \in Nat, NEW m \in Nat, NEW w, NEW v,
         \A i \in 1..(n + m) : w[i] \in Int, \A i \in 1..m : v[i] = w[n + i]
  PROVE  SumFunctionOnSet(w, 1..(n + m))
           = SumFunctionOnSet(w, 1..n) + SumFunctionOnSet(v, 1..m)
<1> DEFINE P == {k \in 0..m : SumFunctionOnSet(w, 1..(n + k))
                  = SumFunctionOnSet(w, 1..n) + SumFunctionOnSet(v, 1..k)}
<1>0. \A k \in 0..m : /\ SumFunctionOnSet(w, 1..(n + k)) \in Int
                      /\ SumFunctionOnSet(v, 1..k) \in Int
  <2> SUFFICES ASSUME NEW k \in 0..m
               PROVE  /\ SumFunctionOnSet(w, 1..(n + k)) \in Int
                      /\ SumFunctionOnSet(v, 1..k) \in Int
    OBVIOUS
  <2>1. IsFiniteSet(1..(n + k)) /\ IsFiniteSet(1..k)
    <3>1. n + k \in Nat /\ k \in Nat
      OBVIOUS
    <3> QED BY <3>1, FS_Interval
  <2>2. \A i \in 1..(n + k) : w[i] \in Int
    OBVIOUS
  <2>3. \A i \in 1..k : v[i] \in Int
    OBVIOUS
  <2>4. SumFunctionOnSet(w, 1..(n + k)) \in Int
    BY <2>1, <2>2, SumType
  <2>5. SumFunctionOnSet(v, 1..k) \in Int
    BY <2>1, <2>3, SumType
  <2> QED BY <2>4, <2>5
<1>1. 0 \in P
  <2>1. SumFunctionOnSet(v, {}) = 0
    BY SumNone
  <2>2. 1..0 = {} /\ 0 \in 0..m /\ n + 0 = n
    OBVIOUS
  <2>3. SumFunctionOnSet(w, 1..n) \in Int
    BY <1>0, <2>2
  <2> QED BY <2>1, <2>2, <2>3
<1>2. ASSUME NEW k \in 1..m, k - 1 \in P PROVE k \in P
  <2>0. n + k \in Nat \ {0} /\ k \in Nat \ {0} /\ (n + k) - 1 = n + (k - 1)
    OBVIOUS
  <2>1. SumFunctionOnSet(w, 1..(n + k)) = SumFunctionOnSet(w, 1..(n + (k - 1))) + w[n + k]
    <3>1. \A i \in 1..(n + k) : w[i] \in Int
      OBVIOUS
    <3>2. SumFunctionOnSet(w, 1..(n + k)) = SumFunctionOnSet(w, 1..((n + k) - 1)) + w[n + k]
      BY <2>0, <3>1, SumUpTo
    <3> QED BY <2>0, <3>2
  <2>2. SumFunctionOnSet(v, 1..k) = SumFunctionOnSet(v, 1..(k - 1)) + v[k]
    <3>1. \A i \in 1..k : v[i] \in Int
      OBVIOUS
    <3> QED BY <2>0, <3>1, SumUpTo
  <2>3. /\ SumFunctionOnSet(w, 1..(n + (k - 1)))
             = SumFunctionOnSet(w, 1..n) + SumFunctionOnSet(v, 1..(k - 1))
        /\ v[k] = w[n + k] /\ v[k] \in Int
    BY <1>2
  <2>4. SumFunctionOnSet(w, 1..n) \in Int /\ SumFunctionOnSet(v, 1..(k - 1)) \in Int
    <3>1. 0 \in 0..m /\ n + 0 = n /\ k - 1 \in 0..m
      OBVIOUS
    <3>2. SumFunctionOnSet(w, 1..(n + 0)) \in Int /\ SumFunctionOnSet(v, 1..(k - 1)) \in Int
      BY <1>0, <3>1
    <3> QED BY <3>1, <3>2
  <2>5. SumFunctionOnSet(w, 1..(n + k)) = SumFunctionOnSet(w, 1..n) + SumFunctionOnSet(v, 1..k)
    BY <2>1, <2>2, <2>3, <2>4
  <2>6. k \in 0..m
    OBVIOUS
  <2> QED BY <2>5, <2>6
<1>3. m \in P
  <2> HIDE DEF P
  <2>1. \A i \in 0..m : i \in P
    BY <1>1, <1>2, UpTo
  <2> QED BY <2>1
<1> QED BY <1>3

\* The sum over a list one longer.
LEMMA SumAppended ==
  ASSUME NEW n \in Nat, NEW u, NEW w, NEW x \in Int, \A j \in 1..n : u[j] \in Int /\ w[j] = u[j],
         w[n + 1] = x
  PROVE  SumFunctionOnSet(w, 1..(n + 1)) = SumFunctionOnSet(u, 1..n) + x
<1>1. 1..(n + 1) = 1..n \cup {n + 1} /\ n + 1 \notin 1..n
  OBVIOUS
<1>2. IsFiniteSet(1..n)
  BY FS_Interval
<1>3. \A j \in 1..n \cup {n + 1} : w[j] \in Int
  BY <1>1
<1>4. SumFunctionOnSet(w, 1..n \cup {n + 1}) = SumFunctionOnSet(w, 1..n) + w[n + 1]
  <2> DEFINE S == 1..n
             m == n + 1
  <2>1. IsFiniteSet(S) /\ m \notin S /\ \A j \in S \cup {m} : w[j] \in Int
    BY <1>1, <1>2, <1>3
  <2> HIDE DEF S, m
  <2>2. SumFunctionOnSet(w, S \cup {m}) = SumFunctionOnSet(w, S) + w[m]
    BY <2>1, SumAdd
  <2> QED BY <2>2 DEF S, m
<1>5. SumFunctionOnSet(w, 1..n) = SumFunctionOnSet(u, 1..n)
  BY <1>2, SumSame
<1> QED BY <1>1, <1>4, <1>5
=============================================================================

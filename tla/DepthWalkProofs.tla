-------------------------- MODULE DepthWalkProofs --------------------------
(***************************************************************************)
(* For every book, real or made up, and every volume asked for: the walk   *)
(* returns one of Fills, on which the executor's accounting rests, and     *)
(* never gives up while the book has levels left.                          *)
(***************************************************************************)
EXTENDS DepthWalk, TLAPS, FiniteSets, FiniteSetTheorems, WellFoundedInduction

-----------------------------------------------------------------------------
(* Sums over finite sets, for every function: the facts from which all others *)
(* follow are SumOfNone and SumSplit.                                         *)

\* Among finite sets, a collection that is not empty has a member none of
\* whose subsets short of one element belongs to it: induction over a set.
LEMMA SmallestSet ==
    ASSUME NEW T, NEW any \in T, \A s \in T : IsFiniteSet(s)
    PROVE  \E s \in T : \A x \in s : s \ {x} \notin T
<1> DEFINE sizes == {Cardinality(s) : s \in T}
<1>1. \A s \in T : Cardinality(s) \in Nat
  BY FS_CardinalityType
<1>2. sizes \subseteq Nat /\ Cardinality(any) \in sizes
  BY <1>1
<1>3. PICK R : R = OpToRel(<, Nat)
  OBVIOUS
<1>4. IsWellFoundedOn(R, Nat)
  BY <1>3, NatLessThanWellFounded
<1>5. PICK n \in sizes : \A m \in sizes : ~(<<m, n>> \in R)
  <2> HIDE DEF sizes
  <2> QED BY <1>2, <1>4, WFMin
<1>6. \A m \in sizes : ~(m < n)
  BY <1>2, <1>3, <1>5 DEF OpToRel
<1>7. PICK s \in T : Cardinality(s) = n
  BY <1>5
<1>8. ASSUME NEW x \in s, s \ {x} \in T PROVE FALSE
  <2>1. Cardinality(s \ {x}) = Cardinality(s) - 1
    BY <1>7, FS_RemoveElement
  <2>2. Cardinality(s \ {x}) \in sizes
    BY <1>8
  <2> HIDE DEF sizes
  <2> QED BY <1>1, <1>6, <1>7, <2>1, <2>2
<1> QED BY <1>7, <1>8

\* The recursion a sum is defined by, on all subsets of a set.
One(s) == CHOOSE x \in s : TRUE
Sums(sum, a, S) ==
    sum = [s \in SUBSET S |-> IF s = {} THEN 0 ELSE a[One(s)] + sum[s \ {One(s)}]]

LEMMA OneOf == ASSUME NEW s, s # {} PROVE One(s) \in s
  BY DEF One

LEMMA SumsExist ==
    ASSUME NEW a, NEW S, IsFiniteSet(S)
    PROVE  \E sum : Sums(sum, a, S)
<1> DEFINE Upto(n) == {s \in SUBSET S : Cardinality(s) <= n}
           Body(g, s) == IF s = {} THEN 0 ELSE a[One(s)] + g[s \ {One(s)}]
           Good(n) == \E g : g = [s \in Upto(n) |-> Body(g, s)]
           bad == {s \in SUBSET S : ~Good(Cardinality(s))}
<1>0. \A s \in SUBSET S : IsFiniteSet(s) /\ Cardinality(s) \in Nat
  BY FS_Subset, FS_CardinalityType
<1>1. ASSUME NEW s \in bad, \A x \in s : s \ {x} \notin bad
      PROVE  FALSE
  <2>1. CASE s = {}
    <3>1. Cardinality(s) = 0
      BY <2>1, FS_EmptySet
    <3>2. Upto(0) = {{}}
      BY <1>0, FS_EmptySet
    <3>3. Good(0)
      <4>1. PICK g : g = [t \in Upto(0) |-> 0]
        OBVIOUS
      <4>2. \A t \in Upto(0) : Body(g, t) = 0
        BY <3>2
      <4>3. g = [t \in Upto(0) |-> Body(g, t)]
        BY <4>1, <4>2
      <4> QED BY <4>3
    <3> QED BY <3>1, <3>3
  <2>2. CASE s # {}
    <3>1. PICK x \in s : TRUE
      BY <2>2
    <3> DEFINE n == Cardinality(s \ {x})
    <3>2. Cardinality(s) = n + 1 /\ n \in Nat
      BY <1>0, <3>1, FS_RemoveElement
    <3>3. Good(n)
      BY <1>1, <3>1
    <3> HIDE DEF n
    <3>4. PICK g : g = [t \in Upto(n) |-> Body(g, t)]
      BY <3>3
    <3>5. PICK h : h = [t \in Upto(n + 1) |-> Body(g, t)]
      OBVIOUS
    <3>6. \A t \in Upto(n) : t \in Upto(n + 1) /\ h[t] = g[t]
      <4>1. \A t \in Upto(n) : t \in Upto(n + 1)
        BY <1>0, <3>2
      <4>2. ASSUME NEW t \in Upto(n) PROVE h[t] = g[t]
        <5> HIDE DEF Body
        <5>1. h[t] = Body(g, t)
          BY <3>5, <4>1
        <5>2. g[t] = Body(g, t)
          BY <3>4
        <5> QED BY <5>1, <5>2
      <4> QED BY <4>1, <4>2
    <3>7. ASSUME NEW t \in Upto(n + 1) PROVE Body(g, t) = Body(h, t)
      <4>1. CASE t # {}
        <5>1. One(t) \in t
          BY <4>1, OneOf
        <5>2. Cardinality(t \ {One(t)}) = Cardinality(t) - 1
          BY <1>0, <5>1, FS_RemoveElement
        <5>3. t \ {One(t)} \in Upto(n)
          BY <1>0, <3>2, <5>2
        <5> QED BY <3>6, <5>3
      <4> QED BY <4>1
    <3>8. h = [t \in Upto(n + 1) |-> Body(h, t)]
      <4> HIDE DEF Body, Upto
      <4> QED BY <3>5, <3>7
    <3>9. Good(n + 1)
      BY <3>8
    <3> QED BY <3>2, <3>9
  <2> QED BY <2>1, <2>2
<1>2. bad = {}
  BY <1>0, <1>1, SmallestSet
<1>3. Good(Cardinality(S))
  BY <1>2
<1>4. Upto(Cardinality(S)) = SUBSET S
  BY FS_Subset
<1>5. PICK g : g = [s \in Upto(Cardinality(S)) |-> Body(g, s)]
  BY <1>3
<1>6. g = [s \in SUBSET S |-> Body(g, s)]
  BY <1>4, <1>5
<1> QED BY <1>6 DEF Sums

LEMMA SumsInt ==
    ASSUME NEW a, NEW S, IsFiniteSet(S), \A i \in S : a[i] \in Int,
           NEW sum, Sums(sum, a, S)
    PROVE  \A s \in SUBSET S : sum[s] \in Int
<1> DEFINE bad == {s \in SUBSET S : sum[s] \notin Int}
<1>1. \A s \in SUBSET S :
        /\ s = {} => sum[s] = 0
        /\ s # {} => sum[s] = a[One(s)] + sum[s \ {One(s)}]
  BY DEF Sums
<1>2. ASSUME NEW s \in bad, \A x \in s : s \ {x} \notin bad
      PROVE  FALSE
  <2>1. s \in SUBSET S /\ sum[s] \notin Int
    OBVIOUS
  <2>1a. s # {}
    <3>1. CASE s = {}
      <4>1. sum[s] = 0
        BY <1>1, <2>1, <3>1
      <4> QED BY <2>1, <4>1
    <3> QED BY <3>1
  <2>2. One(s) \in s /\ sum[s] = a[One(s)] + sum[s \ {One(s)}]
    BY <1>1, <2>1, <2>1a, OneOf
  <2>3. sum[s \ {One(s)}] \in Int /\ a[One(s)] \in Int
    BY <1>2, <2>1, <2>2
  <2> QED BY <2>1, <2>2, <2>3
<1> QED BY <1>2, SmallestSet, FS_Subset

\* Whatever element is taken out first, the sum is the same.
LEMMA SumsSplit ==
    ASSUME NEW a, NEW S, IsFiniteSet(S), \A i \in S : a[i] \in Int,
           NEW sum, Sums(sum, a, S)
    PROVE  \A s \in SUBSET S : \A x \in s : sum[s] = a[x] + sum[s \ {x}]
<1> DEFINE bad == {s \in SUBSET S : ~ \A x \in s : sum[s] = a[x] + sum[s \ {x}]}
<1>1. \A s \in SUBSET S : sum[s] \in Int
  BY SumsInt
<1>2. ASSUME NEW s \in bad, \A x \in s : s \ {x} \notin bad
      PROVE  FALSE
  <2> DEFINE c == One(s)
  <2>1. c \in s /\ sum[s] = a[c] + sum[s \ {c}]
    BY OneOf DEF Sums
  <2> HIDE DEF c
  <2>2. ASSUME NEW x \in s, x # c PROVE sum[s] = a[x] + sum[s \ {x}]
    <3>1. (s \ {c}) \ {x} = (s \ {x}) \ {c}
      OBVIOUS
    <3>2. /\ sum[s \ {c}] = a[x] + sum[(s \ {c}) \ {x}]
          /\ sum[s \ {x}] = a[c] + sum[(s \ {x}) \ {c}]
      BY <1>2, <2>1, <2>2
    <3>3. sum[(s \ {c}) \ {x}] \in Int /\ a[c] \in Int /\ a[x] \in Int
      BY <1>1, <2>1
    <3> DEFINE rest == sum[(s \ {c}) \ {x}]
    <3>4. sum[s] = a[c] + (a[x] + rest)
      BY <2>1, <3>2
    <3>5. sum[s \ {x}] = a[c] + rest
      BY <3>1, <3>2
    <3> HIDE DEF rest
    <3> QED BY <3>3, <3>4, <3>5 DEF rest
  <2> QED BY <2>1, <2>2
<1> QED BY <1>2, SmallestSet, FS_Subset

LEMMA SumDef ==
    ASSUME NEW a, NEW S, IsFiniteSet(S)
    PROVE  \E sum : Sums(sum, a, S) /\ SumFunctionOnSet(a, S) = sum[S]
<1> DEFINE g == CHOOSE sum : Sums(sum, a, S)
<1>1. Sums(g, a, S)
  BY SumsExist
<1>2. SumFunctionOnSet(a, S) = g[S]
  BY DEF SumFunctionOnSet, FoldFunctionOnSet, MapThenFoldSet, Sums, One
<1> QED BY <1>1, <1>2

LEMMA SumOfNone == ASSUME NEW a PROVE SumFunctionOnSet(a, {}) = 0
<1>1. PICK sum : Sums(sum, a, {}) /\ SumFunctionOnSet(a, {}) = sum[{}]
  BY SumDef, FS_EmptySet
<1> QED BY <1>1 DEF Sums

\* A sum of integers is an integer, and any term may be split off it.
LEMMA SumSplit ==
    ASSUME NEW a, NEW S, IsFiniteSet(S), \A i \in S : a[i] \in Int
    PROVE  /\ SumFunctionOnSet(a, S) \in Int
           /\ \A x \in S : SumFunctionOnSet(a, S) = a[x] + SumFunctionOnSet(a, S \ {x})
<1>1. PICK sum : Sums(sum, a, S) /\ SumFunctionOnSet(a, S) = sum[S]
  BY SumDef
<1>2. SumFunctionOnSet(a, S) \in Int
  BY <1>1, SumsInt
<1>3. ASSUME NEW x \in S
      PROVE  SumFunctionOnSet(a, S) = a[x] + SumFunctionOnSet(a, S \ {x})
  <2>1. IsFiniteSet(S \ {x})
    BY FS_Subset
  <2>2. PICK rest : Sums(rest, a, S \ {x}) /\ SumFunctionOnSet(a, S \ {x}) = rest[S \ {x}]
    BY <2>1, SumDef
  <2> DEFINE bad == {s \in SUBSET (S \ {x}) : sum[s] # rest[s]}
  <2>3. ASSUME NEW s \in bad, \A y \in s : s \ {y} \notin bad
        PROVE  FALSE
    <3>1. sum[s] = IF s = {} THEN 0 ELSE a[One(s)] + sum[s \ {One(s)}]
      BY <1>1 DEF Sums
    <3>2. rest[s] = IF s = {} THEN 0 ELSE a[One(s)] + rest[s \ {One(s)}]
      BY <2>2 DEF Sums
    <3>3. s # {} => sum[s \ {One(s)}] = rest[s \ {One(s)}]
      BY <2>3, OneOf
    <3> QED BY <3>1, <3>2, <3>3
  <2>4. bad = {}
    BY <2>1, <2>3, SmallestSet, FS_Subset
  <2> QED BY <1>1, <2>2, <2>4, SumsSplit
<1> QED BY <1>2, <1>3

\* Sums keep the order of their terms.
LEMMA SumMonotone ==
    ASSUME NEW a, NEW b, NEW S, IsFiniteSet(S),
           \A i \in S : a[i] \in Int /\ b[i] \in Int /\ a[i] <= b[i]
    PROVE  SumFunctionOnSet(a, S) <= SumFunctionOnSet(b, S)
<1> DEFINE bad == {s \in SUBSET S : ~(SumFunctionOnSet(a, s) <= SumFunctionOnSet(b, s))}
<1>1. \A s \in SUBSET S : IsFiniteSet(s)
  BY FS_Subset
<1>2. ASSUME NEW s \in bad, \A y \in s : s \ {y} \notin bad
      PROVE  FALSE
  <2>1. PICK y \in s : TRUE
    BY SumOfNone
  <2>2. /\ SumFunctionOnSet(a, s) = a[y] + SumFunctionOnSet(a, s \ {y})
        /\ SumFunctionOnSet(b, s) = b[y] + SumFunctionOnSet(b, s \ {y})
        /\ SumFunctionOnSet(a, s \ {y}) \in Int
        /\ SumFunctionOnSet(b, s \ {y}) \in Int
    BY <1>1, <2>1, SumSplit
  <2>3. SumFunctionOnSet(a, s \ {y}) <= SumFunctionOnSet(b, s \ {y})
    BY <1>2, <2>1
  <2> QED BY <2>1, <2>2, <2>3
<1> QED BY <1>1, <1>2, SmallestSet

\* Sums of two functions add up, and a factor of every term is one of the sum.
LEMMA SumLinear ==
    ASSUME NEW a, NEW b, NEW c, NEW p \in Int, NEW S, IsFiniteSet(S),
           \A i \in S : a[i] \in Int /\ b[i] \in Int /\ c[i] = a[i] + b[i] * p
    PROVE  SumFunctionOnSet(c, S) = SumFunctionOnSet(a, S) + SumFunctionOnSet(b, S) * p
<1> DEFINE bad == {s \in SUBSET S : SumFunctionOnSet(c, s) # SumFunctionOnSet(a, s) + SumFunctionOnSet(b, s) * p}
<1>1. \A s \in SUBSET S : IsFiniteSet(s)
  BY FS_Subset
<1>2. ASSUME NEW s \in bad, \A y \in s : s \ {y} \notin bad
      PROVE  FALSE
  <2> DEFINE A(t) == SumFunctionOnSet(a, t)
             B(t) == SumFunctionOnSet(b, t)
             C(t) == SumFunctionOnSet(c, t)
  <2>0. s # {}
    <3>1. A({}) = 0 /\ B({}) = 0 /\ C({}) = 0
      BY SumOfNone
    <3>2. C(s) # A(s) + B(s) * p
      OBVIOUS
    <3> HIDE DEF A, B, C
    <3> QED BY <3>1, <3>2
  <2>1. PICK y \in s : TRUE
    BY <2>0
  <2> DEFINE x == SumFunctionOnSet(a, s \ {y})
             z == SumFunctionOnSet(b, s \ {y})
  <2>2. \A i \in S : c[i] \in Int
    OBVIOUS
  <2>3. /\ SumFunctionOnSet(a, s) = a[y] + x
        /\ SumFunctionOnSet(b, s) = b[y] + z
        /\ SumFunctionOnSet(c, s) = c[y] + SumFunctionOnSet(c, s \ {y})
        /\ x \in Int /\ z \in Int
    BY <1>1, <2>1, <2>2, SumSplit
  <2>4. SumFunctionOnSet(c, s \ {y}) = x + z * p
    BY <1>2, <2>1
  <2>5. a[y] \in Int /\ b[y] \in Int /\ c[y] = a[y] + b[y] * p
    BY <2>1
  <2> HIDE DEF x, z
  <2>6. (b[y] + z) * p = b[y] * p + z * p
    BY <2>3, <2>5
  <2>7. SumFunctionOnSet(c, s) = SumFunctionOnSet(a, s) + SumFunctionOnSet(b, s) * p
    BY <2>3, <2>4, <2>5, <2>6
  <2> QED BY <2>7
<1> QED BY <1>1, <1>2, SmallestSet

\* Only the terms matter.
LEMMA SumSame ==
    ASSUME NEW a, NEW b, NEW S, IsFiniteSet(S), \A i \in S : a[i] \in Int /\ a[i] = b[i]
    PROVE  SumFunctionOnSet(a, S) = SumFunctionOnSet(b, S)
<1>1. /\ \A i \in S : a[i] \in Int /\ b[i] \in Int /\ a[i] <= b[i]
      /\ \A i \in S : a[i] \in Int /\ b[i] \in Int /\ b[i] <= a[i]
  OBVIOUS
<1>2. SumFunctionOnSet(a, S) <= SumFunctionOnSet(b, S) /\ SumFunctionOnSet(b, S) <= SumFunctionOnSet(a, S)
  BY <1>1, SumMonotone
<1>3. SumFunctionOnSet(a, S) \in Int /\ SumFunctionOnSet(b, S) \in Int
  BY <1>1, SumSplit
<1> QED BY <1>2, <1>3

\* A sum of equal terms.
LEMMA SumConstant ==
    ASSUME NEW a, NEW S, IsFiniteSet(S), NEW v \in Int, \A i \in S : a[i] = v
    PROVE  SumFunctionOnSet(a, S) = Cardinality(S) * v
<1> DEFINE A(s) == SumFunctionOnSet(a, s)
           bad == {s \in SUBSET S : A(s) # Cardinality(s) * v}
<1>1. \A s \in SUBSET S : IsFiniteSet(s) /\ Cardinality(s) \in Nat
  BY FS_Subset, FS_CardinalityType
<1>2. ASSUME NEW s \in bad, \A y \in s : s \ {y} \notin bad
      PROVE  FALSE
  <2>1. s # {}
    <3>1. A({}) = 0 /\ Cardinality({}) * v = 0
      BY SumOfNone, FS_EmptySet
    <3> HIDE DEF A
    <3> QED BY <3>1
  <2>2. PICK y \in s : TRUE
    BY <2>1
  <2>3. A(s) = v + A(s \ {y})
    BY <1>1, <2>2, SumSplit
  <2>4. A(s \ {y}) = Cardinality(s \ {y}) * v
    BY <1>2, <2>2
  <2>5. Cardinality(s \ {y}) = Cardinality(s) - 1 /\ Cardinality(s) \in Nat
    BY <1>1, <2>2, FS_RemoveElement
  <2>6. (Cardinality(s) - 1) * v = Cardinality(s) * v - v
    BY <2>5
  <2>7. A(s) # Cardinality(s) * v
    OBVIOUS
  <2> HIDE DEF A
  <2> DEFINE product == Cardinality(s) * v
  <2>8. product \in Int /\ A(s) = v + (product - v)
    BY <2>3, <2>4, <2>5, <2>6
  <2> HIDE DEF product
  <2>9. A(s) = product
    BY <2>8
  <2> QED BY <2>7, <2>9 DEF product
<1> QED BY <1>1, <1>2, SmallestSet

\* A sum follows a change of one term.
LEMMA SumUpdate ==
    ASSUME NEW a, NEW b, NEW S, IsFiniteSet(S), NEW x \in S,
           \A i \in S : a[i] \in Int /\ b[i] \in Int,
           \A i \in S \ {x} : a[i] = b[i]
    PROVE  SumFunctionOnSet(b, S) = SumFunctionOnSet(a, S) - a[x] + b[x]
<1> DEFINE rest == SumFunctionOnSet(a, S \ {x})
<1>1. IsFiniteSet(S \ {x})
  BY FS_Subset
<1>2. rest \in Int /\ SumFunctionOnSet(b, S \ {x}) = rest
  BY <1>1, SumSplit, SumSame
<1>3. SumFunctionOnSet(a, S) = a[x] + rest /\ SumFunctionOnSet(b, S) = b[x] + rest
  BY <1>2, SumSplit
<1>4. a[x] \in Int /\ b[x] \in Int
  OBVIOUS
<1> HIDE DEF rest
<1> QED BY <1>2, <1>3, <1>4

\* To move quantity to where the price is on the other side of P only raises
\* the value of a whole.
LEMMA Rearranged ==
    ASSUME NEW S, IsFiniteSet(S), NEW P \in Int,
           NEW t \in [S -> Int], NEW w \in [S -> Int], NEW p \in [S -> Int],
           \A i \in S : t[i] * p[i] + w[i] * P <= w[i] * p[i] + t[i] * P,
           SumFunctionOnSet(t, S) = SumFunctionOnSet(w, S)
    PROVE  SumFunctionOnSet([i \in S |-> t[i] * p[i]], S)
             <= SumFunctionOnSet([i \in S |-> w[i] * p[i]], S)
<1> DEFINE tp == [i \in S |-> t[i] * p[i]]
           wp == [i \in S |-> w[i] * p[i]]
           lower == [i \in S |-> tp[i] + w[i] * P]
           upper == [i \in S |-> wp[i] + t[i] * P]
<1>1. \A i \in S : /\ t[i] \in Int /\ w[i] \in Int /\ tp[i] \in Int /\ wp[i] \in Int
                   /\ lower[i] = tp[i] + w[i] * P /\ upper[i] = wp[i] + t[i] * P
                   /\ lower[i] <= upper[i]
  OBVIOUS
<1> HIDE DEF tp, wp, lower, upper
<1>2. \A i \in S : lower[i] \in Int /\ upper[i] \in Int
  BY <1>1
<1>3. SumFunctionOnSet(lower, S) <= SumFunctionOnSet(upper, S)
  BY <1>1, <1>2, SumMonotone
<1>4. /\ SumFunctionOnSet(lower, S) = SumFunctionOnSet(tp, S) + SumFunctionOnSet(w, S) * P
      /\ SumFunctionOnSet(upper, S) = SumFunctionOnSet(wp, S) + SumFunctionOnSet(t, S) * P
  BY <1>1, SumLinear
<1>5. SumFunctionOnSet(tp, S) \in Int /\ SumFunctionOnSet(wp, S) \in Int
      /\ SumFunctionOnSet(t, S) \in Int
  BY <1>1, SumSplit
<1> DEFINE total == SumFunctionOnSet(t, S) * P
<1>6. total \in Int
  BY <1>5
<1>7. /\ SumFunctionOnSet(lower, S) = SumFunctionOnSet(tp, S) + total
      /\ SumFunctionOnSet(upper, S) = SumFunctionOnSet(wp, S) + total
  BY <1>4
<1> HIDE DEF total
<1> QED BY <1>3, <1>5, <1>6, <1>7 DEF tp, wp

-----------------------------------------------------------------------------
(* The walk. *)


\* The inductive invariant: the typing, and the running sums in terms of each
\* other.  The bounds on costSum hold level by level.
Inv ==
    /\ TypeOK
    /\ target \in Targets
    /\ filled <= target
    /\ costSum >= MinPrice * filled
    /\ costSum <= MaxPrice * filled
    /\ pc = "done" => filled = target \/ next > Len(levels)

\* Multiplying by a quantity keeps an order of prices.
LEMMA Monotone ==
    ASSUME NEW q \in Nat, NEW a \in Nat, NEW b \in Nat, a <= b
    PROVE  /\ q * a \in Nat /\ q * b \in Nat
           /\ a * q \in Nat /\ b * q \in Nat
           /\ a * q <= q * b /\ q * a <= b * q
           /\ a * q = q * a /\ b * q = q * b
  <1>1. PICK d \in Nat : b = a + d
    <2>1. b - a \in Nat /\ b = a + (b - a)
      OBVIOUS
    <2> QED BY <2>1
  <1>2. q * a \in Nat /\ q * d \in Nat /\ q * (a + d) = q * a + q * d
    OBVIOUS
  <1>3. a * q = q * a /\ b * q = q * b
    OBVIOUS
  <1> QED BY <1>1, <1>2, <1>3

\* A quantity times a sum of quantities: costs of fills add up.
LEMMA Distributes ==
    ASSUME NEW p \in Nat, NEW f \in Nat, NEW t \in Nat
    PROVE  p * (f + t) = p * f + p * t /\ p * f \in Nat /\ p * t \in Nat
  OBVIOUS

\* Books the program makes up are sequences of levels, like real ones.
LEMMA BooksAreLevels ==
    ASSUME NEW s \in Sides, NEW bbo \in Quotes, NEW book \in LevelsFor(s, bbo)
    PROVE  book \in Seq(Level)
  <1> USE WalkConstants
  <1>1. CASE book \in RealBooks[s]
    BY <1>1 DEF Sides
  <1>2. ASSUME NEW qty \in Quantities, NEW sign \in {-1, 1},
               book = [k \in 1 .. N |-> [price |-> bbo + sign * (Step * (k - 1)), qty |-> qty[k]]]
        PROVE  book \in Seq(Level)
    <2>1. ASSUME NEW k \in 1 .. N
          PROVE  [price |-> bbo + sign * (Step * (k - 1)), qty |-> qty[k]] \in Level
      <3>1. Step * (k - 1) \in Nat /\ Step * (k - 1) <= Step * (N - 1)
        BY Monotone
      <3>2. Step * (N - 1) \in Nat
        OBVIOUS
      <3>3. bbo + sign * (Step * (k - 1)) \in Prices
        BY <3>1, <3>2 DEF Prices
      <3>4. qty[k] \in Nat
        BY DEF Quantities
      <3> QED BY <3>3, <3>4 DEF Level
    <2>2. book \in [1 .. N -> Level]
      BY <1>2, <2>1
    <2> QED BY <2>2
  <1>3. CASE book \in AskLevels(bbo)
    <2>1. PICK qty \in Quantities :
            book = [k \in 1 .. N |-> [price |-> bbo + Step * (k - 1), qty |-> qty[k]]]
      BY <1>3 DEF AskLevels
    <2>2. \A k \in 1 .. N : bbo + Step * (k - 1) = bbo + 1 * (Step * (k - 1))
      BY DEF Prices
    <2> QED BY <1>2, <2>1, <2>2
  <1>4. CASE book \in BidLevels(bbo)
    <2>1. PICK qty \in Quantities :
            book = [k \in 1 .. N |-> [price |-> bbo - Step * (k - 1), qty |-> qty[k]]]
      BY <1>4 DEF BidLevels
    <2>2. \A k \in 1 .. N : bbo - Step * (k - 1) = bbo + (-1) * (Step * (k - 1))
      BY DEF Prices
    <2> QED BY <1>2, <2>1, <2>2
  <1> QED BY <1>1, <1>3, <1>4 DEF LevelsFor

LEMMA InitInv == Init => Inv
  <1> SUFFICES ASSUME Init PROVE Inv
    OBVIOUS
  <1> USE WalkConstants
  <1>1. levels \in Seq(Level)
    BY BooksAreLevels DEF Init
  <1>2. TypeOK /\ target \in Targets
    BY <1>1 DEF Init, TypeOK
  <1>3. MinPrice * 0 = 0 /\ MaxPrice * 0 = 0
    OBVIOUS
  <1> QED BY <1>2, <1>3 DEF Inv, Init, TypeOK

\* One pass of the loop: what is taken of a level is at most what is left to
\* fill, and costs no less and no more than the price range allows.
LEMMA TakeInv == ASSUME Inv, Take PROVE Inv'
  <1> USE WalkConstants
  <1> DEFINE price == levels[next].price
             qty == levels[next].qty
             take == IF qty <= Remaining THEN qty ELSE Remaining
  <1>0. TypeOK /\ filled <= target /\ target \in Nat /\ filled \in Nat
    BY DEF Inv, TypeOK
  <1>1. levels[next] \in Level /\ next \in 1 .. Len(levels)
    BY <1>0 DEF TypeOK, Take
  <1>2. price \in Prices /\ qty \in Nat
    BY <1>1 DEF Level
  <1>3. take \in Nat /\ take <= Remaining
    BY <1>0, <1>2 DEF Remaining
  <1>4. filled' = filled + take /\ costSum' = costSum + take * price
    BY DEF Take
  <1>5. filled' \in Nat /\ filled' <= target
    BY <1>0, <1>3, <1>4 DEF Remaining
  <1>6. take * price \in Nat /\ MinPrice * take <= take * price /\ take * price <= MaxPrice * take
    BY <1>2, <1>3, Monotone DEF Prices
  <1>7. /\ MinPrice * filled' = MinPrice * filled + MinPrice * take
        /\ MaxPrice * filled' = MaxPrice * filled + MaxPrice * take
    BY <1>0, <1>3, <1>4, Distributes
  <1>8. /\ costSum' \in Nat
        /\ costSum' >= MinPrice * filled'
        /\ costSum' <= MaxPrice * filled'
    <2>1. costSum \in Nat /\ costSum >= MinPrice * filled /\ costSum <= MaxPrice * filled
      BY DEF Inv, TypeOK
    <2>2. /\ MinPrice * filled \in Nat /\ MaxPrice * filled \in Nat
          /\ MinPrice * take \in Nat /\ MaxPrice * take \in Nat
      BY <1>0, <1>3
    <2> HIDE DEF take, price
    <2> QED BY <1>4, <1>6, <1>7, <2>1, <2>2
  <1>9. TypeOK'
    <2>1. next' \in 1 .. Len(levels) + 1
      BY <1>1 DEF Take
    <2> QED BY <1>5, <1>8, <2>1 DEF Inv, TypeOK, Take
  <1> QED BY <1>5, <1>8, <1>9 DEF Inv, Take

LEMMA StepInv == Inv /\ [Next]_vars => Inv'
  <1> SUFFICES ASSUME Inv, [Next]_vars PROVE Inv'
    OBVIOUS
  <1>1. CASE Take
    BY <1>1, TakeInv
  <1>2. CASE Return
    BY <1>2 DEF Inv, TypeOK, Return, Remaining
  <1>3. CASE UNCHANGED vars
    BY <1>3 DEF Inv, TypeOK, vars
  <1> QED BY <1>1, <1>2, <1>3 DEF Next

LEMMA Invariance == Spec => []Inv
  BY InitInv, StepInv, PTL DEF Spec

\* The variables keep their types, for every book, quote and volume.
THEOREM TypeCorrect == Spec => []TypeOK
  <1>1. Inv => TypeOK
    BY DEF Inv
  <1> QED BY <1>1, Invariance, PTL

\* Whatever the book, what the walk has taken so far is one of Fills: at most
\* the volume asked for, at an average price within the range of prices.
THEOREM ReturnsFillHolds == Spec => []ReturnsFill
  <1>1. Inv => ReturnsFill
    <2> SUFFICES ASSUME Inv PROVE ReturnsFill
      OBVIOUS
    <2> USE WalkConstants
    <2>1. filled \in 0 .. target
      BY DEF Inv, TypeOK
    <2>2. costSum \in filled * MinPrice .. filled * MaxPrice
      <3>1. filled \in Nat /\ costSum \in Nat
        BY DEF Inv, TypeOK
      <3>2. filled * MinPrice = MinPrice * filled /\ filled * MaxPrice = MaxPrice * filled
            /\ filled * MinPrice \in Nat /\ filled * MaxPrice \in Nat
        BY <3>1
      <3> QED BY <3>1, <3>2 DEF Inv
    <2> QED BY <2>1, <2>2 DEF ReturnsFill, Fills
  <1> QED BY <1>1, Invariance, PTL

\* A walk that ends with less than it was asked for has come to the end of
\* the book: no level is left.
THEOREM GivesUpOnlyAtTheEnd == Spec => [](pc = "done" /\ partial => next > Len(levels))
  <1>1. Inv => (pc = "done" /\ partial => next > Len(levels))
    BY DEF Inv, TypeOK, partial
  <1> QED BY <1>1, Invariance, PTL

-----------------------------------------------------------------------------
(* What was taken of which level. *)

Quantity == [k \in DOMAIN levels |-> levels[k].qty]
Price == [k \in DOMAIN levels |-> levels[k].price]

\* The walk has emptied the levels it went past, but for the last one once the
\* target is met, and touched no other.
TakenFrom(t) ==
    /\ filled = SumFunctionOnSet(t, DOMAIN levels)
    /\ costSum = SumFunctionOnSet([k \in DOMAIN levels |-> t[k] * Price[k]], DOMAIN levels)
    /\ \A k \in DOMAIN levels :
         /\ t[k] <= Quantity[k]
         /\ k < next - 1 => t[k] = Quantity[k]
         /\ k < next /\ filled < target => t[k] = Quantity[k]
         /\ k >= next => t[k] = 0

Taken == \E t \in [DOMAIN levels -> Nat] : TakenFrom(t)

LEMMA BookFacts ==
    ASSUME TypeOK
    PROVE  /\ DOMAIN levels = 1 .. Len(levels) /\ IsFiniteSet(DOMAIN levels)
           /\ Quantity \in [DOMAIN levels -> Nat]
           /\ Price \in [DOMAIN levels -> Prices] /\ Price \in [DOMAIN levels -> Nat]
  <1>1. DOMAIN levels = 1 .. Len(levels) /\ Len(levels) \in Nat
    BY DEF TypeOK
  <1>2. \A k \in DOMAIN levels : levels[k] \in Level
    BY DEF TypeOK
  <1>3. IsFiniteSet(DOMAIN levels)
    BY <1>1, FS_Interval
  <1>4. Prices \subseteq Nat
    BY WalkConstants DEF Prices
  <1> QED BY <1>1, <1>2, <1>3, <1>4 DEF Quantity, Price, Level

LEMMA TakenAtFirst == ASSUME Init, TypeOK PROVE Taken
  <1> DEFINE t == [k \in DOMAIN levels |-> 0]
             tp == [k \in DOMAIN levels |-> t[k] * Price[k]]
             D == DOMAIN levels
  <1>1. t \in [D -> Nat] /\ IsFiniteSet(D)
    BY BookFacts
  <1>2. \A k \in D : t[k] = 0 /\ tp[k] = 0
    BY BookFacts
  <1> HIDE DEF t, tp, D
  <1>3. Cardinality(D) * 0 = 0
    BY <1>1, FS_CardinalityType
  <1>4. SumFunctionOnSet(t, D) = 0 /\ SumFunctionOnSet(tp, D) = 0
    BY <1>1, <1>2, <1>3, SumConstant
  <1>5. \A k \in D : k \in Nat /\ k >= 1 /\ Quantity[k] \in Nat
    BY BookFacts DEF D
  <1>6. TakenFrom(t)
    BY <1>2, <1>4, <1>5 DEF TakenFrom, Init, D, tp
  <1> QED BY <1>1, <1>6 DEF Taken, D

LEMMA TakenStep == ASSUME Inv, Taken, Take PROVE Taken'
  <1> DEFINE D == DOMAIN levels
             qty == levels[next].qty
             take == IF qty <= Remaining THEN qty ELSE Remaining
  <1>1. PICK t \in [D -> Nat] : TakenFrom(t)
    BY DEF Taken
  <1>2. TypeOK /\ filled <= target /\ target \in Nat /\ filled \in Nat /\ costSum \in Nat
    BY DEF Inv, TypeOK
  <1>3. next \in D /\ D = 1 .. Len(levels) /\ IsFiniteSet(D)
    BY <1>2, BookFacts DEF TypeOK, Take
  <1>4. qty = Quantity[next] /\ qty \in Nat /\ Price[next] \in Nat
        /\ levels[next].price = Price[next]
    BY <1>2, <1>3, BookFacts DEF Quantity, Price
  <1>5. Remaining \in Nat /\ Remaining > 0 /\ filled < target
    BY <1>2 DEF Take, Remaining
  <1>6. take \in Nat /\ take <= qty /\ take <= Remaining
        /\ (take < qty => take = Remaining)
    BY <1>4, <1>5
  <1>7. /\ filled' = filled + take /\ costSum' = costSum + take * Price[next]
        /\ next' = next + 1 /\ UNCHANGED <<levels, target>>
    BY <1>4 DEF Take
  <1> HIDE DEF qty, take
  <1>0. PICK u : u = [t EXCEPT ![next] = take]
    OBVIOUS
  <1> DEFINE tp == [k \in D |-> t[k] * Price[k]]
             up == [k \in D |-> u[k] * Price[k]]
  <1>8. u \in [D -> Nat] /\ u[next] = take /\ t[next] = 0
        /\ \A k \in D \ {next} : u[k] = t[k]
    BY <1>0, <1>1, <1>3, <1>6 DEF TakenFrom
  <1>9. /\ \A k \in D : tp[k] = t[k] * Price[k] /\ up[k] = u[k] * Price[k]
        /\ \A k \in D : tp[k] \in Int /\ up[k] \in Int
        /\ \A k \in D \ {next} : tp[k] = up[k]
        /\ tp[next] = 0 /\ up[next] = take * Price[next]
    <2>1. \A k \in D : Price[k] \in Nat
      BY <1>2, BookFacts
    <2> QED BY <1>3, <1>8, <2>1
  <1> HIDE DEF tp, up
  <1>10. /\ \A k \in D : t[k] \in Int /\ u[k] \in Int
         /\ \A k \in D \ {next} : t[k] = u[k]
    BY <1>8
  <1>11. SumFunctionOnSet(u, D) = SumFunctionOnSet(t, D) - t[next] + u[next]
    BY <1>3, <1>10, SumUpdate
  <1>12. SumFunctionOnSet(up, D) = SumFunctionOnSet(tp, D) - tp[next] + up[next]
    BY <1>3, <1>9, SumUpdate
  <1>13. SumFunctionOnSet(t, D) = filled /\ SumFunctionOnSet(tp, D) = costSum
    BY <1>1 DEF TakenFrom, tp
  <1>14. filled' = SumFunctionOnSet(u, D)
    BY <1>2, <1>6, <1>7, <1>8, <1>11, <1>13
  <1>15. costSum' = SumFunctionOnSet(up, D)
    <2>1. take * Price[next] \in Nat
      BY <1>4, <1>6
    <2> DEFINE paid == take * Price[next]
    <2>2. paid \in Nat /\ costSum' = costSum + paid /\ up[next] = paid
      BY <2>1, <1>7, <1>9
    <2> HIDE DEF paid
    <2> QED BY <1>2, <1>9, <1>12, <1>13, <2>2
  <1>16. ASSUME NEW k \in D
         PROVE  /\ u[k] <= Quantity[k]
                /\ k < next' - 1 => u[k] = Quantity[k]
                /\ k < next' /\ filled' < target' => u[k] = Quantity[k]
                /\ k >= next' => u[k] = 0
    <2>1. k \in Nat /\ next \in Nat
      BY <1>3
    <2>2. /\ t[k] <= Quantity[k]
          /\ k < next => t[k] = Quantity[k]
          /\ k >= next => t[k] = 0
      BY <1>1, <1>5 DEF TakenFrom
    <2>3. CASE k = next
      <3>1. filled' < target' => take = Quantity[next]
        BY <1>2, <1>4, <1>6, <1>7 DEF Remaining
      <3> QED BY <1>4, <1>6, <1>7, <1>8, <2>1, <2>3, <3>1
    <2>4. CASE k # next
      <3>1. u[k] = t[k]
        BY <1>8, <2>4
      <3> QED BY <1>7, <2>1, <2>2, <2>4, <3>1
    <2> QED BY <2>3, <2>4
  <1>17. TakenFrom(u)'
    <2>1. Quantity' = Quantity /\ Price' = Price /\ D' = D
      BY <1>7 DEF Quantity, Price
    <2>2. up = [k \in DOMAIN levels' |-> u[k] * Price'[k]]
      BY <1>7, <2>1 DEF up
    <2> QED BY <1>7, <1>14, <1>15, <1>16, <2>1, <2>2 DEF TakenFrom
  <1>18. u \in [DOMAIN levels' -> Nat]
    BY <1>7, <1>8
  <1> QED BY <1>17, <1>18 DEF Taken

LEMMA TakenHolds == Spec => []Taken
  <1>1. Init => Taken
    BY TakenAtFirst, InitInv DEF Inv
  <1>2. Inv /\ Taken /\ [Next]_vars => Taken'
    <2> SUFFICES ASSUME Inv, Taken, [Next]_vars PROVE Taken'
      OBVIOUS
    <2>1. CASE Take
      BY <2>1, TakenStep
    <2>2. CASE Return \/ UNCHANGED vars
      BY <2>2 DEF Return, vars, Taken, TakenFrom, Quantity, Price
    <2> QED BY <2>1, <2>2 DEF Next
  <1> QED BY <1>1, <1>2, Invariance, PTL DEF Spec

\* The walk reports a partial fill exactly when the whole book holds less than
\* was asked for, and then it has taken the whole book.
THEOREM PartialMeansThinHolds == Spec => []PartialMeansThin
  <1>1. Inv /\ Taken => PartialMeansThin
    <2> SUFFICES ASSUME Inv, Taken, pc = "done"
                 PROVE  LET depth == SumFunctionOnSet(Quantity, DOMAIN levels)
                        IN  (partial <=> depth < target) /\ (partial => filled = depth)
      BY DEF PartialMeansThin, Total, SumFunction, Quantity
    <2> DEFINE D == DOMAIN levels
               depth == SumFunctionOnSet(Quantity, D)
    <2>1. PICK t \in [D -> Nat] : TakenFrom(t)
      BY DEF Taken
    <2>2. TypeOK /\ target \in Nat /\ filled \in Nat /\ filled <= target
      BY DEF Inv, TypeOK
    <2>3. IsFiniteSet(D) /\ \A k \in D : Quantity[k] \in Int /\ t[k] \in Int /\ t[k] <= Quantity[k]
      BY <2>1, <2>2, BookFacts DEF TakenFrom
    <2>4. filled = SumFunctionOnSet(t, D)
      BY <2>1 DEF TakenFrom
    <2>5. filled <= depth /\ depth \in Int
      BY <2>3, <2>4, SumMonotone, SumSplit
    <2>6. ASSUME partial PROVE filled = depth
      <3>1. next > Len(levels)
        BY <2>2, <2>6 DEF Inv, partial
      <3>2. \A k \in D : k < next
        BY <2>2, <3>1, BookFacts DEF TypeOK
      <3>3. \A k \in D : Quantity[k] <= t[k]
        BY <2>1, <2>3, <2>6, <3>2 DEF TakenFrom, partial
      <3>4. depth <= filled
        BY <2>3, <2>4, <3>3, SumMonotone
      <3> QED BY <2>2, <2>5, <3>4
    <2> HIDE DEF depth
    <2>7. (partial <=> depth < target) /\ (partial => filled = depth)
      BY <2>2, <2>5, <2>6 DEF partial
    <2> QED BY <2>7 DEF depth
  <1> QED BY <1>1, Invariance, TakenHolds, PTL

-----------------------------------------------------------------------------
(* Best price. *)

\* Levels in the order a walk should meet them.
BestFirst(s, book) ==
    \A j, k \in DOMAIN book : j < k =>
        IF s = "ask" THEN book[j].price <= book[k].price ELSE book[k].price <= book[j].price

\* What the program expects of exchanges and never checks: their books come
\* best level first.
RealBooksBestFirst == \A s \in Sides : \A book \in RealBooks[s] : BestFirst(s, book)

LEMMA BooksBestFirst ==
    ASSUME RealBooksBestFirst,
           NEW s \in Sides, NEW bbo \in Quotes, NEW book \in LevelsFor(s, bbo)
    PROVE  BestFirst(s, book)
  <1> USE WalkConstants
  <1>0. bbo \in Int
    BY DEF Prices
  <1>1. CASE book \in RealBooks[s]
    BY <1>1 DEF RealBooksBestFirst
  <1>2. ASSUME NEW j \in 1 .. N, NEW k \in 1 .. N, j < k
        PROVE  /\ bbo + Step * (j - 1) <= bbo + Step * (k - 1)
               /\ bbo - Step * (k - 1) <= bbo - Step * (j - 1)
    <2>1. Step * (j - 1) \in Nat /\ Step * (k - 1) \in Nat /\ Step * (j - 1) <= Step * (k - 1)
      BY <1>2, Monotone
    <2> DEFINE a == Step * (j - 1)
               b == Step * (k - 1)
    <2>2. a \in Nat /\ b \in Nat /\ a <= b
      BY <2>1
    <2> HIDE DEF a, b
    <2>3. bbo + a <= bbo + b /\ bbo - b <= bbo - a
      BY <1>0, <2>2
    <2> QED BY <2>3 DEF a, b
  <1>3. CASE s = "ask" /\ book \in AskLevels(bbo)
    <2>1. PICK qty \in Quantities :
            book = [k \in 1 .. N |-> [price |-> bbo + Step * (k - 1), qty |-> qty[k]]]
      BY <1>3 DEF AskLevels
    <2>2. DOMAIN book = 1 .. N /\ \A k \in 1 .. N : book[k].price = bbo + Step * (k - 1)
      BY <2>1
    <2> QED BY <1>2, <1>3, <2>2 DEF BestFirst
  <1>4. CASE s = "bid" /\ book \in BidLevels(bbo)
    <2>1. PICK qty \in Quantities :
            book = [k \in 1 .. N |-> [price |-> bbo - Step * (k - 1), qty |-> qty[k]]]
      BY <1>4 DEF BidLevels
    <2>2. DOMAIN book = 1 .. N /\ \A k \in 1 .. N : book[k].price = bbo - Step * (k - 1)
      BY <2>1
    <2> QED BY <1>2, <1>4, <2>2 DEF BestFirst
  <1> QED BY <1>1, <1>3, <1>4 DEF LevelsFor, Sides

\* What is bought and not taken elsewhere is no dearer than the price P that
\* separates the levels taken from the others; for sales the other way round.
LEMMA OneLevel ==
    ASSUME NEW t \in Nat, NEW w \in Nat, NEW p \in Nat, NEW P \in Nat,
           (t < w => P <= p) /\ (w < t => p <= P)
    PROVE  t * p + w * P <= w * p + t * P
  <1>0. t * p \in Nat /\ w * P \in Nat /\ w * p \in Nat /\ t * P \in Nat
    OBVIOUS
  <1>1. CASE t < w
    <2>1. PICK d \in Nat : w = t + d
      <3>1. w - t \in Nat /\ w = t + (w - t)
        BY <1>1
      <3> QED BY <3>1
    <2>2. w * p = t * p + d * p /\ w * P = t * P + d * P
      BY <2>1
    <2>3. d * P <= d * p /\ d * P \in Nat /\ d * p \in Nat
      BY <1>1, Monotone
    <2> QED BY <1>0, <2>2, <2>3
  <1>2. CASE w < t
    <2>1. PICK d \in Nat : t = w + d
      <3>1. t - w \in Nat /\ t = w + (t - w)
        BY <1>2
      <3> QED BY <3>1
    <2>2. t * p = w * p + d * p /\ t * P = w * P + d * P
      BY <2>1
    <2>3. d * p <= d * P /\ d * P \in Nat /\ d * p \in Nat
      BY <1>2, Monotone
    <2> QED BY <1>0, <2>2, <2>3
  <1>3. CASE t = w
    BY <1>0, <1>3
  <1> QED BY <1>1, <1>2, <1>3

\* The price between what was taken and what was left: that of the last level
\* the walk took from.
LEMMA Separates ==
    ASSUME Inv, BestFirst(side, levels), NEW t \in [DOMAIN levels -> Nat], TakenFrom(t)
    PROVE  \E P \in Nat : \A k \in DOMAIN levels :
             IF side = "ask"
             THEN (t[k] < Quantity[k] => P <= Price[k]) /\ (t[k] > 0 => Price[k] <= P)
             ELSE (t[k] < Quantity[k] => Price[k] <= P) /\ (t[k] > 0 => P <= Price[k])
  <1> DEFINE D == DOMAIN levels
  <1>1. TypeOK
    BY DEF Inv
  <1>2. D = 1 .. Len(levels) /\ next \in 1 .. Len(levels) + 1 /\ Len(levels) \in Nat
    BY <1>1, BookFacts DEF TypeOK
  <1>3. /\ MinPrice \in Nat /\ MaxPrice \in Nat
        /\ \A k \in D : Price[k] \in Nat /\ MinPrice <= Price[k] /\ Price[k] <= MaxPrice
    BY <1>1, BookFacts, WalkConstants DEF Prices
  <1>4. \A k \in D : /\ t[k] \in Nat /\ Quantity[k] \in Nat
                     /\ k < next - 1 => t[k] = Quantity[k]
                     /\ k >= next => t[k] = 0
    BY <1>1, BookFacts DEF TakenFrom
  <1>5. CASE next = 1
    <2>1. \A k \in D : t[k] = 0
      BY <1>2, <1>4, <1>5
    <2>2. CASE side = "ask"
      BY <1>3, <1>4, <2>1, <2>2
    <2>3. CASE side # "ask"
      BY <1>3, <1>4, <2>1, <2>3
    <2> QED BY <2>2, <2>3
  <1>6. CASE next # 1
    <2> DEFINE last == next - 1
    <2>1. last \in D /\ Price[last] \in Nat
      BY <1>2, <1>3, <1>6
    <2>2. \A k \in D : /\ k \in Nat
                       /\ t[k] < Quantity[k] => k = last \/ last < k
                       /\ t[k] > 0 => k = last \/ k < last
      BY <1>2, <1>4, <1>6
    <2>3. \A j, k \in D : j < k =>
            IF side = "ask" THEN Price[j] <= Price[k] ELSE Price[k] <= Price[j]
      BY DEF BestFirst, Price
    <2> HIDE DEF last
    <2>4. CASE side = "ask"
      BY <1>3, <2>1, <2>2, <2>3, <2>4
    <2>5. CASE side # "ask"
      BY <1>3, <2>1, <2>2, <2>3, <2>5
    <2> QED BY <2>4, <2>5
  <1> QED BY <1>5, <1>6

LEMMA NoBetterWay ==
    ASSUME Inv, Taken, BestFirst(side, levels), NEW w \in OtherWays
    PROVE  IF side = "ask" THEN Value(w) >= costSum ELSE Value(w) <= costSum
  <1> DEFINE D == DOMAIN levels
             tp(t) == [k \in D |-> t[k] * Price[k]]
  <1>1. PICK t \in [D -> Nat] : TakenFrom(t)
    BY DEF Taken
  <1>2. PICK P \in Nat : \A k \in D :
             IF side = "ask"
             THEN (t[k] < Quantity[k] => P <= Price[k]) /\ (t[k] > 0 => Price[k] <= P)
             ELSE (t[k] < Quantity[k] => Price[k] <= P) /\ (t[k] > 0 => P <= Price[k])
    BY <1>1, Separates
  <1>3. TypeOK
    BY DEF Inv
  <1>4. w \in [D -> Nat] /\ (\A k \in D : w[k] <= Quantity[k])
        /\ SumFunctionOnSet(w, D) = filled
    BY <1>3 DEF OtherWays, Quantity, Total, SumFunction, TypeOK
  <1>5. Value(w) = SumFunctionOnSet(tp(w), D)
    <2>1. [k \in D |-> w[k] * levels[k].price] = tp(w)
      BY DEF Price
    <2> QED BY <2>1 DEF Value, Total, SumFunction
  <1>6. costSum = SumFunctionOnSet(tp(t), D) /\ filled = SumFunctionOnSet(t, D)
    BY <1>1 DEF TakenFrom
  <1>7. IsFiniteSet(D) /\ Price \in [D -> Nat] /\ Quantity \in [D -> Nat]
    BY <1>3, BookFacts
  <1>8. \A k \in D : t[k] \in Nat /\ w[k] \in Nat /\ Price[k] \in Nat /\ Quantity[k] \in Nat
                     /\ t[k] <= Quantity[k] /\ w[k] <= Quantity[k]
    BY <1>1, <1>4, <1>7 DEF TakenFrom
  <1>9. t \in [D -> Int] /\ w \in [D -> Int] /\ Price \in [D -> Int] /\ P \in Int
    BY <1>4, <1>7
  <1> HIDE DEF D
  <1>10. SumFunctionOnSet(tp(t), D) \in Int /\ SumFunctionOnSet(tp(w), D) \in Int
    <2>1. \A k \in D : tp(t)[k] \in Int /\ tp(w)[k] \in Int
      BY <1>8
    <2> HIDE DEF tp
    <2> QED BY <1>7, <2>1, SumSplit
  <1>11. CASE side = "ask"
    <2>1. ASSUME NEW k \in D
          PROVE  t[k] * Price[k] + w[k] * P <= w[k] * Price[k] + t[k] * P
      <3>1. (t[k] < w[k] => P <= Price[k]) /\ (w[k] < t[k] => Price[k] <= P)
        BY <1>2, <1>8, <1>11
      <3> QED BY <1>8, <3>1, OneLevel
    <2>2. SumFunctionOnSet(tp(t), D) <= SumFunctionOnSet(tp(w), D)
      BY <1>4, <1>6, <1>7, <1>9, <2>1, Rearranged
    <2> HIDE DEF tp
    <2> QED BY <1>5, <1>6, <1>10, <1>11, <2>2
  <1>12. CASE side # "ask"
    <2>1. ASSUME NEW k \in D
          PROVE  w[k] * Price[k] + t[k] * P <= t[k] * Price[k] + w[k] * P
      <3>1. (w[k] < t[k] => P <= Price[k]) /\ (t[k] < w[k] => Price[k] <= P)
        BY <1>2, <1>8, <1>12
      <3> QED BY <1>8, <3>1, OneLevel
    <2>2. SumFunctionOnSet(tp(w), D) <= SumFunctionOnSet(tp(t), D)
      BY <1>4, <1>6, <1>7, <1>9, <2>1, Rearranged
    <2> HIDE DEF tp
    <2> QED BY <1>5, <1>6, <1>10, <1>12, <2>2
  <1> QED BY <1>11, <1>12

\* If exchanges send their books best level first, no other way to fill the
\* same volume from the book walked is cheaper, or brings in more: for made-up
\* books it holds of the program alone.
THEOREM BestPriceHolds == RealBooksBestFirst => (Spec => []BestPrice)
  <1> SUFFICES ASSUME RealBooksBestFirst PROVE Spec => []BestPrice
    OBVIOUS
  <1>1. Init => BestFirst(side, levels)
    BY BooksBestFirst DEF Init
  <1>2. BestFirst(side, levels) /\ [Next]_vars => BestFirst(side, levels)'
    BY DEF Next, Take, Return, vars, BestFirst
  <1>3. Inv /\ Taken /\ BestFirst(side, levels) => BestPrice
    BY NoBetterWay DEF BestPrice
  <1> QED BY <1>1, <1>2, <1>3, Invariance, TakenHolds, PTL DEF Spec

=============================================================================

---------------------------- MODULE EngineProofs ----------------------------
(***************************************************************************)
(* Theorems about the engine's heap and the strategies that fill it, for   *)
(* any numbers of venues, markets and opportunities, any scores, prices,   *)
(* rates, cooldowns and any time to live.                                  *)
(*                                                                         *)
(* The heap implements the queue that the loop takes it for.  Emissions of *)
(* one pair, or of one market, are a cooldown apart.  What the estimators  *)
(* compute step by step is what their definitions say of the whole         *)
(* history: the models of the last spreads, the volumes of all trades.     *)
(***************************************************************************)
EXTENDS Engine, SpatialStrategy, Cooldowns, TLAPS, SequenceTheorems,
        FiniteSetTheorems, WellFoundedInduction

\* What Strategies declares beside them.
CONSTANTS Quotes, Returns, EnabledSets, MaxNow, MaxUpdates, MaxTrades
VARIABLES quotes, todo, updates, queued, enabled

Strat == INSTANCE Strategies

-----------------------------------------------------------------------------
(* What a loop that is a pass repeated comes to. *)

\* Induction, on a set of numbers.
LEMMA AllNumbers ==
    ASSUME NEW G \in SUBSET Nat, 0 \in G, \A n \in G : n + 1 \in G
    PROVE  G = Nat
<1> DEFINE bad == Nat \ G
<1> SUFFICES ASSUME bad # {} PROVE FALSE
  OBVIOUS
<1>1. PICK R : IsWellFoundedOn(R, Nat) /\ \A x, y \in Nat : <<y, x>> \in R <=> y < x
  <2>1. \A x, y \in Nat : <<y, x>> \in OpToRel(<, Nat) <=> y < x
    BY DEF OpToRel
  <2> QED  BY <2>1, NatLessThanWellFounded
<1>2. PICK x \in bad : \A y \in bad : ~(<<y, x>> \in R)
  BY <1>1, WFMin
<1>3. x \in Nat /\ x # 0 /\ x - 1 \in Nat /\ x - 1 < x
  BY <1>2
<1>4. x - 1 \in G
  BY <1>1, <1>2, <1>3
<1>5. (x - 1) + 1 \in G
  BY <1>4
<1> QED  BY <1>2, <1>3, <1>5

LEMMA Before == ASSUME NEW n \in Nat PROVE \A k \in 1 .. n : k \in 0 .. n /\ k - 1 \in 0 .. n
  OBVIOUS

\* What holds at first and is kept by every step holds all along.
LEMMA StepsKeep ==
    ASSUME NEW n \in Nat, NEW after, NEW T,
           after[0] \in T[0], \A k \in 1 .. n : after[k - 1] \in T[k - 1] => after[k] \in T[k]
    PROVE  \A k \in 0 .. n : after[k] \in T[k]
<1> DEFINE G == {m \in Nat : m <= n => after[m] \in T[m]}
<1>1. 0 \in G
  OBVIOUS
<1>2. ASSUME NEW m \in G PROVE m + 1 \in G
  <2> SUFFICES ASSUME m + 1 <= n PROVE after[m + 1] \in T[m + 1]
    OBVIOUS
  <2>1. after[m] \in T[m] /\ m + 1 \in 1 .. n /\ (m + 1) - 1 = m
    OBVIOUS
  <2> QED  BY <2>1
<1>3. G = Nat
  <2> HIDE DEF G
  <2> QED  BY <1>1, <1>2, AllNumbers DEF G
<1> QED  BY <1>3

\* A loop that stays in U and brings down a measure with every pass that
\* changes anything has come to rest after as many passes as the measure.
Passes(after, n, s, pass) ==
    after = [k \in 0 .. n |-> IF k = 0 THEN s ELSE pass[after[k - 1]]]

LEMMA PassesExist ==
    ASSUME NEW n \in Nat, NEW s, NEW pass
    PROVE  \E after : Passes(after, n, s, pass)
<1> USE DEF Passes
<1> DEFINE G == {m \in Nat : \E g : Passes(g, m, s, pass)}
<1>1. 0 \in G
  <2>1. PICK g : g = [k \in 0 .. 0 |-> s]
    OBVIOUS
  <2>2. Passes(g, 0, s, pass)
    BY <2>1
  <2> QED  BY <2>2
<1>2. ASSUME NEW m \in G PROVE m + 1 \in G
  <2>1. PICK g : Passes(g, m, s, pass)
    OBVIOUS
  <2>2. PICK h : h = [k \in 0 .. m + 1 |-> IF k = m + 1 THEN pass[g[m]] ELSE g[k]]
    OBVIOUS
  <2>3. \A k \in 0 .. m : h[k] = g[k]
    BY <2>2
  <2>4. \A k \in 0 .. m : g[k] = IF k = 0 THEN s ELSE pass[g[k - 1]]
    BY <2>1
  <2>5. ASSUME NEW k \in 0 .. m + 1
        PROVE  h[k] = IF k = 0 THEN s ELSE pass[h[k - 1]]
    <3>1. CASE k = m + 1
      <4>1. k # 0 /\ k - 1 = m /\ m \in 0 .. m
        BY <3>1
      <4>2. h[k] = pass[g[m]]
        BY <2>2, <3>1
      <4> QED  BY <2>3, <4>1, <4>2
    <3>2. CASE k # m + 1
      <4>1. k \in 0 .. m /\ (k # 0 => k - 1 \in 0 .. m)
        BY <3>2
      <4> QED  BY <2>3, <2>4, <4>1
    <3> QED  BY <3>1, <3>2
  <2>6. Passes(h, m + 1, s, pass)
    BY <2>2, <2>5
  <2> QED  BY <2>6
<1>3. n \in G
  <2> HIDE DEF G
  <2> QED  BY <1>1, <1>2, AllNumbers DEF G
<1> QED  BY <1>3

LEMMA RepeatEnds ==
    ASSUME NEW n \in Nat, NEW U, NEW start \in U, NEW pass, NEW left,
           \A s \in U : /\ pass[s] \in U /\ left[s] \in Nat
                        /\ pass[s] = s \/ left[pass[s]] < left[s],
           left[start] <= n
    PROVE  Repeat(pass, start, n) \in U /\ pass[Repeat(pass, start, n)] = Repeat(pass, start, n)
<1>1. PICK after : Passes(after, n, start, pass) /\ Repeat(pass, start, n) = after[n]
  <2>1. Repeat(pass, start, n) = (CHOOSE after : Passes(after, n, start, pass))[n]
    BY DEF Repeat, Passes
  <2> QED  BY <2>1, PassesExist
<1>2. after[0] = start /\ \A k \in 1 .. n : after[k] = pass[after[k - 1]]
  BY <1>1 DEF Passes
<1> DEFINE Near(s, k) == s \in U /\ (pass[s] = s \/ left[s] <= n - k)
           T == [k \in 0 .. n |-> {s \in U : Near(s, k)}]
<1>3. \A k \in 0 .. n, s \in U : s \in T[k] <=> Near(s, k)
  OBVIOUS
<1>4. after[0] \in T[0]
  BY <1>2
<1>5. ASSUME NEW k \in 1 .. n, after[k - 1] \in T[k - 1]
      PROVE  after[k] \in T[k]
  <2>1. k \in 0 .. n /\ k - 1 \in 0 .. n /\ n - (k - 1) = (n - k) + 1 /\ n - k \in Int
    OBVIOUS
  <2>2. Near(after[k - 1], k - 1)
    BY <1>5, <2>1
  <2> DEFINE s == after[k - 1]
             t == after[k]
  <2>3. t = pass[s] /\ s \in U /\ t \in U /\ left[s] \in Nat /\ left[t] \in Nat
    BY <1>2, <2>2
  <2>4. pass[s] = s \/ (left[t] < left[s] /\ left[s] <= (n - k) + 1)
    BY <2>1, <2>2, <2>3
  <2> HIDE DEF s, t
  <2>5. pass[t] = t \/ left[t] <= n - k
    BY <2>1, <2>3, <2>4
  <2>6. Near(t, k)
    BY <2>3, <2>5
  <2> HIDE DEF T, Near
  <2>7. t \in T[k]
    BY <1>3, <2>1, <2>3, <2>6
  <2> QED  BY <2>7 DEF t
<1>6. after[n] \in T[n]
  <2> HIDE DEF T
  <2> QED  BY <1>4, <1>5, StepsKeep
<1>7. after[n] \in U /\ (pass[after[n]] = after[n] \/ left[after[n]] <= 0)
  BY <1>6
<1>8. pass[after[n]] = after[n]
  BY <1>7
<1> QED  BY <1>1, <1>7, <1>8

-----------------------------------------------------------------------------
(* A heap's items. *)

OppsOf(h) == {h[i].opp : i \in DOMAIN h}
Distinct(h) == \A i, j \in DOMAIN h : h[i].opp = h[j].opp => i = j
Indexed(h) == \A i \in DOMAIN h : h[i].index = i - 1

\* The parent of position i is at least as good as what is there.
Below(h, i) == h[i].opp.score <= h[i \div 2].opp.score
Ordered(h, n) == \A i \in 2 .. n : Below(h, i)

\* h rearranged, with every index right.
Rearranged(g, h) ==
    /\ g \in Seq(Item) /\ Len(g) = Len(h) /\ Indexed(g)
    /\ OppsOf(g) = OppsOf(h) /\ (Distinct(h) => Distinct(g))

LEMMA Halves ==
    ASSUME NEW i \in Nat \ {0}
    PROVE  /\ i \div 2 \in Nat
           /\ i # 1 => i \div 2 \in 1 .. i - 1
           /\ \A j \in Nat : i \div 2 = j <=> i = 2 * j \/ i = 2 * j + 1
  OBVIOUS

LEMMA SwapGives ==
    ASSUME NEW h \in Seq(Item), NEW i \in DOMAIN h, NEW j \in DOMAIN h
    PROVE  \E g \in Seq(Item) :
           /\ Swap(h, i, j) = g /\ Len(g) = Len(h)
           /\ g[i].opp = h[j].opp /\ g[j].opp = h[i].opp
           /\ g[i].index = i - 1 /\ g[j].index = j - 1
           /\ \A k \in DOMAIN h \ {i, j} : g[k] = h[k]
<1> DEFINE x == [opp |-> h[j].opp, index |-> i - 1]
           y == [opp |-> h[i].opp, index |-> j - 1]
           g == Swap(h, i, j)
<1>1. g = [[h EXCEPT ![i] = x] EXCEPT ![j] = y]
  BY DEF Swap
<1>2. x \in Item /\ y \in Item /\ i \in 1 .. Len(h) /\ j \in 1 .. Len(h)
  <2>1. h[i] \in Item /\ h[j] \in Item /\ i \in 1 .. Len(h) /\ j \in 1 .. Len(h)
    OBVIOUS
  <2>2. h[i].opp \in Opportunity /\ h[j].opp \in Opportunity
    BY <2>1 DEF Item
  <2> QED  BY <2>1, <2>2 DEF Item
<1>3. i = j => x = y
  OBVIOUS
<1>4. x.opp = h[j].opp /\ y.opp = h[i].opp /\ x.index = i - 1 /\ y.index = j - 1
  OBVIOUS
<1> HIDE DEF x, y, g
<1>5. g \in Seq(Item) /\ Len(g) = Len(h)
  BY <1>1, <1>2
<1>6. g[i] = x /\ g[j] = y /\ \A k \in DOMAIN h \ {i, j} : g[k] = h[k]
  BY <1>1, <1>2, <1>3
<1> QED  BY <1>4, <1>5, <1>6 DEF g

LEMMA SwapRearranges ==
    ASSUME NEW h \in Seq(Item), NEW i \in DOMAIN h, NEW j \in DOMAIN h,
           NEW h0, Rearranged(h, h0)
    PROVE  Rearranged(Swap(h, i, j), h0)
<1>1. PICK g \in Seq(Item) :
      /\ Swap(h, i, j) = g /\ Len(g) = Len(h)
      /\ g[i].opp = h[j].opp /\ g[j].opp = h[i].opp
      /\ g[i].index = i - 1 /\ g[j].index = j - 1
      /\ \A k \in DOMAIN h \ {i, j} : g[k] = h[k]
  BY SwapGives
<1>2. Indexed(g)
  BY <1>1 DEF Indexed, Rearranged
<1> DEFINE other(k) == IF k = i THEN j ELSE IF k = j THEN i ELSE k
<1>3. \A k \in DOMAIN h :
        /\ other(k) \in DOMAIN h /\ other(other(k)) = k
        /\ g[k].opp = h[other(k)].opp
  BY <1>1
<1>4. DOMAIN g = DOMAIN h
  BY <1>1
<1> HIDE DEF other
<1>6. OppsOf(g) = OppsOf(h)
  <2>1. ASSUME NEW o \in OppsOf(g) PROVE o \in OppsOf(h)
    BY <1>3, <1>4 DEF OppsOf
  <2>2. ASSUME NEW o \in OppsOf(h) PROVE o \in OppsOf(g)
    <3>1. PICK k \in DOMAIN h : o = h[k].opp
      BY DEF OppsOf
    <3>2. other(k) \in DOMAIN g /\ g[other(k)].opp = o
      BY <1>3, <1>4, <3>1
    <3> QED  BY <3>2 DEF OppsOf
  <2> QED  BY <2>1, <2>2
<1>7. Distinct(h) => Distinct(g)
  <2> SUFFICES ASSUME Distinct(h), NEW k \in DOMAIN g, NEW l \in DOMAIN g, g[k].opp = g[l].opp
               PROVE  k = l
    BY DEF Distinct
  <2>1. other(k) = other(l)
    BY <1>3, <1>4 DEF Distinct
  <2> QED  BY <1>3, <1>4, <2>1
<1>5. Rearranged(g, h0)
  BY <1>1, <1>2, <1>6, <1>7 DEF Rearranged
<1> QED  BY <1>1, <1>5

-----------------------------------------------------------------------------
(* Sifting up. *)

\* What is sifted may be better than its parent, and nothing else is; the
\* children of what is sifted are already below its parent.
Rising(s) ==
    /\ s.at \in DOMAIN s.heap
    /\ \A i \in 2 .. Len(s.heap) :
         /\ i # s.at => Below(s.heap, i)
         /\ i \div 2 = s.at /\ s.at # 1 =>
              s.heap[i].opp.score <= s.heap[s.at \div 2].opp.score

LEMMA Scored ==
    ASSUME NEW h \in Seq(Item), NEW i \in DOMAIN h
    PROVE  h[i] \in Item /\ h[i].opp \in Opportunity /\ h[i].opp.score \in Int
<1>1. h[i] \in Item
  OBVIOUS
<1>2. h[i].opp \in Opportunity
  BY <1>1 DEF Item
<1> QED  BY <1>1, <1>2 DEF Opportunity

LEMMA RisingPass ==
    ASSUME NEW s \in Sifting, Rising(s), NEW h0, Rearranged(s.heap, h0)
    PROVE  /\ UpPass(s) \in Sifting /\ Rising(UpPass(s)) /\ Rearranged(UpPass(s).heap, h0)
           /\ \/ UpPass(s).at < s.at
              \/ UpPass(s) = s /\ Ordered(s.heap, Len(s.heap))
<1> DEFINE h == s.heap
           j == s.at
           p == j \div 2
           score(i) == h[i].opp.score
<1>1. h \in Seq(Item) /\ j \in 1 .. Len(h) /\ DOMAIN h = 1 .. Len(h) /\ Len(h) \in Nat
  BY DEF Sifting, Rising
<1>2. \A i \in 1 .. Len(h) : score(i) \in Int
  BY <1>1, Scored
<1>3. \A i \in 2 .. Len(h) : i # j => score(i) <= score(i \div 2)
  BY DEF Rising, Below
<1>4. \A i \in 2 .. Len(h) : i \div 2 = j /\ j # 1 => score(i) <= score(p)
  BY DEF Rising
<1>5. CASE j = 1 \/ ~Less(h, j, p)
  <2>1. UpPass(s) = s
    BY <1>5 DEF UpPass
  <2>2. j # 1 => p \in 1 .. Len(h)
    BY <1>1, Halves
  <2>3. j # 1 => score(j) <= score(p)
    BY <1>1, <1>2, <1>5, <2>2 DEF Less
  <2>4. Ordered(h, Len(h))
    BY <1>3, <2>3 DEF Ordered, Below
  <2> QED  BY <2>1, <2>4
<1>6. CASE j # 1 /\ Less(h, j, p)
  <2>1. p \in 1 .. Len(h) /\ p < j /\ p # j
    BY <1>1, <1>6, Halves
  <2>2. score(j) > score(p)
    BY <1>6 DEF Less
  <2>3. PICK g \in Seq(Item) :
          /\ Swap(h, j, p) = g /\ Len(g) = Len(h)
          /\ g[j].opp = h[p].opp /\ g[p].opp = h[j].opp
          /\ \A k \in DOMAIN h \ {j, p} : g[k] = h[k]
    <3>1. j \in DOMAIN h /\ p \in DOMAIN h
      BY <1>1, <2>1
    <3> HIDE DEF h, j, p
    <3> QED  BY <1>1, <3>1, SwapGives
  <2>4. UpPass(s) = [heap |-> g, at |-> p]
    BY <1>6, <2>3 DEF UpPass
  <2>5. Rearranged(g, h0)
    BY <1>1, <2>1, <2>3, SwapRearranges
  <2> DEFINE new(i) == g[i].opp.score
  <2>6. /\ new(j) = score(p) /\ new(p) = score(j)
        /\ \A k \in 1 .. Len(h) : k # j /\ k # p => new(k) = score(k)
    BY <1>1, <2>3
  <2>7. \A i \in 2 .. Len(h) : i \div 2 \in 1 .. Len(h)
    BY <1>1, Halves
  <2> HIDE DEF new, score
  <2>8. ASSUME NEW i \in 2 .. Len(h), i # p PROVE new(i) <= new(i \div 2)
    <3> DEFINE q == i \div 2
    <3>1. q \in 1 .. Len(h) /\ i \in 1 .. Len(h)
      BY <2>7
    <3>2. CASE i = j
      BY <1>2, <2>1, <2>2, <2>6, <3>2
    <3>3. CASE i # j /\ q = j
      <4>1. score(i) <= score(p)
        BY <1>4, <1>6, <3>3
      <4> QED  BY <2>6, <2>8, <3>1, <3>3, <4>1
    <3>4. CASE i # j /\ q = p
      <4>1. score(i) <= score(p)
        BY <1>3, <3>4
      <4>2. score(i) <= score(j)
        BY <1>1, <1>2, <2>1, <2>2, <3>1, <4>1
      <4> QED  BY <2>6, <2>8, <3>1, <3>4, <4>2
    <3>5. CASE i # j /\ q # j /\ q # p
      BY <1>3, <2>6, <2>8, <3>1, <3>5
    <3> QED  BY <3>2, <3>3, <3>4, <3>5
  <2>9. ASSUME NEW i \in 2 .. Len(h), i \div 2 = p, p # 1 PROVE new(i) <= new(p \div 2)
    <3>1. p \in 2 .. Len(h) /\ p \div 2 \in 1 .. Len(h) /\ p \div 2 # p /\ p \div 2 # j
      BY <1>1, <2>1, <2>9, Halves
    <3>2. score(p) <= score(p \div 2) /\ new(p \div 2) = score(p \div 2)
      BY <1>3, <2>1, <2>6, <3>1
    <3>3. CASE i = j
      BY <2>6, <3>2, <3>3
    <3>4. CASE i # j
      <4>1. score(i) <= score(p) /\ i # p
        BY <1>3, <2>9, <3>1, <3>4
      <4>2. score(i) <= score(p \div 2)
        BY <1>2, <2>1, <3>1, <3>2, <4>1
      <4> QED  BY <2>6, <3>2, <3>4, <4>1, <4>2
    <3> QED  BY <3>3, <3>4
  <2>10. Rising([heap |-> g, at |-> p])
    <3>1. p \in DOMAIN g
      BY <2>1, <2>3
    <3> QED  BY <2>3, <2>8, <2>9, <3>1 DEF Rising, Below, new
  <2>11. [heap |-> g, at |-> p] \in Sifting
    BY <2>1 DEF Sifting
  <2> QED  BY <2>1, <2>4, <2>5, <2>10, <2>11
<1> QED  BY <1>5, <1>6

LEMMA UpSifts ==
    ASSUME NEW h \in Seq(Item), NEW j \in DOMAIN h, Indexed(h),
           Rising([heap |-> h, at |-> j])
    PROVE  Rearranged(Up(h, j), h) /\ Ordered(Up(h, j), Len(h))
<1> DEFINE start == [heap |-> h, at |-> j]
           U == {s \in Sifting : Rising(s) /\ Rearranged(s.heap, h)}
           pass == [s \in Sifting |-> UpPass(s)]
           left == [s \in Sifting |-> s.at]
           end == Repeat(pass, start, j)
<1>1. j \in Nat /\ start \in U /\ left[start] <= j
  BY DEF Rearranged, Sifting
<1>2. ASSUME NEW s \in U
      PROVE  /\ pass[s] \in U /\ left[s] \in Nat
             /\ \/ left[pass[s]] < left[s]
                \/ pass[s] = s /\ Ordered(s.heap, Len(s.heap))
  <2>1. pass[s] = UpPass(s) /\ left[s] = s.at /\ s.at \in Nat
    BY DEF Sifting
  <2>2. /\ UpPass(s) \in U /\ left[UpPass(s)] = UpPass(s).at
        /\ \/ UpPass(s).at < s.at
           \/ UpPass(s) = s /\ Ordered(s.heap, Len(s.heap))
    BY RisingPass
  <2> QED  BY <2>1, <2>2
<1>3. end \in U /\ pass[end] = end
  <2> HIDE DEF start, U, pass, left
  <2> QED  BY <1>1, <1>2, RepeatEnds
<1>4. Ordered(end.heap, Len(end.heap))
  <2> HIDE DEF start, U, pass, left, end
  <2> QED  BY <1>2, <1>3
<1> QED  BY <1>3, <1>4 DEF Up, Rearranged

-----------------------------------------------------------------------------
(* Sifting down, among the first n positions. *)

\* What is sifted may be worse than its children, which are already below its
\* parent; nothing else is out of order.
Sinking(s, n) ==
    /\ s.at \in DOMAIN s.heap /\ n <= Len(s.heap)
    /\ \A i \in 2 .. n :
         /\ i \div 2 # s.at => Below(s.heap, i)
         /\ i \div 2 = s.at /\ s.at # 1 =>
              s.heap[i].opp.score <= s.heap[s.at \div 2].opp.score

LEMMA SinkingPass ==
    ASSUME NEW s \in Sifting, NEW n \in Nat, Sinking(s, n), NEW h0, Rearranged(s.heap, h0)
    PROVE  /\ DownPass(s, n) \in Sifting /\ Sinking(DownPass(s, n), n)
           /\ Rearranged(DownPass(s, n).heap, h0)
           /\ \A k \in DOMAIN s.heap : k > n => DownPass(s, n).heap[k] = s.heap[k]
           /\ \/ s.at < DownPass(s, n).at /\ DownPass(s, n).at <= n
              \/ DownPass(s, n) = s /\ Ordered(s.heap, n)
<1> DEFINE h == s.heap
           j == s.at
           l == 2 * j
           c == IF l < n /\ Less(h, l + 1, l) THEN l + 1 ELSE l
           score(i) == h[i].opp.score
<1>0. DownPass(s, n) = IF l > n \/ ~Less(h, c, j) THEN s ELSE [heap |-> Swap(h, j, c), at |-> c]
  BY DEF DownPass
<1>1. h \in Seq(Item) /\ j \in 1 .. Len(h) /\ DOMAIN h = 1 .. Len(h) /\ Len(h) \in Nat /\ n <= Len(h)
  BY DEF Sifting, Sinking
<1>2. \A i \in 1 .. Len(h) : score(i) \in Int
  BY <1>1, Scored
<1>3. \A i \in 2 .. n : i \div 2 # j => score(i) <= score(i \div 2)
  BY DEF Sinking, Below
<1>4. \A i \in 2 .. n : i \div 2 = j /\ j # 1 => score(i) <= score(j \div 2)
  BY DEF Sinking
<1>5. \A i \in 2 .. n : i \div 2 = j <=> i = l \/ i = l + 1
  BY <1>1, Halves
\* Of the children there are, c is the better one.
<1>6. ASSUME l <= n
      PROVE  /\ c \in 2 .. n /\ c \div 2 = j /\ j < c
             /\ \A i \in 2 .. n : i \div 2 = j => score(i) <= score(c)
  <2>1. l \in 2 .. n /\ (l < n => l + 1 \in 2 .. n)
    BY <1>1, <1>6
  <2>2. score(l) \in Int /\ (l < n => score(l + 1) \in Int)
    BY <1>1, <1>2, <2>1
  <2>3. CASE l < n /\ Less(h, l + 1, l)
    <3>1. c = l + 1 /\ score(l) <= score(l + 1)
      BY <2>2, <2>3 DEF Less
    <3>2. c \in 2 .. n /\ c \div 2 = j /\ j < c
      <4>1. c \in 2 .. n /\ c = l + 1
        <5> HIDE DEF c, l
        <5> QED  BY <2>1, <2>3, <3>1
      <4>2. c \div 2 = j
        <5> HIDE DEF c, l, j
        <5> QED  BY <1>5, <4>1
      <4>3. j < c
        <5> HIDE DEF c, j
        <5> QED  BY <1>1, <4>1
      <4> QED  BY <4>1, <4>2, <4>3
    <3>3. \A i \in 2 .. n : i \div 2 = j => score(i) <= score(c)
      <4> HIDE DEF score, c, l
      <4> QED  BY <1>5, <2>2, <2>3, <3>1
    <3> QED  BY <3>2, <3>3
  <2>4. CASE ~(l < n /\ Less(h, l + 1, l))
    <3>1. c = l /\ (l < n => score(l + 1) <= score(l))
      BY <2>2, <2>4 DEF Less
    <3>2. c \in 2 .. n /\ c \div 2 = j /\ j < c
      <4>1. c \in 2 .. n /\ c = l
        <5> HIDE DEF c, l
        <5> QED  BY <2>1, <3>1
      <4>2. c \div 2 = j
        <5> HIDE DEF c, l, j
        <5> QED  BY <1>5, <4>1
      <4>3. j < c
        <5> HIDE DEF c, j
        <5> QED  BY <1>1, <4>1
      <4> QED  BY <4>1, <4>2, <4>3
    <3>3. \A i \in 2 .. n : i \div 2 = j => score(i) <= score(c)
      <4>1. ASSUME NEW i \in 2 .. n, i \div 2 = j PROVE i = l \/ (i = l + 1 /\ l < n)
        BY <1>1, <1>5, <4>1
      <4> HIDE DEF score, c, l
      <4> QED  BY <2>2, <3>1, <4>1
    <3> QED  BY <3>2, <3>3
  <2> QED  BY <2>3, <2>4
<1>7. CASE l > n \/ ~Less(h, c, j)
  <2>1. DownPass(s, n) = s
    BY <1>0, <1>7
  <2>2. ASSUME NEW i \in 2 .. n, i \div 2 = j PROVE score(i) <= score(j)
    <3>1. l <= n
      BY <1>1, <1>5, <2>2
    <3>2. c \in 2 .. n /\ \A k \in 2 .. n : k \div 2 = j => score(k) <= score(c)
      <4> HIDE DEF score, c
      <4> QED  BY <1>6, <3>1
    <3>3. ~Less(h, c, j)
      <4>1. l \in Nat
        BY <1>1
      <4> HIDE DEF c, l
      <4> QED  BY <1>7, <3>1, <4>1
    <3>4. ~(score(c) > score(j))
      <4> HIDE DEF c
      <4> QED  BY <3>3 DEF Less
    <3> HIDE DEF score, c
    <3>5. score(c) \in Int /\ score(j) \in Int /\ score(i) \in Int /\ score(i) <= score(c)
      BY <1>1, <1>2, <2>2, <3>2
    <3> QED  BY <3>4, <3>5
  <2>3. Ordered(h, n)
    BY <1>3, <2>2 DEF Ordered, Below
  <2> QED  BY <2>1, <2>3
<1>8. CASE l <= n /\ Less(h, c, j)
  <2>1. /\ c \in 2 .. n /\ c \div 2 = j /\ j < c /\ c \in 1 .. Len(h) /\ c # j
        /\ \A i \in 2 .. n : i \div 2 = j => score(i) <= score(c)
    BY <1>1, <1>6, <1>8
  <2>2. score(c) > score(j)
    BY <1>8 DEF Less
  <2>3. PICK g \in Seq(Item) :
          /\ Swap(h, j, c) = g /\ Len(g) = Len(h)
          /\ g[j].opp = h[c].opp /\ g[c].opp = h[j].opp
          /\ \A k \in DOMAIN h \ {j, c} : g[k] = h[k]
    <3>1. j \in DOMAIN h /\ c \in DOMAIN h
      BY <1>1, <2>1
    <3> HIDE DEF h, j, c
    <3> QED  BY <1>1, <3>1, SwapGives
  <2>4. DownPass(s, n) = [heap |-> g, at |-> c]
    <3>1. DownPass(s, n) = [heap |-> Swap(h, j, c), at |-> c]
      <4>1. ~(l > n \/ ~Less(h, c, j))
        <5>1. l \in Nat
          BY <1>1
        <5> HIDE DEF c, l
        <5> QED  BY <1>8, <5>1
      <4> HIDE DEF c, l, h, j
      <4> QED  BY <1>0, <4>1
    <3> QED  BY <2>3, <3>1
  <2>5. Rearranged(g, h0)
    BY <1>1, <2>1, <2>3, SwapRearranges
  <2> DEFINE new(i) == g[i].opp.score
  <2>6. /\ new(j) = score(c) /\ new(c) = score(j)
        /\ \A k \in 1 .. Len(h) : k # j /\ k # c => new(k) = score(k)
    BY <1>1, <2>3
  <2>7. \A i \in 2 .. n : i \in 1 .. Len(h) /\ i \div 2 \in 1 .. Len(h) /\ i \div 2 < i
    BY <1>1, Halves
  <2> HIDE DEF new, score, c
  <2>8. ASSUME NEW i \in 2 .. n, i \div 2 # c PROVE new(i) <= new(i \div 2)
    <3> DEFINE q == i \div 2
    <3>1. q \in 1 .. Len(h) /\ i \in 1 .. Len(h)
      BY <2>7
    <3>2. CASE i = c
      <4>1. new(i) = score(j) /\ q = j /\ new(q) = score(c)
        BY <2>1, <2>6, <3>2
      <4> QED  BY <1>1, <1>2, <2>1, <2>2, <4>1
    <3>3. CASE i # c /\ q = j
      <4>1. score(i) <= score(c) /\ i # j
        BY <2>1, <2>7, <3>3
      <4> QED  BY <2>6, <3>1, <3>3, <4>1
    <3>4. CASE i = j
      <4>1. score(c) <= score(q) /\ q # j /\ q # c
        BY <1>1, <1>4, <2>1, <2>7, <2>8, <3>4
      <4> QED  BY <2>6, <3>1, <3>4, <4>1
    <3>5. CASE i # c /\ i # j /\ q # j
      BY <1>3, <2>6, <2>8, <3>1, <3>5
    <3> QED  BY <3>2, <3>3, <3>4, <3>5
  <2>9. ASSUME NEW i \in 2 .. n, i \div 2 = c PROVE new(i) <= new(c \div 2)
    <3>1. i # c /\ i # j /\ i \in 1 .. Len(h) /\ c # j
      BY <1>1, <2>1, <2>7, <2>9
    <3>2. score(i) <= score(c)
      BY <1>3, <2>9, <3>1
    <3> QED  BY <2>1, <2>6, <3>1, <3>2
  <2>10. Sinking([heap |-> g, at |-> c], n)
    <3>1. c \in DOMAIN g /\ n <= Len(g)
      BY <1>1, <2>1, <2>3
    <3> QED  BY <2>8, <2>9, <3>1 DEF Sinking, Below, new
  <2>11. [heap |-> g, at |-> c] \in Sifting
    BY <2>1 DEF Sifting
  <2>12. \A k \in DOMAIN h : k > n => g[k] = h[k]
    BY <1>1, <2>1, <2>3
  <2>13. c <= n
    BY <2>1
  <2> QED  BY <2>1, <2>4, <2>5, <2>10, <2>11, <2>12, <2>13
<1> QED  BY <1>1, <1>7, <1>8

LEMMA DownSifts ==
    ASSUME NEW h \in Seq(Item), NEW n \in Nat, Sinking([heap |-> h, at |-> 1], n),
           NEW h0, Rearranged(h, h0)
    PROVE  /\ Rearranged(Down(h, 1, n), h0) /\ Ordered(Down(h, 1, n), n)
           /\ \A k \in DOMAIN h : k > n => Down(h, 1, n)[k] = h[k]
<1> DEFINE start == [heap |-> h, at |-> 1]
           Same(g) == Len(g) = Len(h) /\ \A k \in DOMAIN h : k > n => g[k] = h[k]
           U == {s \in Sifting : Sinking(s, n) /\ Rearranged(s.heap, h0) /\ Same(s.heap)}
           pass == [s \in Sifting |-> DownPass(s, n)]
           left == [s \in Sifting |-> IF s.at <= n THEN n - s.at ELSE 0]
           end == Repeat(pass, start, n)
<1>1. start \in U /\ left[start] <= n
  BY DEF Rearranged, Sifting
<1>2. ASSUME NEW s \in U
      PROVE  /\ pass[s] \in U /\ left[s] \in Nat
             /\ \/ left[pass[s]] < left[s]
                \/ pass[s] = s /\ Ordered(s.heap, n)
  <2> DEFINE t == DownPass(s, n)
  <2>1. pass[s] = t /\ left[s] = (IF s.at <= n THEN n - s.at ELSE 0) /\ s.at \in Nat
    BY DEF Sifting
  <2>2. /\ t \in Sifting /\ Sinking(t, n) /\ Rearranged(t.heap, h0)
        /\ \A k \in DOMAIN s.heap : k > n => t.heap[k] = s.heap[k]
        /\ \/ s.at < t.at /\ t.at <= n
           \/ t = s /\ Ordered(s.heap, n)
    BY SinkingPass
  <2> HIDE DEF t
  <2>3. Same(t.heap)
    <3>1. s.heap \in Seq(Item) /\ Len(s.heap) = Len(h0) /\ Len(t.heap) = Len(h0) /\ Len(s.heap) = Len(h)
      BY <2>2 DEF Rearranged
    <3>2. DOMAIN s.heap = DOMAIN h
      BY <3>1
    <3> QED  BY <2>2, <3>1, <3>2
  <2>4. left[t] = (IF t.at <= n THEN n - t.at ELSE 0) /\ t.at \in Nat
    BY <2>2 DEF Sifting
  <2>5. left[s] \in Nat /\ (s.at < t.at /\ t.at <= n => left[t] < left[s])
    BY <2>1, <2>4
  <2> QED  BY <2>1, <2>2, <2>3, <2>5
<1>3. end \in U /\ pass[end] = end
  <2> HIDE DEF start, U, pass, left
  <2> QED  BY <1>1, <1>2, RepeatEnds
<1>4. Ordered(end.heap, n)
  <2> HIDE DEF start, U, pass, left, end
  <2> QED  BY <1>2, <1>3
<1> QED  BY <1>3, <1>4 DEF Down

-----------------------------------------------------------------------------
(* heap.Push and heap.Pop. *)

Heap(h) == h \in Seq(Item) /\ Indexed(h) /\ Distinct(h) /\ Ordered(h, Len(h))

LEMMA RootIsBest ==
    ASSUME NEW h, Heap(h), NEW i \in DOMAIN h
    PROVE  h[i].opp.score <= h[1].opp.score
<1> DEFINE score(k) == h[k].opp.score
           G == {m \in Nat : \A k \in 1 .. Len(h) : k <= m => score(k) <= score(1)}
<1>1. h \in Seq(Item) /\ Len(h) \in Nat /\ i \in 1 .. Len(h) /\ 1 \in 1 .. Len(h)
  BY DEF Heap
<1>2. \A k \in 1 .. Len(h) : score(k) \in Int
  BY <1>1, Scored
<1>3. \A k \in 2 .. Len(h) : score(k) <= score(k \div 2)
  BY DEF Heap, Ordered, Below
<1> HIDE DEF score
<1>4. 0 \in G
  OBVIOUS
<1>5. ASSUME NEW m \in G PROVE m + 1 \in G
  <2> SUFFICES ASSUME NEW k \in 1 .. Len(h), k = m + 1 PROVE score(k) <= score(1)
    OBVIOUS
  <2>1. CASE k = 1
    BY <1>1, <1>2, <2>1
  <2>2. CASE k # 1
    <3>1. k \div 2 \in 1 .. k - 1
      BY <2>2, Halves
    <3>2. k \in 2 .. Len(h) /\ k \div 2 \in 1 .. Len(h) /\ k \div 2 <= m
      BY <1>1, <2>2, <3>1
    <3>3. score(k) <= score(k \div 2) /\ score(k \div 2) <= score(1)
      BY <1>3, <3>2
    <3> QED  BY <1>1, <1>2, <3>2, <3>3
  <2> QED  BY <2>1, <2>2
<1>6. G = Nat
  <2> HIDE DEF G
  <2> QED  BY <1>4, <1>5, AllNumbers DEF G
<1>7. i \in G
  BY <1>1, <1>6
<1> QED  BY <1>1, <1>7 DEF score

LEMMA PushGives ==
    ASSUME NEW h, Heap(h), NEW o \in Opportunity, o \notin OppsOf(h)
    PROVE  Heap(Push(h, o)) /\ OppsOf(Push(h, o)) = OppsOf(h) \cup {o}
<1> DEFINE x == [opp |-> o, index |-> Len(h)]
           g == Append(h, x)
           n == Len(h) + 1
<1>1. h \in Seq(Item) /\ Len(h) \in Nat /\ DOMAIN h = 1 .. Len(h) /\ x \in Item
  BY DEF Heap, Item
<1>2. /\ g \in Seq(Item) /\ Len(g) = n /\ DOMAIN g = 1 .. n /\ g[n].opp = o /\ g[n].index = n - 1
      /\ \A k \in 1 .. Len(h) : g[k] = h[k]
  BY <1>1
<1> HIDE DEF g, x
<1>3. Indexed(g)
  BY <1>1, <1>2 DEF Heap, Indexed
<1>4. OppsOf(g) = OppsOf(h) \cup {o}
  BY <1>1, <1>2 DEF OppsOf
<1>5. Distinct(g)
  <2>1. \A k \in 1 .. Len(h) : g[k].opp # o
    BY <1>1, <1>2 DEF OppsOf
  <2>2. \A k, l \in 1 .. Len(h) : g[k].opp = g[l].opp => k = l
    BY <1>1, <1>2 DEF Heap, Distinct
  <2> QED  BY <1>1, <1>2, <2>1, <2>2 DEF Distinct
<1>6. Rising([heap |-> g, at |-> n])
  <2>1. ASSUME NEW i \in 2 .. n, i # n PROVE Below(g, i)
    <3>1. i \in 2 .. Len(h) /\ i \div 2 \in 1 .. Len(h)
      <4>1. i \div 2 \in 1 .. i - 1
        BY Halves
      <4> QED  BY <1>1, <2>1, <4>1
    <3> QED  BY <1>1, <1>2, <3>1 DEF Heap, Ordered, Below
  <2>2. \A i \in 2 .. n : i \div 2 # n
    <3> SUFFICES ASSUME NEW i \in 2 .. n PROVE i \div 2 # n
      OBVIOUS
    <3>1. i \div 2 \in 1 .. i - 1
      BY Halves
    <3> QED  BY <1>1, <3>1
  <2>3. n \in DOMAIN g
    BY <1>1, <1>2
  <2> QED  BY <1>2, <2>1, <2>2, <2>3 DEF Rising
<1>7. Rearranged(Up(g, n), g) /\ Ordered(Up(g, n), n)
  <2>1. n \in DOMAIN g
    BY <1>1, <1>2
  <2> QED  BY <1>2, <1>3, <1>6, <2>1, UpSifts
<1>8. Push(h, o) = Up(g, n)
  BY DEF Push, g, x
<1> QED  BY <1>2, <1>4, <1>5, <1>7, <1>8 DEF Heap, Rearranged

LEMMA PopGives ==
    ASSUME NEW h, Heap(h), h # <<>>
    PROVE  /\ Heap(PopRest(h)) /\ Len(PopRest(h)) = Len(h) - 1
           /\ OppsOf(PopRest(h)) = OppsOf(h) \ {h[1].opp} /\ h[1].opp \in OppsOf(h)
<1> DEFINE n == Len(h)
           d == Down(Swap(h, 1, n), 1, n - 1)
<1>1. h \in Seq(Item) /\ n \in Nat /\ n >= 1 /\ DOMAIN h = 1 .. n /\ 1 \in DOMAIN h /\ n \in DOMAIN h
  BY DEF Heap
<1>2. PICK g \in Seq(Item) :
        /\ Swap(h, 1, n) = g /\ Len(g) = n
        /\ g[n].opp = h[1].opp
        /\ \A k \in DOMAIN h \ {1, n} : g[k] = h[k]
  <2> HIDE DEF n
  <2> QED  BY <1>1, SwapGives DEF n
<1>3. Rearranged(g, h)
  <2>1. Rearranged(h, h)
    BY <1>1 DEF Rearranged, Heap
  <2> QED  BY <1>1, <1>2, <2>1, SwapRearranges
<1>4. Sinking([heap |-> g, at |-> 1], n - 1)
  <2>1. ASSUME NEW i \in 2 .. n - 1, i \div 2 # 1 PROVE Below(g, i)
    <3>1. i \div 2 \in 1 .. i - 1
      BY Halves
    <3>2. i \in 2 .. n /\ i \in DOMAIN h \ {1, n} /\ i \div 2 \in DOMAIN h \ {1, n}
      <4> DEFINE q == i \div 2
      <4>1. q \in 2 .. n - 1 /\ n \in Nat
        BY <1>1, <2>1, <3>1
      <4> HIDE DEF q, n
      <4>2. i \in 1 .. n /\ q \in 1 .. n /\ i # 1 /\ q # 1 /\ i # n /\ q # n
        BY <4>1
      <4> QED  BY <1>1, <4>1, <4>2 DEF q
    <3>3. Below(h, i)
      BY <3>2 DEF Heap, Ordered
    <3> QED  BY <1>2, <3>2, <3>3 DEF Below
  <2>2. 1 \in DOMAIN g /\ n - 1 <= Len(g)
    BY <1>1, <1>2
  <2> QED  BY <2>1, <2>2 DEF Sinking
<1>5. Rearranged(d, h) /\ Ordered(d, n - 1) /\ d[n] = g[n]
  <2>1. n - 1 \in Nat /\ n > n - 1 /\ n \in DOMAIN g
    BY <1>1, <1>2
  <2>2. /\ Rearranged(Down(g, 1, n - 1), h) /\ Ordered(Down(g, 1, n - 1), n - 1)
        /\ \A k \in DOMAIN g : k > n - 1 => Down(g, 1, n - 1)[k] = g[k]
    BY <1>3, <1>4, <2>1, DownSifts
  <2> QED  BY <1>2, <2>1, <2>2
<1>6. d \in Seq(Item) /\ Len(d) = n /\ Indexed(d) /\ OppsOf(d) = OppsOf(h) /\ Distinct(d)
  BY <1>5 DEF Rearranged, Heap
<1> HIDE DEF d
<1> DEFINE r == Front(d)
<1>7. /\ r \in Seq(Item) /\ Len(r) = n - 1 /\ DOMAIN r = 1 .. n - 1 /\ DOMAIN d = 1 .. n
      /\ \A k \in 1 .. n - 1 : r[k] = d[k]
  <2> HIDE DEF n
  <2> QED  BY <1>1, <1>6 DEF Front
<1> HIDE DEF r
<1>8. Indexed(r) /\ Distinct(r)
  <2>1. \A k \in DOMAIN r : k \in DOMAIN d /\ r[k] = d[k]
    BY <1>1, <1>7
  <2> QED  BY <1>6, <2>1 DEF Indexed, Distinct
<1>9. Ordered(r, n - 1)
  <2> SUFFICES ASSUME NEW i \in 2 .. n - 1 PROVE Below(r, i)
    BY DEF Ordered
  <2>1. i \div 2 \in 1 .. i - 1
    BY Halves
  <2>2. i \in 1 .. n - 1 /\ i \div 2 \in 1 .. n - 1
    BY <1>1, <2>1
  <2> QED  BY <1>5, <1>7, <2>2 DEF Ordered, Below
<1>10. OppsOf(r) = OppsOf(d) \ {d[n].opp}
  <2>1. \A k \in 1 .. n - 1 : d[k].opp # d[n].opp
    BY <1>1, <1>6, <1>7 DEF Distinct
  <2>2. ASSUME NEW o \in OppsOf(d), o # d[n].opp PROVE o \in OppsOf(r)
    <3>1. PICK k \in 1 .. n : o = d[k].opp
      BY <1>7 DEF OppsOf
    <3>2. k \in 1 .. n - 1
      BY <1>1, <2>2, <3>1
    <3> QED  BY <1>7, <3>1, <3>2 DEF OppsOf
  <2>3. ASSUME NEW o \in OppsOf(r) PROVE o \in OppsOf(d) /\ o # d[n].opp
    <3>1. PICK k \in 1 .. n - 1 : o = r[k].opp
      BY <1>7 DEF OppsOf
    <3>2. k \in DOMAIN d
      BY <1>1, <1>7
    <3> QED  BY <1>7, <2>1, <3>1, <3>2 DEF OppsOf
  <2> QED  BY <2>2, <2>3
<1>11. PopRest(h) = r
  BY DEF PopRest, r, d
<1>12. h[1].opp \in OppsOf(h)
  BY <1>1 DEF OppsOf
<1> QED  BY <1>2, <1>5, <1>6, <1>7, <1>8, <1>9, <1>10, <1>11, <1>12 DEF Heap

-----------------------------------------------------------------------------
(* The engine. *)

HeapInv ==
    /\ Heap(pq)
    /\ \A o \in OppsOf(pq) : o.id <= detected
    /\ detected \in Nat /\ now \in Nat

\* A batch of opportunities, with identifiers of their own, is pushed.
LEMMA AllPushed ==
    ASSUME HeapInv, NEW n \in Nat, NEW scores \in [1 .. n -> Int], ProcessUpdate(scores)
    PROVE  /\ Heap(pq') /\ detected' = detected + n
           /\ OppsOf(pq') = OppsOf(pq) \cup {Opp(detected + k, scores[k]) : k \in 1 .. n}
<1> DEFINE o(k) == Opp(detected + k, scores[k])
           Pushing == [heap : Seq(Item), pushed : Nat]
           U == {s \in Pushing : /\ s.pushed <= n /\ Heap(s.heap)
                              /\ OppsOf(s.heap) = OppsOf(pq) \cup {o(k) : k \in 1 .. s.pushed}}
           start == [heap |-> pq, pushed |-> 0]
           pass == [s \in Pushing |-> PushPass(s, scores)]
           left == [s \in Pushing |-> n - s.pushed]
           end == Repeat(pass, start, n)
<1>1. scores \in Seq(Int) /\ Len(scores) = n
  OBVIOUS
<1>2. \A k \in 1 .. n : o(k) \in Opportunity /\ o(k).id = detected + k
  BY DEF HeapInv, Opp, Opportunity
<1>3. start \in U /\ left[start] <= n
  <2>1. {o(k) : k \in 1 .. 0} = {}
    OBVIOUS
  <2> HIDE DEF o
  <2> QED  BY <2>1 DEF HeapInv, Heap
<1>4. ASSUME NEW s \in U
      PROVE  /\ pass[s] \in U /\ left[s] \in Nat
             /\ \/ left[pass[s]] < left[s]
                \/ pass[s] = s /\ s.pushed = n
  <2>1. /\ pass[s] = PushPass(s, scores) /\ left[s] = n - s.pushed
        /\ s.pushed \in Nat /\ s.pushed <= n
    OBVIOUS
  <2>2. CASE s.pushed = n
    <3>1. pass[s] = s
      BY <1>1, <2>1, <2>2 DEF PushPass
    <3> QED  BY <2>1, <2>2, <3>1
  <2>3. CASE s.pushed # n
    <3> DEFINE k == s.pushed + 1
               t == [heap |-> Push(s.heap, o(k)), pushed |-> k]
    <3>1. pass[s] = t
      BY <1>1, <2>1, <2>3 DEF PushPass
    <3>2. k \in 1 .. n /\ k \in Nat
      BY <2>1, <2>3
    <3>3. o(k) \notin OppsOf(s.heap)
      <4>1. \A p \in OppsOf(pq) : p.id \in Nat /\ p.id <= detected
        <5>1. ASSUME NEW p \in OppsOf(pq) PROVE p \in Opportunity
          BY <5>1, Scored DEF HeapInv, Heap, OppsOf
        <5> QED  BY <5>1 DEF HeapInv, Opportunity
      <4>2. \A l \in 1 .. s.pushed : o(l).id = detected + l /\ l < k
        BY <1>2, <2>1
      <4>3. o(k).id = detected + k
        BY <1>2, <3>2
      <4> HIDE DEF o, k
      <4>4. o(k) \notin OppsOf(pq)
        BY <3>2, <4>1, <4>3 DEF HeapInv
      <4>5. \A l \in 1 .. s.pushed : o(k) # o(l)
        BY <3>2, <4>2, <4>3 DEF HeapInv
      <4> QED  BY <4>4, <4>5
    <3>4. Heap(t.heap) /\ OppsOf(t.heap) = OppsOf(s.heap) \cup {o(k)}
      <4> HIDE DEF o, k
      <4> QED  BY <1>2, <3>2, <3>3, PushGives
    <3>5. {o(l) : l \in 1 .. k} = {o(l) : l \in 1 .. s.pushed} \cup {o(k)}
      <4>1. 1 .. k = (1 .. s.pushed) \cup {k}
        BY <2>1
      <4> HIDE DEF o, k
      <4> QED  BY <4>1
    <3>6. t \in Pushing /\ t.pushed = k /\ k <= n
      BY <3>2, <3>4 DEF Heap
    <3>7. t \in U
      <4> HIDE DEF o, k
      <4> QED  BY <3>4, <3>5, <3>6
    <3>8. left[t] = n - k
      BY <3>6
    <3> HIDE DEF t
    <3> QED  BY <2>1, <3>1, <3>2, <3>7, <3>8
  <2> QED  BY <2>2, <2>3
<1>5. end \in U /\ pass[end] = end
  <2> HIDE DEF start, U, pass, left
  <2> QED  BY <1>3, <1>4, RepeatEnds
<1>6. end.pushed = n
  <2> HIDE DEF start, U, pass, left, end
  <2> QED  BY <1>4, <1>5
<1>7. pq' = end.heap /\ detected' = detected + n
  BY <1>1 DEF ProcessUpdate
<1> QED  BY <1>5, <1>6, <1>7

\* The loop of DequeueTop stops at a fresh opportunity, having thrown away
\* only what is too old and not below what it left.
LEMMA Discarded ==
    ASSUME HeapInv
    PROVE  LET rest == Repeat([h \in Seq(Item) |-> DiscardPass(h)], pq, Len(pq))
           IN  /\ Heap(rest) /\ OppsOf(rest) \subseteq OppsOf(pq)
               /\ rest = <<>> \/ ~(now - rest[1].opp.detectedAt > TTL)
               /\ \A gone \in OppsOf(pq) \ OppsOf(rest) :
                    /\ now - gone.detectedAt > TTL
                    /\ \A kept \in OppsOf(rest) : kept.score <= gone.score
<1> DEFINE Dropped(h) ==
             \A gone \in OppsOf(pq) \ OppsOf(h) :
               /\ now - gone.detectedAt > TTL
               /\ \A kept \in OppsOf(h) : kept.score <= gone.score
           U == {h \in Seq(Item) : Heap(h) /\ OppsOf(h) \subseteq OppsOf(pq) /\ Dropped(h)}
           pass == [h \in Seq(Item) |-> DiscardPass(h)]
           left == [h \in Seq(Item) |-> Len(h)]
           rest == Repeat(pass, pq, Len(pq))
           Stopped(h) == h = <<>> \/ ~(now - h[1].opp.detectedAt > TTL)
<1>1. pq \in U /\ left[pq] <= Len(pq) /\ Len(pq) \in Nat
  BY DEF HeapInv, Heap
<1>2. ASSUME NEW h \in U
      PROVE  /\ pass[h] \in U /\ left[h] \in Nat
             /\ \/ left[pass[h]] < left[h]
                \/ pass[h] = h /\ Stopped(h)
  <2>1. pass[h] = DiscardPass(h) /\ left[h] = Len(h) /\ Len(h) \in Nat
    OBVIOUS
  <2>2. CASE Stopped(h)
    <3>1. pass[h] = h
      BY <2>1, <2>2 DEF DiscardPass, TooOld
    <3> QED  BY <2>1, <2>2, <3>1
  <2>3. CASE ~Stopped(h)
    <3> DEFINE r == PopRest(h)
    <3>1. pass[h] = r
      BY <2>1, <2>3 DEF DiscardPass, TooOld
    <3>2. /\ Heap(r) /\ Len(r) = Len(h) - 1
          /\ OppsOf(r) = OppsOf(h) \ {h[1].opp} /\ h[1].opp \in OppsOf(h)
      BY <2>3, PopGives
    <3> HIDE DEF r
    <3>3. \A kept \in OppsOf(h) : kept.score <= h[1].opp.score
      BY RootIsBest DEF OppsOf
    <3>4. Dropped(r)
      BY <2>3, <3>2, <3>3
    <3>5. r \in Seq(Item) /\ left[r] = Len(r)
      BY <3>2 DEF Heap
    <3> QED  BY <2>1, <3>1, <3>2, <3>4, <3>5
  <2> QED  BY <2>2, <2>3
<1>3. rest \in U /\ pass[rest] = rest
  <2> HIDE DEF U, pass, left
  <2> QED  BY <1>1, <1>2, RepeatEnds
<1>4. Stopped(rest)
  <2> HIDE DEF U, pass, left, rest, Stopped
  <2> QED  BY <1>2, <1>3
<1> QED  BY <1>3, <1>4

LEMMA Taking ==
    ASSUME HeapInv, DequeueTop
    PROVE  /\ Heap(pq') /\ OppsOf(pq') \subseteq OppsOf(pq)
           /\ \A gone \in OppsOf(pq) \ OppsOf(pq') : gone = handed' \/ now - gone.detectedAt > TTL
           /\ \/ pq' = <<>> /\ handed' = Nothing
                 /\ \A gone \in OppsOf(pq) : now - gone.detectedAt > TTL
              \/ /\ handed' \in OppsOf(pq) \ OppsOf(pq') /\ ~(now - handed'.detectedAt > TTL)
                 /\ \A gone \in OppsOf(pq) \ OppsOf(pq') : gone.score >= handed'.score
                 /\ \A kept \in OppsOf(pq') : kept.score <= handed'.score
<1> DEFINE rest == Repeat([h \in Seq(Item) |-> DiscardPass(h)], pq, Len(pq))
<1>1. /\ Heap(rest) /\ OppsOf(rest) \subseteq OppsOf(pq)
      /\ rest = <<>> \/ ~(now - rest[1].opp.detectedAt > TTL)
      /\ \A gone \in OppsOf(pq) \ OppsOf(rest) :
           /\ now - gone.detectedAt > TTL
           /\ \A kept \in OppsOf(rest) : kept.score <= gone.score
  BY Discarded
<1>2. /\ pq' = IF rest = <<>> THEN rest ELSE PopRest(rest)
      /\ handed' = IF rest = <<>> THEN Nothing ELSE rest[1].opp
  BY DEF DequeueTop
<1> HIDE DEF rest
<1>3. CASE rest = <<>>
  <2>1. OppsOf(rest) = {}
    BY <1>3 DEF OppsOf
  <2> QED  BY <1>1, <1>2, <1>3, <2>1
<1>4. CASE rest # <<>>
  <2> DEFINE top == rest[1].opp
             r == PopRest(rest)
  <2>1. /\ Heap(r) /\ OppsOf(r) = OppsOf(rest) \ {top} /\ top \in OppsOf(rest)
    BY <1>1, <1>4, PopGives
  <2>2. \A kept \in OppsOf(rest) : kept.score <= top.score /\ kept.score \in Int
    <3>1. \A i \in DOMAIN rest : rest[i].opp.score \in Int
      BY <1>1, Scored DEF Heap
    <3> QED  BY <1>1, <3>1, RootIsBest DEF OppsOf
  <2>3. \A gone \in OppsOf(pq) : gone.score \in Int
    BY Scored DEF HeapInv, Heap, OppsOf
  <2>4. pq' = r /\ handed' = top
    BY <1>2, <1>4
  <2> HIDE DEF r, top
  <2>5. \A gone \in OppsOf(pq) \ OppsOf(r) : gone.score >= top.score /\ (gone = top \/ now - gone.detectedAt > TTL)
    BY <1>1, <2>1, <2>2, <2>3
  <2>6. ~(now - top.detectedAt > TTL)
    BY <1>1, <1>4 DEF top
  <2> QED  BY <1>1, <2>1, <2>2, <2>4, <2>5, <2>6
<1> QED  BY <1>3, <1>4

LEMMA HeapInvStep == HeapInv /\ [Next]_vars => HeapInv'
<1> SUFFICES ASSUME HeapInv, [Next]_vars
             PROVE  HeapInv'
  OBVIOUS
<1>1. ASSUME NEW k \in 1 .. MaxDetected, NEW scores \in [1 .. k -> Scores],
             ProcessUpdate(scores)
      PROVE  HeapInv'
  <2>1. k \in Nat /\ scores \in [1 .. k -> Int]
    <3>1. \A i \in 1 .. k : scores[i] \in Int
      BY EngineConstants
    <3> QED  BY <3>1, EngineConstants
  <2>2. /\ Heap(pq') /\ detected' = detected + k
        /\ OppsOf(pq') = OppsOf(pq) \cup {Opp(detected + i, scores[i]) : i \in 1 .. k}
    BY <1>1, <2>1, AllPushed
  <2>3. \A o \in OppsOf(pq) : o.id \in Nat
    BY Scored DEF HeapInv, Heap, OppsOf, Opportunity
  <2>4. \A o \in OppsOf(pq') : o.id <= detected'
    BY <2>1, <2>2, <2>3 DEF HeapInv, Opp
  <2>5. detected' \in Nat /\ now' = now
    BY <1>1, <2>1, <2>2 DEF HeapInv, ProcessUpdate
  <2> QED  BY <2>2, <2>4, <2>5 DEF HeapInv
<1>2. CASE DequeueTop
  <2>1. Heap(pq') /\ OppsOf(pq') \subseteq OppsOf(pq)
    BY <1>2, Taking
  <2> QED  BY <1>2, <2>1 DEF HeapInv, DequeueTop
<1>3. CASE Tick
  BY <1>3 DEF HeapInv, Tick
<1>4. CASE UNCHANGED vars
  BY <1>4 DEF HeapInv, vars
<1> QED  BY <1>1, <1>2, <1>3, <1>4 DEF Next

LEMMA HeapInvInit == Init => HeapInv
<1> SUFFICES ASSUME Init PROVE HeapInv
  OBVIOUS
<1>1. pq = <<>> /\ detected = 0 /\ now = 0
  BY DEF Init
<1>2. Heap(<<>>) /\ OppsOf(<<>>) = {}
  BY DEF Heap, Indexed, Distinct, Ordered, OppsOf
<1> QED  BY <1>1, <1>2 DEF HeapInv

LEMMA HeapInvHolds == Spec => []HeapInv
<1> QED  BY HeapInvInit, HeapInvStep, PTL DEF Spec

\* Every item knows its position, whatever was pushed and popped.
THEOREM IndexIsPositionHolds == Spec => []IndexIsPosition
<1>1. HeapInv => IndexIsPosition
  BY DEF HeapInv, Heap, Indexed, IndexIsPosition
<1> QED  BY <1>1, HeapInvHolds, PTL

LEMMA QueueStep ==
    ASSUME HeapInv, [Next]_vars
    PROVE  [Queue!Next]_(Queue!vars)
<1>1. ASSUME NEW k \in 1 .. MaxDetected, NEW scores \in [1 .. k -> Scores],
             ProcessUpdate(scores)
      PROVE  Queue!Enqueue
  <2>1. k \in Nat /\ scores \in [1 .. k -> Int]
    <3>1. \A i \in 1 .. k : scores[i] \in Int
      BY EngineConstants
    <3> QED  BY <3>1, EngineConstants
  <2>2. /\ Heap(pq') /\ detected' = detected + k
        /\ OppsOf(pq') = OppsOf(pq) \cup {Opp(detected + i, scores[i]) : i \in 1 .. k}
    BY <1>1, <2>1, AllPushed
  <2>3. handed' = Nothing /\ now' = now
    BY <1>1 DEF ProcessUpdate
  <2>4. \A o \in OppsOf(pq') \ OppsOf(pq) : o.detectedAt = now
    BY <2>2 DEF Opp
  <2> QED  BY <2>2, <2>3, <2>4 DEF Queue!Enqueue, OppsOf
<1>2. CASE DequeueTop
  <2>1. UNCHANGED now
    BY <1>2 DEF DequeueTop
  <2>2. CASE /\ pq' = <<>> /\ handed' = Nothing
             /\ \A gone \in OppsOf(pq) : now - gone.detectedAt > TTL
    BY <2>1, <2>2 DEF Queue!DequeueTop, Queue!FindNothing, Queue!Fresh,
       Queue!TooOld, OppsOf, Queue!Next
  <2>3. CASE ~ /\ pq' = <<>> /\ handed' = Nothing
               /\ \A gone \in OppsOf(pq) : now - gone.detectedAt > TTL
    <3>1. /\ OppsOf(pq') \subseteq OppsOf(pq)
          /\ \A gone \in OppsOf(pq) \ OppsOf(pq') : gone = handed' \/ now - gone.detectedAt > TTL
          /\ handed' \in OppsOf(pq) \ OppsOf(pq') /\ ~(now - handed'.detectedAt > TTL)
          /\ \A gone \in OppsOf(pq) \ OppsOf(pq') : gone.score >= handed'.score
          /\ \A kept \in OppsOf(pq') : kept.score <= handed'.score
      BY <1>2, <2>3, Taking
    <3>2. PICK top : top = handed'
      OBVIOUS
    <3>3. top \in Queue!Fresh /\ Queue!HandOut(top)
      BY <2>1, <3>1, <3>2 DEF Queue!HandOut, Queue!Fresh, Queue!TooOld, OppsOf
    <3> QED  BY <3>3, Zenon DEF Queue!DequeueTop, Queue!Next
  <2> QED  BY <2>2, <2>3
<1>3. CASE Tick
  BY <1>3 DEF HeapInv, Tick, Queue!Next, Queue!TimePasses
<1>4. CASE UNCHANGED vars
  BY <1>4 DEF vars, Queue!vars
<1> QED  BY <1>1, <1>2, <1>3, <1>4 DEF Next, Queue!Next

\* The heap does what the loop takes the queue to do.
THEOREM HeapImplementsQueue == Spec => ImplementsQueue
<1>1. Init => Queue!Init
  BY DEF Init, Queue!Init
<1>2. HeapInv /\ [Next]_vars => [Queue!Next]_(Queue!vars)
  BY QueueStep
<1> QED  BY <1>1, <1>2, HeapInvHolds, PTL DEF Spec, ImplementsQueue, Queue!Spec

-----------------------------------------------------------------------------
(* The strategies' cooldowns. *)

ClockInv ==
    /\ now \in Int
    /\ todo # <<>> => "now" \in DOMAIN call /\ call.now \in Int

\* The time kept for a pair is that of its last emission: an emission is never
\* later than what the cooldown is counted from.
FundingInv ==
    /\ fundingOpps \in Seq([pair : Venues \X Venues, at : Int])
    /\ \A p \in DOMAIN lastEmit : lastEmit[p] \in Int
    /\ \A i \in DOMAIN fundingOpps : /\ fundingOpps[i].pair \in DOMAIN lastEmit
                                     /\ fundingOpps[i].at \in Int
                                     /\ fundingOpps[i].at <= lastEmit[fundingOpps[i].pair]
    /\ \A i, j \in DOMAIN fundingOpps :
         i < j /\ fundingOpps[i].pair = fundingOpps[j].pair
           => fundingOpps[j].at - fundingOpps[i].at >= FundingCooldown

CycleInv ==
    /\ cycleOpps \in Seq([market : Exchanges, at : Int])
    /\ \A m \in DOMAIN last : last[m] \in Int
    /\ \A i \in DOMAIN cycleOpps : /\ cycleOpps[i].market \in DOMAIN last
                                   /\ cycleOpps[i].at \in Int
                                   /\ cycleOpps[i].at <= last[cycleOpps[i].market]
    /\ \A i, j \in DOMAIN cycleOpps :
         i < j /\ cycleOpps[i].market = cycleOpps[j].market
           => cycleOpps[j].at - cycleOpps[i].at >= CycleCooldown
    /\ todo # <<>> => call.exchange \in Exchanges /\ "exchange" \in DOMAIN call

\* What follows the last element of a sequence.
LEMMA AppendIndices ==
  ASSUME NEW S, NEW q \in Seq(S), NEW x \in S
  PROVE  /\ Append(q, x) \in Seq(S)
         /\ Len(q) \in Nat /\ \A i \in DOMAIN q : i \in Nat /\ i <= Len(q)
         /\ \A i \in DOMAIN Append(q, x) :
              \/ i \in DOMAIN q /\ Append(q, x)[i] = q[i]
              \/ i = Len(q) + 1 /\ Append(q, x)[i] = x
  OBVIOUS

LEMMA FundingEmits ==
  ASSUME FundingInv, NEW p \in Venues \X Venues, NEW at \in Int,
         ~Strat!Cooling(lastEmit, p, at, FundingCooldown),
         lastEmit' = Strat!Emitted(lastEmit, p, at),
         fundingOpps' = Append(fundingOpps, [pair |-> p, at |-> at])
  PROVE  FundingInv'
<1> DEFINE o == [pair |-> p, at |-> at]
           R == [pair : Venues \X Venues, at : Int]
<1>1. /\ DOMAIN lastEmit' = DOMAIN lastEmit \cup {p}
      /\ lastEmit'[p] = at
      /\ \A x \in DOMAIN lastEmit \ {p} : lastEmit'[x] = lastEmit[x]
  BY DEF Strat!Emitted
<1>2. p \in DOMAIN lastEmit => lastEmit[p] \in Int /\ at - lastEmit[p] >= FundingCooldown
  BY FundingConstants DEF Strat!Cooling, FundingInv
<1>3. o \in R /\ o.pair = p /\ o.at = at
  OBVIOUS
<1>4. /\ fundingOpps' \in Seq(R)
      /\ Len(fundingOpps) \in Nat
      /\ \A i \in DOMAIN fundingOpps : i \in Nat /\ i <= Len(fundingOpps)
      /\ \A i \in DOMAIN fundingOpps' :
           \/ i \in DOMAIN fundingOpps /\ fundingOpps'[i] = fundingOpps[i]
           \/ i = Len(fundingOpps) + 1 /\ fundingOpps'[i] = o
  BY <1>3, AppendIndices DEF FundingInv
<1> HIDE DEF o, R
<1>5. \A x \in DOMAIN lastEmit' : lastEmit'[x] \in Int
  BY <1>1 DEF FundingInv
<1>6. ASSUME NEW i \in DOMAIN fundingOpps, fundingOpps[i].pair = p
      PROVE  at - fundingOpps[i].at >= FundingCooldown /\ fundingOpps[i].at <= at
  BY <1>2, <1>6, FundingConstants DEF FundingInv
<1>7. \A i \in DOMAIN fundingOpps' : /\ fundingOpps'[i].pair \in DOMAIN lastEmit'
                                     /\ fundingOpps'[i].at \in Int
                                     /\ fundingOpps'[i].at <= lastEmit'[fundingOpps'[i].pair]
  BY <1>1, <1>3, <1>4, <1>6 DEF FundingInv
<1>8. ASSUME NEW i \in DOMAIN fundingOpps', NEW j \in DOMAIN fundingOpps', i < j,
             fundingOpps'[i].pair = fundingOpps'[j].pair
      PROVE  fundingOpps'[j].at - fundingOpps'[i].at >= FundingCooldown
  <2>1. i \in DOMAIN fundingOpps /\ fundingOpps'[i] = fundingOpps[i]
    BY <1>4, <1>8
  <2>2. CASE j \in DOMAIN fundingOpps /\ fundingOpps'[j] = fundingOpps[j]
    BY <1>8, <2>1, <2>2 DEF FundingInv
  <2>3. CASE fundingOpps'[j] = o
    BY <1>3, <1>6, <1>8, <2>1, <2>3
  <2> QED  BY <1>4, <2>2, <2>3
<1> QED  BY <1>4, <1>5, <1>7, <1>8 DEF FundingInv, R

LEMMA CycleEmits ==
  ASSUME CycleInv, NEW m \in Exchanges, NEW at \in Int,
         ~Strat!CyclesCooling(m, at),
         last' = [x \in DOMAIN last \cup {m} |-> IF x = m THEN at ELSE last[x]],
         cycleOpps' = Append(cycleOpps, [market |-> m, at |-> at]),
         todo' # <<>> => call'.exchange \in Exchanges /\ "exchange" \in DOMAIN call'
  PROVE  CycleInv'
<1> DEFINE o == [market |-> m, at |-> at]
           R == [market : Exchanges, at : Int]
<1>1. /\ DOMAIN last' = DOMAIN last \cup {m}
      /\ last'[m] = at
      /\ \A x \in DOMAIN last \ {m} : last'[x] = last[x]
  OBVIOUS
<1>2. m \in DOMAIN last => last[m] \in Int /\ at - last[m] >= CycleCooldown
  BY TriangularConstants DEF Strat!CyclesCooling, CycleInv
<1>3. o \in R /\ o.market = m /\ o.at = at
  OBVIOUS
<1>4. /\ cycleOpps' \in Seq(R)
      /\ Len(cycleOpps) \in Nat
      /\ \A i \in DOMAIN cycleOpps : i \in Nat /\ i <= Len(cycleOpps)
      /\ \A i \in DOMAIN cycleOpps' :
           \/ i \in DOMAIN cycleOpps /\ cycleOpps'[i] = cycleOpps[i]
           \/ i = Len(cycleOpps) + 1 /\ cycleOpps'[i] = o
  BY <1>3, AppendIndices DEF CycleInv
<1> HIDE DEF o, R
<1>5. \A x \in DOMAIN last' : last'[x] \in Int
  BY <1>1 DEF CycleInv
<1>6. ASSUME NEW i \in DOMAIN cycleOpps, cycleOpps[i].market = m
      PROVE  at - cycleOpps[i].at >= CycleCooldown /\ cycleOpps[i].at <= at
  BY <1>2, <1>6, TriangularConstants DEF CycleInv
<1>7. \A i \in DOMAIN cycleOpps' : /\ cycleOpps'[i].market \in DOMAIN last'
                                   /\ cycleOpps'[i].at \in Int
                                   /\ cycleOpps'[i].at <= last'[cycleOpps'[i].market]
  BY <1>1, <1>3, <1>4, <1>6 DEF CycleInv
<1>8. ASSUME NEW i \in DOMAIN cycleOpps', NEW j \in DOMAIN cycleOpps', i < j,
             cycleOpps'[i].market = cycleOpps'[j].market
      PROVE  cycleOpps'[j].at - cycleOpps'[i].at >= CycleCooldown
  <2>1. i \in DOMAIN cycleOpps /\ cycleOpps'[i] = cycleOpps[i]
    BY <1>4, <1>8
  <2>2. CASE j \in DOMAIN cycleOpps /\ cycleOpps'[j] = cycleOpps[j]
    BY <1>8, <2>1, <2>2 DEF CycleInv
  <2>3. CASE cycleOpps'[j] = o
    BY <1>3, <1>6, <1>8, <2>1, <2>3
  <2> QED  BY <1>4, <2>2, <2>3
<1> QED  BY <1>4, <1>5, <1>7, <1>8 DEF CycleInv, R

EmissionInv == ClockInv /\ FundingInv /\ CycleInv

LEMMA InitEmission == Strat!Init => EmissionInv
  BY DEF Strat!Init, EmissionInv, ClockInv, FundingInv, CycleInv, Strat!FundingInit, Strat!TriangularInit

\* A strategy is shown the update: its time and its exchange stay what they
\* were, and nothing is emitted by spatial's two steps.
LEMMA DetectEmission ==
  ASSUME EmissionInv, Strat!DetectStep
  PROVE  EmissionInv'
<1>1. /\ todo # <<>> /\ now' = now
      /\ "now" \in DOMAIN call /\ call.now \in Int
      /\ "exchange" \in DOMAIN call /\ call.exchange \in Exchanges
  BY DEF Strat!DetectStep, Strat!Next1, EmissionInv, ClockInv, CycleInv
<1>2. call' = call \/ call' = [call EXCEPT !.cfg = cfg]
  BY DEF Strat!DetectStep, Strat!CopyConfig, Strat!spatialVars
<1>3. /\ "now" \in DOMAIN call' /\ call'.now = call.now
      /\ "exchange" \in DOMAIN call' /\ call'.exchange = call.exchange
  BY <1>1, <1>2
<1>4. ClockInv'
  BY <1>1, <1>3 DEF EmissionInv, ClockInv
<1>5. CASE UNCHANGED <<Strat!fundingVars, Strat!triangularVars>>
  BY <1>1, <1>3, <1>4, <1>5
  DEF EmissionInv, FundingInv, CycleInv, Strat!fundingVars, Strat!triangularVars
<1>6. CASE UNCHANGED Strat!fundingVars
           /\ Strat!CycleDetect(call.exchange, call.snapshot[call.exchange], call.now)
  <2>1. FundingInv'
    BY <1>6 DEF EmissionInv, FundingInv, Strat!fundingVars
  <2>2. CycleInv'
    <3>1. CASE UNCHANGED <<last, cycleOpps>>
      BY <1>1, <1>3, <3>1 DEF EmissionInv, CycleInv
    <3>2. CASE /\ ~Strat!CyclesCooling(call.exchange, call.now)
               /\ last' = [x \in DOMAIN last \cup {call.exchange} |->
                             IF x = call.exchange THEN call.now ELSE last[x]]
               /\ cycleOpps' = Append(cycleOpps, [market |-> call.exchange, at |-> call.now])
      BY <1>1, <1>3, <3>2, CycleEmits DEF EmissionInv
    <3> QED  BY <1>6, <3>1, <3>2 DEF Strat!CycleDetect
  <2> QED  BY <1>4, <2>1, <2>2 DEF EmissionInv
<1>7. CASE UNCHANGED Strat!triangularVars /\ Strat!FundingDetect(call.now)
  <2>1. CycleInv'
    BY <1>1, <1>3, <1>7 DEF EmissionInv, CycleInv, Strat!triangularVars
  <2>2. CASE UNCHANGED <<lastEmit, fundingOpps>>
    BY <1>4, <2>1, <2>2 DEF EmissionInv, FundingInv
  <2>3. ASSUME NEW low \in Venues, NEW high \in Venues,
               ~Strat!Cooling(lastEmit, <<low, high>>, call.now, FundingCooldown),
               lastEmit' = Strat!Emitted(lastEmit, <<low, high>>, call.now),
               fundingOpps' = Append(fundingOpps, [pair |-> <<low, high>>, at |-> call.now])
        PROVE  EmissionInv'
    <3>1. <<low, high>> \in Venues \X Venues
      OBVIOUS
    <3>2. FundingInv'
      BY <1>1, <2>3, <3>1, FundingEmits DEF EmissionInv
    <3> QED  BY <1>4, <2>1, <3>2 DEF EmissionInv
  <2> QED  BY <1>7, <2>2, <2>3 DEF Strat!FundingDetect, Strat!Lowest, Strat!Highest, Strat!fundingVars
<1> QED  BY <1>5, <1>6, <1>7 DEF Strat!DetectStep

LEMMA NextEmission == EmissionInv /\ [Strat!Next]_(Strat!vars) => EmissionInv'
<1> SUFFICES ASSUME EmissionInv, [Strat!Next]_(Strat!vars) PROVE EmissionInv'
  OBVIOUS
<1>1. CASE Strat!Tick
  BY <1>1 DEF Strat!Tick, EmissionInv, ClockInv, FundingInv, CycleInv,
              Strat!spatialVars, Strat!fundingVars, Strat!triangularVars
<1>2. ASSUME NEW e \in Exchanges, NEW q, Strat!ProcessUpdate(e, q) PROVE EmissionInv'
  <2>1. /\ call' = [exchange |-> e, snapshot |-> quotes', now |-> now, cfg |-> Unknown]
        /\ now' = now /\ UNCHANGED <<Strat!fundingVars, Strat!triangularVars>>
    BY <1>2 DEF Strat!ProcessUpdate
  <2> QED  BY <2>1 DEF EmissionInv, ClockInv, FundingInv, CycleInv,
                       Strat!fundingVars, Strat!triangularVars
<1>3. CASE Strat!DetectStep
  BY <1>3, DetectEmission
<1>4. CASE UNCHANGED <<now, todo, call, lastEmit, fundingOpps, last, cycleOpps>>
  BY <1>4 DEF EmissionInv, ClockInv, FundingInv, CycleInv
<1>5. CASE Strat!Trade \/ Strat!Setter \/ Strat!Polling \/ UNCHANGED Strat!vars
  BY <1>4, <1>5 DEF Strat!Trade, Strat!RecordTradeReturn, Strat!Setter, Strat!Set,
                    Strat!Polling, Strat!Poll, Strat!vars, Strat!engineVars,
                    Strat!spatialVars, Strat!fundingVars, Strat!triangularVars
<1> QED  BY <1>1, <1>2, <1>3, <1>5 DEF Strat!Next

\* Emissions of a pair, or of a market, are a cooldown apart, for any
\* cooldowns and any number of pairs and markets (funding.go:160-168,
\* triangular.go:189-198).
THEOREM EmissionsAlwaysSpaced == Strat!Spec => []EmissionsSpaced
<1>1. EmissionInv => EmissionsSpaced
  BY DEF EmissionInv, FundingInv, CycleInv, EmissionsSpaced, FundingSpaced, CyclesSpaced
<1> QED  BY <1>1, InitEmission, NextEmission, PTL DEF Strat!Spec
-----------------------------------------------------------------------------
(* Sums over a window that slides: the facts DepthWalkProofs proves of any sum. *)

Walk == INSTANCE DepthWalkProofs
    WITH MinPrice <- 0, MaxPrice <- 0, Quotes <- {}, N <- 1, Step <- 0, MinQty <- 0,
         MaxQty <- 0, RealBooks <- [s \in {"ask", "bid"} |-> {}], Targets <- {},
         side <- "ask", levels <- <<>>, target <- 0, next <- 1, filled <- 0,
         costSum <- 0, pc <- "loop"

LEMMA WalkConstantsHold == Walk!WalkConstants
  BY DEF Walk!WalkConstants, Walk!Sides, Walk!Level, Walk!Prices

LEMMA SameSums ==
    ASSUME NEW a, NEW S
    PROVE  /\ Walk!SumFunctionOnSet(a, S) = SumFunctionOnSet(a, S)
           /\ Walk!IsFiniteSet(S) <=> IsFiniteSet(S)
<1>1. Walk!SumFunctionOnSet(a, S) = SumFunctionOnSet(a, S)
  BY DEF Walk!SumFunctionOnSet, Walk!FoldFunctionOnSet, Walk!MapThenFoldSet,
         SumFunctionOnSet, FoldFunctionOnSet, MapThenFoldSet
<1>2. Walk!IsFiniteSet(S) <=> IsFiniteSet(S)
  BY DEF Walk!IsFiniteSet, IsFiniteSet
<1> QED BY <1>1, <1>2

LEMMA SumOfNone == ASSUME NEW a PROVE SumFunctionOnSet(a, {}) = 0
  BY SameSums, WalkConstantsHold, Walk!SumOfNone

LEMMA SumSplit ==
    ASSUME NEW a, NEW S, IsFiniteSet(S), \A i \in S : a[i] \in Int
    PROVE  /\ SumFunctionOnSet(a, S) \in Int
           /\ \A x \in S : SumFunctionOnSet(a, S) = a[x] + SumFunctionOnSet(a, S \ {x})
  BY SameSums, WalkConstantsHold, Walk!SumSplit

LEMMA SumSame ==
    ASSUME NEW a, NEW b, NEW S, IsFiniteSet(S), \A i \in S : a[i] \in Int /\ a[i] = b[i]
    PROVE  SumFunctionOnSet(a, S) = SumFunctionOnSet(b, S)
  BY SameSums, WalkConstantsHold, Walk!SumSame

\* One term more.
Grows(a, T, b, U, k) ==
    /\ IsFiniteSet(U) /\ k \in U /\ T = U \ {k}
    /\ \A i \in T : a[i] \in Int /\ b[i] = a[i]
    /\ b[k] \in Int

LEMMA SumGrows ==
    ASSUME NEW a, NEW b, NEW T, NEW U, NEW k, Grows(a, T, b, U, k)
    PROVE  /\ SumFunctionOnSet(a, T) \in Int
           /\ SumFunctionOnSet(b, U) = SumFunctionOnSet(a, T) + b[k]
<1> USE DEF Grows
<1>1. IsFiniteSet(T)
  BY FS_RemoveElement
<1>2. \A i \in U : b[i] \in Int
  OBVIOUS
<1>3. SumFunctionOnSet(b, U) = b[k] + SumFunctionOnSet(b, T)
  BY <1>2, SumSplit
<1>4. SumFunctionOnSet(a, T) \in Int
  BY <1>1, SumSplit
<1>5. SumFunctionOnSet(a, T) = SumFunctionOnSet(b, T)
  BY <1>1, SumSame
<1> QED  BY <1>3, <1>4, <1>5

-----------------------------------------------------------------------------
(* Welford's method, forwards and backwards. *)

LEMMA DivExact ==
    ASSUME NEW x \in Int, NEW n \in Nat \ {0}, x % n = 0
    PROVE  x \div n \in Int /\ (x \div n) * n = x /\ x = n * (x \div n)
  OBVIOUS

LEMMA ModOfMultiple ==
    ASSUME NEW k \in Int, NEW n \in Nat \ {0}
    PROVE  (n * k) % n = 0 /\ (n * k) \div n = k
  OBVIOUS

LEMMA DivisibleSums ==
    ASSUME NEW x \in Int, NEW y \in Int, NEW n \in Nat \ {0}, x % n = 0, y % n = 0
    PROVE  (x + y) % n = 0 /\ (x - y) % n = 0
<1>1. PICK a \in Int : x = n * a
  BY DivExact
<1>2. PICK b \in Int : y = n * b
  BY DivExact
<1>3. x + y = n * (a + b) /\ x - y = n * (a - b)
  BY <1>1, <1>2
<1>4. a + b \in Int /\ a - b \in Int
  OBVIOUS
<1> QED  BY <1>3, <1>4, ModOfMultiple

OneMore(n, mu, nu, x, Q) ==
    (Q - mu * (mu * n)) + (x - mu) * (x - nu) = (Q + x * x) - nu * (mu * n + x)

LEMMA Welford ==
    ASSUME NEW n \in Int, NEW mu \in Int, NEW nu \in Int, NEW x \in Int,
           NEW Q \in Int, nu * (n + 1) = mu * n + x
    PROVE  OneMore(n, mu, nu, x, Q)
<1>1. x = nu * (n + 1) - mu * n
  OBVIOUS
<1>2. nu * (n + 1) = nu * n + nu
  OBVIOUS
<1> QED  BY <1>1, <1>2 DEF OneMore

\* n samples with sum S and squares Q.
Held(n, mu, m2, S, Q) ==
    /\ n \in Nat /\ mu \in Int /\ m2 \in Int /\ S \in Int /\ Q \in Int
    /\ mu * n = S
    /\ m2 = Q - mu * S

\* The mean of k samples, x the last or the next to go, according to Added and Evicted.
Gained(nu, mu, S, x, k) == x \in Int /\ (S + x) % k = 0 /\ nu = mu + (x - mu) \div k
Lost(nu, mu, S, x, k) == x \in Int /\ (S - x) % k = 0 /\ nu = ((k + 1) * mu - x) \div k

LEMMA MomentsAdded ==
    ASSUME NEW n, NEW mu, NEW S, NEW Q, NEW m2, NEW x, NEW k, NEW nu,
           Held(n, mu, m2, S, Q), k = n + 1, Gained(nu, mu, S, x, k)
    PROVE  Held(k, nu, m2 + (x - mu) * (x - nu), S + x, Q + x * x)
<1> USE DEF Held, Gained
<1>1. PICK j \in Int : S + x = j * (n + 1)
  <2>1. PICK y : y = S + x
    OBVIOUS
  <2>2. y \in Int /\ k \in Nat \ {0} /\ y % k = 0
    BY <2>1
  <2>3. y \div k \in Int /\ (y \div k) * k = y
    BY <2>2, DivExact
  <2> QED  BY <2>1, <2>3
<1>2. x - mu = (n + 1) * (j - mu)
  <2>1. mu * (n + 1) = S + mu
    OBVIOUS
  <2>2. (n + 1) * (j - mu) = j * (n + 1) - mu * (n + 1)
    OBVIOUS
  <2> QED  BY <1>1, <2>1, <2>2
<1>3. (x - mu) \div (n + 1) = j - mu
  <2>1. j - mu \in Int /\ n + 1 \in Nat \ {0}
    OBVIOUS
  <2> QED  BY <1>2, <2>1, ModOfMultiple
<1>4. nu = j
  BY <1>3
<1>5. nu * (n + 1) = mu * n + x
  BY <1>1, <1>4
<1>6. (Q - mu * (mu * n)) + (x - mu) * (x - nu) = (Q + x * x) - nu * (mu * n + x)
  <2>1. nu \in Int /\ n \in Int
    BY <1>4
  <2>2. OneMore(n, mu, nu, x, Q)
    BY <1>5, <2>1, Welford
  <2> QED  BY <2>2 DEF OneMore
<1>7. m2 + (x - mu) * (x - nu) = (Q + x * x) - nu * (S + x)
  BY <1>6
<1>8. nu * k = S + x
  BY <1>1, <1>4
<1>9. x * x \in Int /\ (x - mu) * (x - nu) \in Int
  BY <1>4
<1> QED  BY <1>4, <1>7, <1>8, <1>9

LEMMA MomentsEvicted ==
    ASSUME NEW n, NEW mu, NEW S, NEW Q, NEW m2, NEW x, NEW k, NEW nu,
           Held(n, mu, m2, S, Q), k = n - 1, k > 0, Lost(nu, mu, S, x, k)
    PROVE  Held(k, nu, m2 - (x - mu) * (x - nu), S - x, Q - x * x)
<1> USE DEF Held, Lost
<1>1. (k + 1) * mu - x = S - x /\ k \in Nat \ {0}
  OBVIOUS
<1>2. nu \in Int /\ nu * k = S - x
  BY <1>1, DivExact
<1>3. mu * (k + 1) = nu * k + x
  BY <1>1, <1>2
<1>4. ((Q - x * x) - nu * (nu * k)) + (x - nu) * (x - mu) = ((Q - x * x) + x * x) - mu * (nu * k + x)
  <2>1. k \in Int /\ Q - x * x \in Int
    BY <1>1
  <2>2. OneMore(k, nu, mu, x, Q - x * x)
    BY <1>2, <1>3, <2>1, Welford
  <2> QED  BY <2>2 DEF OneMore
<1>5. nu * k + x = S
  BY <1>2
<1> DEFINE d == (x - nu) * (x - mu)
           q == Q - x * x
           l == nu * (S - x)
           r == mu * S
<1>6. (x - mu) * (x - nu) = d
  BY <1>2
<1>7. d \in Int /\ q \in Int /\ l \in Int /\ r \in Int /\ q + x * x = Q
  BY <1>2
<1>8. (q - l) + d = Q - r
  BY <1>2, <1>4, <1>5, <1>7
<1>9. m2 = Q - r
  OBVIOUS
<1> HIDE DEF d, q, l, r
<1>10. m2 - d = q - l
  BY <1>7, <1>8, <1>9
<1> QED  BY <1>1, <1>2, <1>6, <1>7, <1>10 DEF q, l

-----------------------------------------------------------------------------
(* The ring of a SpreadModel. *)

Wrap(x, size) == IF x < size THEN x ELSE x - size

LEMMA WrapIsMod ==
    ASSUME NEW size \in Nat \ {0}, NEW x \in Nat, x < 2 * size
    PROVE  x % size = Wrap(x, size)
<1>1. CASE x < size
  BY <1>1 DEF Wrap
<1>2. CASE x >= size
  BY <1>2 DEF Wrap
<1> QED  BY <1>1, <1>2

\* The ring holds the last elements of s, the oldest at start.
Ring(buf, start, len, size, s) ==
    /\ DOMAIN buf = 0 .. size - 1
    /\ start \in 0 .. size - 1
    /\ len = IF Len(s) > size THEN size ELSE Len(s)
    /\ len < size => start = 0
    /\ \A i \in 0 .. len - 1 : buf[Wrap(start + i, size)] = s[(Len(s) - len) + 1 + i]

\* An element more takes the next place, or that of the oldest.
RingPut(buf, start, len, size, x, buf2, start2, len2) ==
    IF len < size THEN buf2 = [buf EXCEPT ![len] = x] /\ start2 = start /\ len2 = len + 1
    ELSE buf2 = [buf EXCEPT ![start] = x] /\ start2 = Wrap(start + 1, size) /\ len2 = len

LEMMA RingNext ==
    ASSUME NEW size \in Nat \ {0}, NEW V, NEW s \in Seq(V), NEW x \in V,
           NEW buf, NEW start, NEW len, Ring(buf, start, len, size, s),
           NEW buf2, NEW start2, NEW len2, RingPut(buf, start, len, size, x, buf2, start2, len2)
    PROVE  Ring(buf2, start2, len2, size, Append(s, x))
<1> DEFINE t == Append(s, x)
<1>1. /\ Len(s) \in Nat /\ t \in Seq(V) /\ Len(t) = Len(s) + 1
      /\ t[Len(s) + 1] = x /\ \A i \in 1 .. Len(s) : t[i] = s[i]
  OBVIOUS
<1> HIDE DEF t
<1>2. DOMAIN buf = 0 .. size - 1 /\ start \in 0 .. size - 1 /\ len \in 0 .. size
  BY <1>1 DEF Ring
<1>3. CASE len = size
  <2>1. /\ buf2 = [buf EXCEPT ![start] = x]
        /\ start2 = Wrap(start + 1, size)
        /\ len2 = size
    BY <1>3 DEF RingPut
  <2>2. Len(s) >= size
    BY <1>1, <1>3 DEF Ring
  <2>3. \A i \in 0 .. size - 1 : buf[Wrap(start + i, size)] = s[(Len(s) - size) + 1 + i]
    BY <1>3 DEF Ring
  <2>4. start2 \in 0 .. size - 1 /\ DOMAIN buf2 = 0 .. size - 1
    BY <1>2, <2>1 DEF Wrap
  <2>5. ASSUME NEW i \in 0 .. size - 1
        PROVE  buf2[Wrap(start2 + i, size)] = t[(Len(t) - size) + 1 + i]
    <3>1. CASE i = size - 1
      <4>1. Wrap(start2 + i, size) = start
        BY <1>2, <2>1, <3>1 DEF Wrap
      <4>2. (Len(t) - size) + 1 + i = Len(s) + 1
        BY <1>1, <3>1
      <4>3. buf2[start] = x
        BY <1>2, <2>1
      <4> QED  BY <1>1, <4>1, <4>2, <4>3
    <3>2. CASE i < size - 1
      <4>1. /\ Wrap(start2 + i, size) = Wrap(start + (i + 1), size)
            /\ Wrap(start + (i + 1), size) # start
            /\ Wrap(start + (i + 1), size) \in 0 .. size - 1
            /\ i + 1 \in 0 .. size - 1
        <5>1. start \in Int /\ 0 <= start /\ start < size /\ i \in Int /\ 0 <= i
          BY <1>2
        <5>2. Wrap(start + 1, size) = IF start + 1 < size THEN start + 1 ELSE 0
          BY <5>1 DEF Wrap
        <5>3. Wrap(Wrap(start + 1, size) + i, size) = Wrap(start + (i + 1), size)
          <6>1. CASE start + 1 < size
            <7>1. (start + 1) + i = start + (i + 1)
              BY <5>1
            <7> QED  BY <5>2, <6>1, <7>1
          <6>2. CASE start + 1 = size
            BY <3>2, <5>1, <5>2, <6>2 DEF Wrap
          <6> QED  BY <5>1, <6>1, <6>2
        <5>4. Wrap(start + (i + 1), size) # start /\ Wrap(start + (i + 1), size) \in 0 .. size - 1
          BY <3>2, <5>1 DEF Wrap
        <5> QED  BY <2>1, <3>2, <5>3, <5>4
      <4>2. buf2[Wrap(start + (i + 1), size)] = buf[Wrap(start + (i + 1), size)]
        BY <1>2, <2>1, <4>1
      <4>3. buf[Wrap(start + (i + 1), size)] = s[(Len(s) - size) + 1 + (i + 1)]
        BY <2>3, <4>1
      <4>4. /\ (Len(t) - size) + 1 + i = (Len(s) - size) + 1 + (i + 1)
            /\ (Len(s) - size) + 1 + (i + 1) \in 1 .. Len(s)
        BY <1>1, <2>2, <3>2
      <4> QED  BY <1>1, <4>1, <4>2, <4>3, <4>4
    <3> QED  BY <3>1, <3>2
  <2>6. len2 = IF Len(t) > size THEN size ELSE Len(t)
    BY <1>1, <2>1, <2>2
  <2>7. \A i \in 0 .. len2 - 1 : buf2[Wrap(start2 + i, size)] = t[(Len(t) - len2) + 1 + i]
    BY <2>1, <2>5
  <2>8. ~(len2 < size)
    BY <2>1
  <2>9. Ring(buf2, start2, len2, size, t)
    BY <2>4, <2>6, <2>7, <2>8 DEF Ring
  <2> QED  BY <2>9 DEF t
<1>4. CASE len < size
  <2>1. start = 0 /\ len = Len(s)
    BY <1>1, <1>4 DEF Ring
  <2>2. buf2 = [buf EXCEPT ![Len(s)] = x] /\ start2 = 0 /\ len2 = Len(s) + 1
    BY <1>4, <2>1 DEF RingPut
  <2>3. ASSUME NEW i \in 0 .. len2 - 1
        PROVE  buf2[Wrap(start2 + i, size)] = t[(Len(t) - len2) + 1 + i]
    <3>1. Wrap(start2 + i, size) = i /\ (Len(t) - len2) + 1 + i = i + 1
      BY <1>1, <1>2, <1>4, <2>1, <2>2 DEF Wrap
    <3>2. CASE i = Len(s)
      BY <1>1, <1>2, <1>4, <2>1, <2>2, <3>1, <3>2
    <3>3. CASE i < Len(s)
      <4>1. i \in 0 .. len - 1 /\ i + 1 \in 1 .. Len(s)
        BY <1>1, <2>1, <3>3
      <4>2. buf[Wrap(start + i, size)] = s[(Len(s) - len) + 1 + i]
        BY <4>1 DEF Ring
      <4>3. Wrap(start + i, size) = i /\ (Len(s) - len) + 1 + i = i + 1
        BY <1>1, <1>4, <2>1, <4>1 DEF Wrap
      <4>4. buf2[i] = buf[i]
        <5>1. i \in 0 .. size - 1 /\ i # Len(s)
          BY <1>1, <1>4, <2>1, <3>3
        <5> QED  BY <1>2, <2>2, <5>1
      <4> QED  BY <1>1, <3>1, <4>1, <4>2, <4>3, <4>4
    <3> QED  BY <1>1, <2>2, <3>2, <3>3
  <2>4. DOMAIN buf2 = 0 .. size - 1 /\ start2 \in 0 .. size - 1
    BY <1>2, <2>2
  <2> QED  BY <1>1, <1>4, <2>1, <2>2, <2>3, <2>4 DEF Ring, t
<1> QED  BY <1>2, <1>3, <1>4

Model == [n : Nat, mu : Int, m2 : Int, buf : [0 .. WindowSize - 1 -> Int],
          pos : 0 .. WindowSize - 1, len : 0 .. WindowSize]

Samples == {x \in Int : Strat!Divisible(x, WindowSize)}

Stores(m, s) == Ring(m.buf, m.pos, m.len, WindowSize, s)

LEMMA StoresNext ==
    ASSUME WindowSize \in Nat \ {0}, NEW m \in Model, NEW s \in Seq(Int), NEW x \in Int,
           Stores(m, s), NEW u, u = Strat!Update(m, x)
    PROVE  /\ Stores(u, Append(s, x))
           /\ u.buf \in [0 .. WindowSize - 1 -> Int]
           /\ u.pos \in 0 .. WindowSize - 1
           /\ u.len \in 0 .. WindowSize
           /\ m.len = WindowSize => m.buf[m.pos] = s[(Len(s) - WindowSize) + 1]
<1>1. /\ m.buf \in [0 .. WindowSize - 1 -> Int] /\ m.pos \in 0 .. WindowSize - 1
      /\ m.len \in 0 .. WindowSize /\ Len(s) \in Nat
  BY DEF Model
<1>2. CASE m.len = WindowSize
  <2>1. /\ u.buf = [m.buf EXCEPT ![m.pos] = x]
        /\ u.pos = (m.pos + 1) % WindowSize
        /\ u.len = WindowSize
    BY <1>2 DEF Strat!Update, Strat!Added, Strat!Evicted, Model
  <2>2. u.pos = Wrap(m.pos + 1, WindowSize)
    BY <1>1, <2>1, WrapIsMod
  <2>3. RingPut(m.buf, m.pos, m.len, WindowSize, x, u.buf, u.pos, u.len)
    BY <1>2, <2>1, <2>2 DEF RingPut
  <2>4. Stores(u, Append(s, x))
    BY <2>3, RingNext DEF Stores
  <2>5. m.buf[m.pos] = s[(Len(s) - WindowSize) + 1]
    <3>1. \A i \in 0 .. WindowSize - 1 :
            m.buf[Wrap(m.pos + i, WindowSize)] = s[(Len(s) - WindowSize) + 1 + i]
      BY <1>2 DEF Stores, Ring
    <3>2. m.buf[Wrap(m.pos + 0, WindowSize)] = s[(Len(s) - WindowSize) + 1 + 0]
      BY <3>1
    <3> QED  BY <1>1, <3>2 DEF Wrap
  <2>6. u.pos \in 0 .. WindowSize - 1
    BY <2>4 DEF Stores, Ring
  <2> QED  BY <1>1, <2>1, <2>4, <2>5, <2>6
<1>3. CASE m.len < WindowSize
  <2>1. /\ u.buf = [m.buf EXCEPT ![(m.pos + m.len) % WindowSize] = x]
        /\ u.pos = m.pos
        /\ u.len = m.len + 1
    BY <1>3 DEF Strat!Update, Strat!Added, Model
  <2>2. (m.pos + m.len) % WindowSize = m.len
    <3>1. PICK k \in Nat : k = m.len
      BY <1>1
    <3>2. m.pos + m.len = k /\ k < WindowSize
      BY <1>3, <3>1 DEF Stores, Ring
    <3>3. k % WindowSize = Wrap(k, WindowSize)
      BY <3>2, WrapIsMod
    <3> QED  BY <3>1, <3>2, <3>3 DEF Wrap
  <2>3. RingPut(m.buf, m.pos, m.len, WindowSize, x, u.buf, u.pos, u.len)
    BY <1>3, <2>1, <2>2 DEF RingPut
  <2>4. Stores(u, Append(s, x))
    BY <2>3, RingNext DEF Stores
  <2>5. u.buf \in [0 .. WindowSize - 1 -> Int]
    BY <1>1, <2>1
  <2>6. u.len \in 0 .. WindowSize /\ m.len # WindowSize
    <3>1. PICK l : l = m.len
      OBVIOUS
    <3>2. l + 1 \in 0 .. WindowSize /\ l # WindowSize
      BY <1>1, <1>3, <3>1
    <3> QED  BY <2>1, <3>1, <3>2
  <2> QED  BY <1>1, <2>1, <2>4, <2>5, <2>6
<1> QED  BY <1>1, <1>2, <1>3

-----------------------------------------------------------------------------
(* The sums over the window, after one sample more. *)

Oldest(n) == IF n > WindowSize THEN n - WindowSize + 1 ELSE 1

LEMMA WindowSlides ==
    ASSUME NEW a, NEW b, NEW n \in Nat, WindowSize \in Nat \ {0},
           \A i \in 1 .. n : a[i] \in Int /\ b[i] = a[i], b[n + 1] \in Int
    PROVE  /\ SumFunctionOnSet(a, Oldest(n) .. n) \in Int
           /\ n < WindowSize =>
                SumFunctionOnSet(b, Oldest(n + 1) .. n + 1)
                    = SumFunctionOnSet(a, Oldest(n) .. n) + b[n + 1]
           /\ n >= WindowSize =>
                SumFunctionOnSet(b, Oldest(n + 1) .. n + 1)
                    = (SumFunctionOnSet(a, Oldest(n) .. n) - a[(n - WindowSize) + 1]) + b[n + 1]
<1>1. PICK lo, hi, k, T, c, d : /\ lo = Oldest(n) /\ hi = lo + 1 /\ k = n + 1
                                /\ T = lo .. n /\ c = a /\ d = b
  OBVIOUS
<1>2. /\ lo \in Int /\ hi \in Int /\ k \in Int /\ 1 <= lo /\ lo <= k
      /\ n >= WindowSize => lo <= n /\ lo = (n - WindowSize) + 1 /\ Oldest(k) = hi
      /\ n < WindowSize => Oldest(k) = lo
  BY <1>1 DEF Oldest
<1>3. d[k] \in Int
  BY <1>1
<1>4. \A i \in T : c[i] \in Int /\ d[i] = c[i]
  BY <1>1, <1>2
<1>5. /\ SumFunctionOnSet(c, T) \in Int
      /\ SumFunctionOnSet(d, lo .. k) = SumFunctionOnSet(c, T) + d[k]
  <2>1. PICK U : U = lo .. k
    OBVIOUS
  <2>2. IsFiniteSet(U)
    BY <1>2, <2>1, FS_Interval
  <2>3. k \in U /\ T = U \ {k}
    BY <1>1, <1>2, <2>1
  <2>4. Grows(c, T, d, U, k)
    BY <1>3, <1>4, <2>2, <2>3 DEF Grows
  <2> QED  BY <2>1, <2>4, SumGrows
<1>6. CASE n < WindowSize
  BY <1>1, <1>2, <1>5, <1>6
<1>7. CASE n >= WindowSize
  <2>1. PICK U, V : U = hi .. n /\ V = hi .. k
    OBVIOUS
  <2>2. IsFiniteSet(T) /\ IsFiniteSet(V)
    BY <1>1, <1>2, <2>1, FS_Interval
  <2>3. lo \in T /\ U = T \ {lo} /\ k \in V /\ U = V \ {k}
    BY <1>1, <1>2, <1>7, <2>1
  <2>4. c[lo] \in Int /\ \A i \in U : c[i] \in Int /\ d[i] = c[i] /\ c[i] = c[i]
    BY <1>4, <2>3
  <2>5. Grows(c, U, d, V, k) /\ Grows(c, U, c, T, lo)
    BY <1>3, <2>2, <2>3, <2>4 DEF Grows
  <2>6. /\ SumFunctionOnSet(d, V) = SumFunctionOnSet(c, U) + d[k]
        /\ SumFunctionOnSet(c, T) = SumFunctionOnSet(c, U) + c[lo]
        /\ SumFunctionOnSet(c, U) \in Int
    BY <2>5, SumGrows
  <2>7. SumFunctionOnSet(c, U) = SumFunctionOnSet(c, T) - c[lo]
    BY <2>4, <2>6
  <2> QED  BY <1>1, <1>2, <1>5, <1>7, <2>1, <2>6, <2>7
<1> QED  BY <1>6, <1>7

WindowSum(s) == SumFunctionOnSet(s, Oldest(Len(s)) .. Len(s))
WindowSquares(s) == SumFunctionOnSet(Squares(s), Oldest(Len(s)) .. Len(s))

LEMMA WindowNext ==
    ASSUME NEW s \in Seq(Int), NEW x \in Int, WindowSize \in Nat \ {0},
           NEW old, old = s[(Len(s) - WindowSize) + 1]
    PROVE  /\ WindowSum(s) \in Int /\ WindowSquares(s) \in Int
           /\ Len(s) < WindowSize =>
                /\ WindowSum(Append(s, x)) = WindowSum(s) + x
                /\ WindowSquares(Append(s, x)) = WindowSquares(s) + x * x
           /\ Len(s) >= WindowSize =>
                /\ WindowSum(Append(s, x)) = (WindowSum(s) - old) + x
                /\ WindowSquares(Append(s, x)) = (WindowSquares(s) - old * old) + x * x
<1> DEFINE t == Append(s, x)
           n == Len(s)
<1>1. /\ n \in Nat /\ t \in Seq(Int) /\ Len(t) = n + 1
      /\ t[n + 1] = x /\ \A i \in 1 .. n : s[i] \in Int /\ t[i] = s[i]
      /\ DOMAIN s = 1 .. n /\ DOMAIN t = 1 .. n + 1
  OBVIOUS
<1> HIDE DEF t, n
<1>2. /\ \A i \in 1 .. n : Squares(s)[i] = s[i] * s[i] /\ Squares(t)[i] = s[i] * s[i]
      /\ Squares(t)[n + 1] = x * x
  <2>1. \A i \in 1 .. n + 1 : Squares(t)[i] = t[i] * t[i]
    BY <1>1 DEF Squares
  <2>2. n + 1 \in 1 .. n + 1 /\ \A i \in 1 .. n : i \in 1 .. n + 1
    BY <1>1
  <2>3. \A i \in 1 .. n : Squares(s)[i] = s[i] * s[i]
    BY <1>1 DEF Squares
  <2>4. \A i \in 1 .. n : Squares(t)[i] = s[i] * s[i]
    BY <1>1, <2>1, <2>2
  <2> QED  BY <1>1, <2>1, <2>2, <2>3, <2>4
<1>3. \A i \in Int : i * i \in Int
  OBVIOUS
<1>4. PICK a, b : a = Squares(s) /\ b = Squares(t)
  OBVIOUS
<1>5. b[n + 1] \in Int /\ \A i \in 1 .. n : a[i] \in Int /\ b[i] = a[i]
  BY <1>1, <1>2, <1>3, <1>4
<1>6. n >= WindowSize => a[(n - WindowSize) + 1] = old * old
  <2>1. n >= WindowSize => (n - WindowSize) + 1 \in 1 .. n
    BY <1>1
  <2> QED  BY <1>2, <1>4, <2>1 DEF n
<1>7. /\ SumFunctionOnSet(a, Oldest(n) .. n) \in Int
      /\ n < WindowSize =>
           SumFunctionOnSet(b, Oldest(n + 1) .. n + 1)
               = SumFunctionOnSet(a, Oldest(n) .. n) + b[n + 1]
      /\ n >= WindowSize =>
           SumFunctionOnSet(b, Oldest(n + 1) .. n + 1)
               = (SumFunctionOnSet(a, Oldest(n) .. n) - a[(n - WindowSize) + 1]) + b[n + 1]
  BY <1>1, <1>5, WindowSlides
<1>8. /\ SumFunctionOnSet(s, Oldest(n) .. n) \in Int
      /\ n < WindowSize =>
           SumFunctionOnSet(t, Oldest(n + 1) .. n + 1)
               = SumFunctionOnSet(s, Oldest(n) .. n) + t[n + 1]
      /\ n >= WindowSize =>
           SumFunctionOnSet(t, Oldest(n + 1) .. n + 1)
               = (SumFunctionOnSet(s, Oldest(n) .. n) - s[(n - WindowSize) + 1]) + t[n + 1]
  BY <1>1, WindowSlides
<1>9. /\ WindowSum(s) = SumFunctionOnSet(s, Oldest(n) .. n)
      /\ WindowSum(t) = SumFunctionOnSet(t, Oldest(n + 1) .. n + 1)
      /\ WindowSquares(s) = SumFunctionOnSet(a, Oldest(n) .. n)
      /\ WindowSquares(t) = SumFunctionOnSet(b, Oldest(n + 1) .. n + 1)
  BY <1>1, <1>4 DEF WindowSum, WindowSquares, n
<1>10. s[(n - WindowSize) + 1] = old
  BY DEF n
<1>11. b[n + 1] = x * x /\ t[n + 1] = x
  BY <1>1, <1>2, <1>4
<1> QED  BY <1>6, <1>7, <1>8, <1>9, <1>10, <1>11 DEF n, t

LEMMA WindowOfOne ==
    ASSUME NEW s \in Seq(Int), WindowSize = 1, Len(s) >= 1
    PROVE  WindowSum(s) = s[Len(s)] /\ WindowSquares(s) = s[Len(s)] * s[Len(s)]
<1>1. PICK n, a, x : n = Len(s) /\ a = Squares(s) /\ x = s[n]
  OBVIOUS
<1>2. n \in 1 .. Len(s) /\ Oldest(n) .. n = {n} /\ x \in Int
  BY <1>1 DEF Oldest
<1>3. a[n] = x * x /\ x * x \in Int
  BY <1>1, <1>2 DEF Squares
<1>4. Grows(s, {}, s, {n}, n) /\ Grows(a, {}, a, {n}, n)
  <2>1. IsFiniteSet({n})
    BY FS_Singleton
  <2> QED  BY <1>1, <1>2, <1>3, <2>1 DEF Grows
<1>5. /\ SumFunctionOnSet(s, {n}) = SumFunctionOnSet(s, {}) + s[n]
      /\ SumFunctionOnSet(a, {n}) = SumFunctionOnSet(a, {}) + a[n]
  BY <1>4, SumGrows
<1>6. SumFunctionOnSet(s, {}) = 0 /\ SumFunctionOnSet(a, {}) = 0
  BY SumOfNone
<1>7. SumFunctionOnSet(s, {n}) = x /\ SumFunctionOnSet(a, {n}) = x * x
  BY <1>1, <1>2, <1>3, <1>5, <1>6
<1>8. WindowSum(s) = SumFunctionOnSet(s, {n}) /\ WindowSquares(s) = SumFunctionOnSet(a, {n})
  BY <1>1, <1>2 DEF WindowSum, WindowSquares
<1> QED  BY <1>1, <1>7, <1>8

-----------------------------------------------------------------------------
(* What a model holds of the spreads of its pair. *)

Moments(m, s) == Held(m.n, m.mu, m.m2, WindowSum(s), WindowSquares(s))

Remembers(m, s) ==
    /\ m \in Model
    /\ s \in Seq(Samples)
    /\ Stores(m, s)
    /\ m.n = m.len
    /\ Moments(m, s)
    /\ Strat!Divisible(WindowSum(s), WindowSize)

LEMMA DivisibleTotals ==
    ASSUME NEW x \in Int, NEW y \in Int, NEW n \in Nat,
           Strat!Divisible(x, n), Strat!Divisible(y, n)
    PROVE  Strat!Divisible(x + y, n) /\ Strat!Divisible(x - y, n)
<1>1. ASSUME NEW k \in 1 .. n
      PROVE  (x + y) % k = 0 /\ (x - y) % k = 0
  <2>1. k \in Nat \ {0} /\ x % k = 0 /\ y % k = 0
    BY DEF Strat!Divisible
  <2> QED  BY <2>1, DivisibleSums
<1> QED  BY <1>1 DEF Strat!Divisible

Rows(m) == m = [n |-> m.n, mu |-> m.mu, m2 |-> m.m2, buf |-> m.buf, pos |-> m.pos, len |-> m.len]
SameRing(a, m) == a.buf = m.buf /\ a.pos = m.pos /\ a.len = m.len

LEMMA AddedHeld ==
    ASSUME NEW m, NEW S, NEW Q, NEW x \in Int, Rows(m), Held(m.n, m.mu, m.m2, S, Q),
           (S + x) % (m.n + 1) = 0, NEW a, a = Strat!Added(m, x)
    PROVE  Rows(a) /\ SameRing(a, m) /\ a.n = m.n + 1 /\ Held(a.n, a.mu, a.m2, S + x, Q + x * x)
<1>1. PICK n, mu, m2, k, nu, d :
        /\ n = m.n /\ mu = m.mu /\ m2 = m.m2 /\ k = n + 1
        /\ nu = mu + (x - mu) \div k /\ d = m2 + (x - mu) * (x - nu)
  OBVIOUS
<1>2. a = [m EXCEPT !.n = k, !.mu = nu, !.m2 = d]
  BY <1>1 DEF Strat!Added
<1>3. a = [n |-> k, mu |-> nu, m2 |-> d, buf |-> m.buf, pos |-> m.pos, len |-> m.len]
  BY <1>2 DEF Rows
<1>4. Held(n, mu, m2, S, Q) /\ Gained(nu, mu, S, x, k)
  BY <1>1 DEF Gained
<1>5. Held(k, nu, d, S + x, Q + x * x)
  BY <1>1, <1>4, MomentsAdded
<1> QED  BY <1>1, <1>3, <1>5 DEF Rows, SameRing

LEMMA EvictedHeld ==
    ASSUME NEW m, NEW S, NEW Q, NEW x, x = m.buf[m.pos], x \in Int,
           Rows(m), Held(m.n, m.mu, m.m2, S, Q), m.n > 0,
           m.n = 1 => S = x /\ Q = x * x,
           m.n > 1 => (S - x) % (m.n - 1) = 0, NEW a, a = Strat!Evicted(m)
    PROVE  Rows(a) /\ SameRing(a, m) /\ a.n = m.n - 1 /\ Held(a.n, a.mu, a.m2, S - x, Q - x * x)
<1>0. m.n \in Nat
  BY DEF Held
<1>1. CASE m.n = 1
  <2>1. a = [m EXCEPT !.n = 0, !.mu = 0, !.m2 = 0]
    BY <1>1 DEF Strat!Evicted
  <2>2. a = [n |-> 0, mu |-> 0, m2 |-> 0, buf |-> m.buf, pos |-> m.pos, len |-> m.len]
    BY <2>1 DEF Rows
  <2>3. S - x = 0 /\ Q - x * x = 0
    <3>1. x * x \in Int
      OBVIOUS
    <3> QED  BY <1>1, <3>1
  <2>4. Held(0, 0, 0, 0, 0)
    BY DEF Held
  <2> QED  BY <1>1, <2>2, <2>3, <2>4 DEF Rows, SameRing
<1>2. CASE m.n > 1
  <2>1. PICK n, mu, m2, k, nu, d :
          /\ n = m.n /\ mu = m.mu /\ m2 = m.m2 /\ k = n - 1
          /\ nu = ((k + 1) * mu - x) \div k /\ d = m2 - (x - mu) * (x - nu)
    OBVIOUS
  <2>2. k \in Nat /\ k > 0 /\ n = k + 1
    BY <1>0, <1>2, <2>1
  <2>3. a = [m EXCEPT !.n = k, !.mu = nu, !.m2 = d]
    <3>1. m.n - 1 = k /\ k # 0
      BY <2>1, <2>2
    <3> QED  BY <2>1, <3>1 DEF Strat!Evicted
  <2>4. a = [n |-> k, mu |-> nu, m2 |-> d, buf |-> m.buf, pos |-> m.pos, len |-> m.len]
    BY <2>3 DEF Rows
  <2>5. Held(n, mu, m2, S, Q) /\ Lost(nu, mu, S, x, k)
    BY <1>2, <2>1 DEF Lost
  <2>6. Held(k, nu, d, S - x, Q - x * x)
    BY <2>1, <2>2, <2>5, MomentsEvicted
  <2> QED  BY <2>1, <2>4, <2>6 DEF Rows, SameRing
<1> QED  BY <1>0, <1>1, <1>2

LEMMA UpdateRemembers ==
    ASSUME NEW m, NEW s, Remembers(m, s), NEW x \in Samples
    PROVE  Remembers(Strat!Update(m, x), Append(s, x))
<1> DEFINE t == Append(s, x)
           u == Strat!Update(m, x)
           old == s[(Len(s) - WindowSize) + 1]
           S == WindowSum(s)
           Q == WindowSquares(s)
<1>1. WindowSize \in Nat \ {0}
  BY EstimatorsConstants
<1>2. /\ m \in Model /\ s \in Seq(Samples) /\ Stores(m, s) /\ m.n = m.len
      /\ Held(m.n, m.mu, m.m2, S, Q)
      /\ Strat!Divisible(S, WindowSize) /\ s \in Seq(Int) /\ Len(s) \in Nat
      /\ x \in Int /\ Strat!Divisible(x, WindowSize) /\ t \in Seq(Samples)
  <2>1. Seq(Samples) \subseteq Seq(Int)
    BY DEF Samples
  <2>2. t \in Seq(Samples)
    BY DEF Remembers
  <2> QED  BY <2>1, <2>2 DEF Remembers, Moments, Samples
<1> HIDE DEF t, u, old
<1>3. /\ Stores(u, t)
      /\ u.buf \in [0 .. WindowSize - 1 -> Int]
      /\ u.pos \in 0 .. WindowSize - 1
      /\ u.len \in 0 .. WindowSize
      /\ m.len = WindowSize => m.buf[m.pos] = old
  BY <1>1, <1>2, StoresNext DEF t, u, old
<1>4. /\ S \in Int /\ Q \in Int
      /\ Len(s) < WindowSize => WindowSum(t) = S + x /\ WindowSquares(t) = Q + x * x
      /\ Len(s) >= WindowSize => /\ WindowSum(t) = (S - old) + x
                                 /\ WindowSquares(t) = (Q - old * old) + x * x
  BY <1>1, <1>2, WindowNext DEF t, old
<1> HIDE DEF S, Q
<1>5. Rows(m) /\ m.len \in 0 .. WindowSize /\ m.n \in 0 .. WindowSize
  BY <1>2 DEF Model, Rows
<1>6. ASSUME Rows(u), u.n = u.len, Held(u.n, u.mu, u.m2, WindowSum(t), WindowSquares(t)),
             Strat!Divisible(WindowSum(t), WindowSize)
      PROVE  Remembers(u, t)
  <2>1. u.n \in Nat /\ u.mu \in Int /\ u.m2 \in Int
    BY <1>6 DEF Held
  <2>2. u \in Model
    BY <1>3, <1>6, <2>1 DEF Rows, Model
  <2> QED  BY <1>2, <1>3, <1>6, <2>2 DEF Remembers, Moments
<1>7. CASE m.len < WindowSize
  <2>1. Len(s) < WindowSize /\ m.n + 1 \in 1 .. WindowSize
    BY <1>1, <1>2, <1>5, <1>7 DEF Stores, Ring
  <2>2. WindowSum(t) = S + x /\ WindowSquares(t) = Q + x * x
    BY <1>4, <2>1
  <2>3. Strat!Divisible(S + x, WindowSize)
    BY <1>1, <1>2, <1>4, DivisibleTotals
  <2>4. (S + x) % (m.n + 1) = 0
    BY <2>1, <2>3 DEF Strat!Divisible
  <2>5. PICK a, n, mu, m2, p, l, c, q :
          /\ a = Strat!Added(m, x) /\ n = a.n /\ mu = a.mu /\ m2 = a.m2 /\ p = a.pos
          /\ l = m.len + 1 /\ q = (m.pos + m.len) % WindowSize /\ c = [a.buf EXCEPT ![q] = x]
    OBVIOUS
  <2>6. Rows(a) /\ SameRing(a, m) /\ a.n = m.n + 1 /\ Held(a.n, a.mu, a.m2, S + x, Q + x * x)
    BY <1>2, <1>5, <2>4, <2>5, AddedHeld
  <2>7. u = [a EXCEPT !.buf = c, !.len = l]
    <3>1. m.len # WindowSize
      BY <1>1, <1>7
    <3> QED  BY <2>5, <3>1 DEF u, Strat!Update
  <2>8. u = [n |-> n, mu |-> mu, m2 |-> m2, buf |-> c, pos |-> p, len |-> l]
    BY <2>5, <2>6, <2>7 DEF Rows
  <2>9. Rows(u) /\ u.n = u.len /\ Held(u.n, u.mu, u.m2, S + x, Q + x * x)
    BY <1>2, <2>5, <2>6, <2>8 DEF Rows
  <2> QED  BY <1>6, <2>2, <2>3, <2>9 DEF t, u
<1>8. CASE m.len = WindowSize
  <2>1. Len(s) >= WindowSize /\ m.n = WindowSize /\ m.buf[m.pos] = old
    BY <1>1, <1>2, <1>3, <1>8 DEF Stores, Ring
  <2>2. old \in Int /\ Strat!Divisible(old, WindowSize)
    <3>1. (Len(s) - WindowSize) + 1 \in 1 .. Len(s)
      BY <1>1, <1>2, <2>1
    <3>2. old \in Samples
      BY <1>2, <3>1 DEF old
    <3> QED  BY <3>2 DEF Samples
  <2>3. PICK R, P : R = S - old /\ P = Q - old * old
    OBVIOUS
  <2>4. WindowSum(t) = R + x /\ WindowSquares(t) = P + x * x /\ R \in Int
    BY <1>4, <2>1, <2>2, <2>3
  <2>5. Strat!Divisible(R, WindowSize) /\ Strat!Divisible(R + x, WindowSize)
    <3>1. Strat!Divisible(S - old, WindowSize)
      BY <1>1, <1>2, <1>4, <2>2, DivisibleTotals
    <3>2. Strat!Divisible(R, WindowSize)
      BY <2>3, <3>1
    <3> QED  BY <1>1, <1>2, <2>4, <3>2, DivisibleTotals
  <2>6. m.n = 1 => S = old /\ Q = old * old
    <3>1. ASSUME m.n = 1
          PROVE  WindowSize = 1 /\ Len(s) >= 1 /\ (Len(s) - WindowSize) + 1 = Len(s)
      BY <1>2, <2>1, <3>1
    <3> QED  BY <1>2, <3>1, WindowOfOne DEF old, S, Q
  <2>7. m.n > 0 /\ (m.n > 1 => (S - old) % (m.n - 1) = 0)
    <3>1. m.n > 1 => m.n - 1 \in 1 .. WindowSize
      BY <1>1, <2>1
    <3> QED  BY <1>1, <2>1, <2>3, <2>5, <3>1 DEF Strat!Divisible
  <2>8. PICK e : e = Strat!Evicted(m)
    OBVIOUS
  <2>9. Rows(e) /\ SameRing(e, m) /\ e.n = m.n - 1 /\ Held(e.n, e.mu, e.m2, S - old, Q - old * old)
    BY <1>2, <1>5, <2>1, <2>2, <2>6, <2>7, <2>8, EvictedHeld
  <2>10. Held(e.n, e.mu, e.m2, R, P)
    BY <2>3, <2>9
  <2>11. (R + x) % (e.n + 1) = 0
    <3>1. e.n + 1 = WindowSize
      BY <1>1, <2>1, <2>9
    <3> QED  BY <1>1, <2>5, <3>1 DEF Strat!Divisible
  <2>12. PICK a, n, mu, m2, l, c, p :
          /\ a = Strat!Added(e, x) /\ n = a.n /\ mu = a.mu /\ m2 = a.m2 /\ l = a.len
          /\ p = (m.pos + 1) % WindowSize /\ c = [a.buf EXCEPT ![m.pos] = x]
    OBVIOUS
  <2>13. Rows(a) /\ SameRing(a, e) /\ a.n = e.n + 1 /\ Held(a.n, a.mu, a.m2, R + x, P + x * x)
    BY <1>2, <2>9, <2>10, <2>11, <2>12, AddedHeld
  <2>14. u = [a EXCEPT !.buf = c, !.pos = p]
    BY <1>8, <2>8, <2>12 DEF u, Strat!Update
  <2>15. u = [n |-> n, mu |-> mu, m2 |-> m2, buf |-> c, pos |-> p, len |-> l]
    BY <2>12, <2>13, <2>14 DEF Rows
  <2>16. a.n = WindowSize /\ a.len = WindowSize
    BY <1>1, <1>8, <2>1, <2>9, <2>13 DEF SameRing
  <2>17. Rows(u) /\ u.n = u.len /\ Held(u.n, u.mu, u.m2, R + x, P + x * x)
    BY <2>12, <2>13, <2>15, <2>16 DEF Rows
  <2> QED  BY <1>6, <2>4, <2>5, <2>17 DEF t, u
<1> QED  BY <1>1, <1>5, <1>7, <1>8

LEMMA NewRemembers == Remembers(Strat!NewSpreadModel, <<>>)
<1> DEFINE m == Strat!NewSpreadModel
<1>1. WindowSize \in Nat \ {0}
  BY EstimatorsConstants
<1>2. m = [n |-> 0, mu |-> 0, m2 |-> 0, buf |-> [i \in 0 .. WindowSize - 1 |-> 0], pos |-> 0, len |-> 0]
  BY DEF Strat!NewSpreadModel
<1> HIDE DEF m
<1>3. m \in Model
  BY <1>1, <1>2 DEF Model
<1>4. PICK s : s = <<>>
  OBVIOUS
<1>5. s \in Seq(Samples) /\ Len(s) = 0
  BY <1>4
<1>6. WindowSum(s) = 0 /\ WindowSquares(s) = 0
  <2>1. Oldest(Len(s)) .. Len(s) = {}
    BY <1>1, <1>5 DEF Oldest
  <2> QED  BY <2>1, SumOfNone DEF WindowSum, WindowSquares
<1>7. Stores(m, s)
  BY <1>1, <1>2, <1>5 DEF Stores, Ring
<1>8. Strat!Divisible(0, WindowSize)
  <2>1. \A k \in Nat \ {0} : 0 % k = 0
    OBVIOUS
  <2> QED  BY <1>1, <2>1 DEF Strat!Divisible
<1>9. Held(0, 0, 0, 0, 0)
  BY DEF Held
<1> QED  BY <1>2, <1>3, <1>4, <1>5, <1>6, <1>7, <1>8, <1>9 DEF Remembers, Moments, m

LEMMA RemembersDescribes ==
    ASSUME NEW m, NEW s, Remembers(m, s)
    PROVE  Describes(m, s, LastOf(s, WindowSize))
<1>1. WindowSize \in Nat \ {0}
  BY EstimatorsConstants
<1>2. PICK w, l, lo : w = LastOf(s, WindowSize) /\ l = Len(s) /\ lo = Oldest(l)
  OBVIOUS
<1>3. l \in Nat /\ lo \in Int /\ w = lo .. l
  BY <1>1, <1>2 DEF Remembers, LastOf, Oldest
<1>4. PICK n, mu, m2, S, Q : /\ n = m.n /\ mu = m.mu /\ m2 = m.m2
                             /\ S = SumFunctionOnSet(s, w) /\ Q = SumFunctionOnSet(Squares(s), w)
  OBVIOUS
<1>5. Held(n, mu, m2, S, Q)
  BY <1>2, <1>3, <1>4 DEF Remembers, Moments, WindowSum, WindowSquares
<1>6. n = Cardinality(w)
  <2>1. Cardinality(w) = IF lo > l THEN 0 ELSE l - lo + 1
    BY <1>3, FS_Interval
  <2>2. n = IF l > WindowSize THEN WindowSize ELSE l
    BY <1>2, <1>4 DEF Remembers, Stores, Ring
  <2>3. lo = IF l > WindowSize THEN l - WindowSize + 1 ELSE 1
    BY <1>2 DEF Oldest
  <2>4. CASE l > WindowSize
    BY <1>1, <1>3, <2>1, <2>2, <2>3, <2>4
  <2>5. CASE ~(l > WindowSize)
    BY <1>1, <1>3, <2>1, <2>2, <2>3, <2>5
  <2> QED  BY <2>4, <2>5
<1>7. mu * n = S /\ m2 * n = n * Q - S * S
  <2>1. /\ n \in Nat /\ mu \in Int /\ m2 \in Int /\ S \in Int /\ Q \in Int
        /\ mu * n = S /\ m2 = Q - mu * S
    BY <1>5 DEF Held
  <2>2. (Q - mu * (mu * n)) * n = n * Q - (mu * n) * (mu * n)
    BY <2>1
  <2> QED  BY <2>1, <2>2
<1> QED  BY <1>2, <1>4, <1>6, <1>7 DEF Describes

-----------------------------------------------------------------------------
(* The invariant of the processing loop. *)

IsQuote(x) == \E q \in Quotes : x.bid = q.bid /\ x.ask = q.ask

IsCall(c) ==
    /\ c = [exchange |-> c.exchange, snapshot |-> c.snapshot, now |-> c.now, cfg |-> c.cfg]
    /\ c.exchange \in Exchanges
    /\ IsQuote(c.snapshot[c.exchange])
    /\ \A e \in Exchanges : c.snapshot[e] # Unknown => IsQuote(c.snapshot[e])

SpreadInv ==
    /\ DOMAIN quotes = Exchanges
    /\ \A e \in Exchanges : quotes[e] # Unknown => IsQuote(quotes[e])
    /\ todo # <<>> => IsCall(call)
    /\ \A p \in Pairs : Remembers(models[p], spreads[p])

LEMMA SpreadInvInit == Strat!Init => SpreadInv
<1> SUFFICES ASSUME Strat!Init PROVE SpreadInv
  OBVIOUS
<1>1. /\ quotes = [e \in Exchanges |-> Unknown] /\ todo = <<>>
      /\ models = [p \in Pairs |-> Strat!NewSpreadModel] /\ spreads = [p \in Pairs |-> <<>>]
  BY DEF Strat!Init, Strat!SpatialInit, Strat!Pairs, Pairs
<1>2. \A p \in Pairs : Remembers(models[p], spreads[p])
  BY <1>1, NewRemembers
<1> QED  BY <1>1, <1>2 DEF SpreadInv

LEMMA RawSpreadIsSample ==
    ASSUME Strat!ExactDivisions, IsCall(call), NEW e \in Exchanges, call.snapshot[e] # Unknown
    PROVE  Strat!RawSpread(e) \in Samples
<1>1. PICK q \in Quotes : call.snapshot[call.exchange].ask = q.ask
  BY DEF IsCall, IsQuote
<1>2. PICK r \in Quotes : call.snapshot[e].bid = r.bid
  BY DEF IsCall, IsQuote
<1>3. Strat!RawSpread(e) = ((r.bid - q.ask) * Scale) \div q.ask
  BY <1>1, <1>2 DEF Strat!RawSpread, Strat!Bid, Strat!Ask
<1>4. q.ask \in Nat \ {0} /\ r.bid \in Nat \ {0} /\ Scale \in Nat
  BY SpatialConstants DEF Strat!ExactDivisions
<1>5. ((r.bid - q.ask) * Scale) \div q.ask \in Int
  <2>1. PICK y : y = (r.bid - q.ask) * Scale
    OBVIOUS
  <2>2. y \in Int
    BY <1>4, <2>1
  <2>3. y \div q.ask \in Int
    BY <1>4, <2>2
  <2> QED  BY <2>1, <2>3
<1>6. Strat!Divisible(((r.bid - q.ask) * Scale) \div q.ask, WindowSize)
  BY DEF Strat!ExactDivisions
<1> QED  BY <1>3, <1>5, <1>6 DEF Samples

LEMMA DetectKeepsSpreads ==
    ASSUME Strat!ExactDivisions, SpreadInv, todo # <<>>, Strat!Detect
    PROVE  \A p \in Pairs : Remembers(models'[p], spreads'[p])
<1> SUFFICES ASSUME NEW p \in Pairs PROVE Remembers(models'[p], spreads'[p])
  OBVIOUS
<1>1. IsCall(call) /\ Remembers(models[p], spreads[p]) /\ p \in Strat!Pairs /\ p[2] \in Exchanges
  BY DEF SpreadInv, Pairs, Strat!Pairs
<1>2. CASE p[1] = call.exchange /\ Strat!Fresh(p[2])
  <2>1. /\ models'[p] = Strat!Update(models[p], Strat!RawSpread(p[2]))
        /\ spreads'[p] = Append(spreads[p], Strat!RawSpread(p[2]))
    BY <1>1, <1>2 DEF Strat!Detect, Strat!Trained
  <2>2. Strat!RawSpread(p[2]) \in Samples
    BY <1>1, <1>2, RawSpreadIsSample DEF Strat!Fresh
  <2> QED  BY <1>1, <2>1, <2>2, UpdateRemembers
<1>3. CASE ~(p[1] = call.exchange /\ Strat!Fresh(p[2]))
  <2>1. models'[p] = models[p] /\ spreads'[p] = spreads[p]
    BY <1>1, <1>3 DEF Strat!Detect, Strat!Trained
  <2> QED  BY <1>1, <2>1
<1> QED  BY <1>2, <1>3

LEMMA SpreadInvNext ==
    ASSUME Strat!ExactDivisions, SpreadInv, [Strat!Next]_Strat!vars
    PROVE  SpreadInv'
<1>1. ASSUME UNCHANGED <<quotes, call, models, spreads>>, todo' # <<>> => todo # <<>>
      PROVE  SpreadInv'
  BY <1>1 DEF SpreadInv, IsCall, IsQuote
<1>2. CASE UNCHANGED Strat!vars
  BY <1>1, <1>2 DEF Strat!vars, Strat!engineVars, Strat!spatialVars, Strat!estimates, Strat!history
<1>3. CASE Strat!Tick
  BY <1>1, <1>3 DEF Strat!Tick, Strat!spatialVars, Strat!estimates, Strat!history
<1>4. ASSUME NEW e \in Exchanges, NEW q \in Quotes, Strat!ProcessUpdate(e, q)
      PROVE  SpreadInv'
  <2>1. /\ quotes' = [quotes EXCEPT ![e] = [bid |-> q.bid, ask |-> q.ask, at |-> now]]
        /\ call' = [exchange |-> e, snapshot |-> quotes', now |-> now, cfg |-> Unknown]
        /\ UNCHANGED <<models, spreads>>
    BY <1>4 DEF Strat!ProcessUpdate, Strat!estimates, Strat!history
  <2>2. DOMAIN quotes' = Exchanges /\ IsQuote(quotes'[e])
    BY <2>1 DEF SpreadInv, IsQuote
  <2>3. \A x \in Exchanges : quotes'[x] # Unknown => IsQuote(quotes'[x])
    BY <2>1, <2>2 DEF SpreadInv
  <2>4. IsCall(call')
    BY <2>1, <2>2, <2>3 DEF IsCall
  <2>5. \A p \in Pairs : Remembers(models'[p], spreads'[p])
    BY <2>1 DEF SpreadInv
  <2> QED  BY <2>2, <2>3, <2>4, <2>5 DEF SpreadInv, IsCall, IsQuote
<1>5. CASE Strat!DetectStep
  <2>1. /\ quotes' = quotes /\ todo # <<>>
        /\ \/ Strat!CopyConfig
           \/ Strat!Detect /\ UNCHANGED call
           \/ UNCHANGED Strat!spatialVars
    BY <1>5 DEF Strat!DetectStep, Strat!Next1
  <2>2. CASE Strat!CopyConfig
    <3>1. UNCHANGED <<models, spreads>> /\ call' = [call EXCEPT !.cfg = cfg]
      BY <2>2 DEF Strat!CopyConfig, Strat!estimates, Strat!history
    <3>2. IsCall(call)
      BY <2>1 DEF SpreadInv
    <3>3. PICK e, snap, at : e = call.exchange /\ snap = call.snapshot /\ at = call.now
      OBVIOUS
    <3>4. call' = [exchange |-> e, snapshot |-> snap, now |-> at, cfg |-> cfg]
      BY <3>1, <3>2, <3>3 DEF IsCall
    <3>5. IsCall(call')
      BY <3>2, <3>3, <3>4 DEF IsCall
    <3>6. \A p \in Pairs : Remembers(models'[p], spreads'[p])
      BY <3>1 DEF SpreadInv
    <3> QED  BY <2>1, <3>5, <3>6 DEF SpreadInv, IsCall, IsQuote
  <2>3. CASE Strat!Detect /\ UNCHANGED call
    <3>1. \A p \in Pairs : Remembers(models'[p], spreads'[p])
      BY <2>1, <2>3, DetectKeepsSpreads
    <3> QED  BY <2>1, <2>3, <3>1 DEF SpreadInv, IsCall, IsQuote
  <2>4. CASE UNCHANGED Strat!spatialVars
    BY <1>1, <2>1, <2>4 DEF Strat!spatialVars, Strat!estimates, Strat!history
  <2> QED  BY <2>1, <2>2, <2>3, <2>4
<1>6. CASE Strat!Trade
  BY <1>1, <1>6 DEF Strat!Trade, Strat!RecordTradeReturn, Strat!engineVars
<1>7. CASE Strat!Setter
  BY <1>1, <1>7 DEF Strat!Setter, Strat!Set, Strat!engineVars, Strat!estimates, Strat!history
<1>8. CASE Strat!Polling
  BY <1>1, <1>8 DEF Strat!Polling, Strat!engineVars, Strat!spatialVars, Strat!estimates, Strat!history
<1> QED  BY <1>2, <1>3, <1>4, <1>5, <1>6, <1>7, <1>8 DEF Strat!Next

\* A model describes exactly the last WindowSize spreads of its pair, for any
\* window, prices and interleaving, where the divisions are exact: Update's
\* eviction undoes what the evicted sample once added (spread.go:47-84).
THEOREM SpreadTellsWindowHolds ==
    ASSUME Strat!ExactDivisions
    PROVE  Strat!Spec => []SpreadTellsWindow
<1>1. SpreadInv => SpreadTellsWindow
  BY RemembersDescribes DEF SpreadInv, SpreadTellsWindow
<1> QED  BY <1>1, SpreadInvInit, SpreadInvNext, PTL DEF Strat!Spec

-----------------------------------------------------------------------------
(* A KellyEstimator holds the moments of all returns. *)

LEMMA StratCardinality == ASSUME NEW S PROVE Strat!Cardinality(S) = Cardinality(S)
  BY DEF Strat!Cardinality, Cardinality

LEMMA TotalsNext ==
    ASSUME NEW s \in Seq(Int), NEW x \in Int, NEW t, t = Append(s, x)
    PROVE  /\ Sum(s) \in Int /\ Sum(t) = Sum(s) + x
           /\ Sum(Squares(s)) \in Int /\ Sum(Squares(t)) = Sum(Squares(s)) + x * x
<1>1. PICK n, k, a, b, T, U : /\ n = Len(s) /\ k = n + 1 /\ a = Squares(s) /\ b = Squares(t)
                              /\ T = 1 .. n /\ U = 1 .. k
  OBVIOUS
<1>2. /\ n \in Nat /\ DOMAIN s = T /\ DOMAIN t = U /\ t[k] = x
      /\ \A i \in T : s[i] \in Int /\ t[i] = s[i]
  BY <1>1
<1>3. IsFiniteSet(U) /\ k \in U /\ T = U \ {k}
  <2>1. k \in Int
    BY <1>1, <1>2
  <2>2. IsFiniteSet(U)
    BY <1>1, <2>1, FS_Interval
  <2> QED  BY <1>1, <1>2, <2>2
<1>4. DOMAIN a = T /\ DOMAIN b = U /\ (\A i \in T : a[i] = s[i] * s[i]) /\ \A i \in U : b[i] = t[i] * t[i]
  BY <1>1, <1>2 DEF Squares
<1>5. x * x \in Int /\ \A i \in T : s[i] * s[i] \in Int
  BY <1>2
<1>6. Grows(s, T, t, U, k)
  BY <1>2, <1>3 DEF Grows
<1>7. Grows(a, T, b, U, k)
  BY <1>2, <1>3, <1>4, <1>5 DEF Grows
<1>8. /\ SumFunctionOnSet(s, T) \in Int /\ SumFunctionOnSet(t, U) = SumFunctionOnSet(s, T) + t[k]
      /\ SumFunctionOnSet(a, T) \in Int /\ SumFunctionOnSet(b, U) = SumFunctionOnSet(a, T) + b[k]
  <2>1. SumFunctionOnSet(s, T) \in Int /\ SumFunctionOnSet(t, U) = SumFunctionOnSet(s, T) + t[k]
    <3>1. PICK c, d : c = s /\ d = t
      OBVIOUS
    <3>2. Grows(c, T, d, U, k)
      BY <1>6, <3>1
    <3>3. SumFunctionOnSet(c, T) \in Int /\ SumFunctionOnSet(d, U) = SumFunctionOnSet(c, T) + d[k]
      BY <3>2, SumGrows
    <3> QED  BY <3>1, <3>3
  <2>2. SumFunctionOnSet(a, T) \in Int /\ SumFunctionOnSet(b, U) = SumFunctionOnSet(a, T) + b[k]
    BY <1>7, SumGrows
  <2> QED  BY <2>1, <2>2
<1>9. b[k] = x * x
  BY <1>2, <1>3, <1>4
<1> QED  BY <1>1, <1>2, <1>4, <1>8, <1>9 DEF Sum

Earnings == {x \in Int : Strat!Divisible(x, MaxTrades)}

KellyHolds(k, s) ==
    /\ k.n = Len(s)
    /\ Held(k.n, k.mean, k.m2, Sum(s), Sum(Squares(s)))

LEMMA NewKellyHolds == KellyHolds(Strat!NewKelly, <<>>)
<1>1. PICK s : s = <<>>
  OBVIOUS
<1>2. DOMAIN s = {} /\ DOMAIN Squares(s) = {} /\ Len(s) = 0
  BY <1>1 DEF Squares
<1>3. Sum(s) = 0 /\ Sum(Squares(s)) = 0
  BY <1>2, SumOfNone DEF Sum
<1>4. Held(0, 0, 0, 0, 0)
  BY DEF Held
<1> QED  BY <1>1, <1>2, <1>3, <1>4 DEF KellyHolds, Strat!NewKelly

LEMMA RecordHolds ==
    ASSUME NEW k, NEW s \in Seq(Int), KellyHolds(k, s), NEW x \in Int,
           (Sum(s) + x) % (Len(s) + 1) = 0
    PROVE  KellyHolds(Strat!Record(k, x), Append(s, x))
<1>1. PICK n, mu, m2, j, nu, d, S, Q :
        /\ n = k.n /\ mu = k.mean /\ m2 = k.m2 /\ j = n + 1
        /\ nu = mu + (x - mu) \div j /\ d = m2 + (x - mu) * (x - nu)
        /\ S = Sum(s) /\ Q = Sum(Squares(s))
  OBVIOUS
<1>2. Strat!Record(k, x) = [n |-> j, mean |-> nu, m2 |-> d]
  BY <1>1 DEF Strat!Record
<1>3. Held(n, mu, m2, S, Q) /\ Gained(nu, mu, S, x, j)
  BY <1>1 DEF KellyHolds, Gained
<1>4. Held(j, nu, d, S + x, Q + x * x)
  BY <1>1, <1>3, MomentsAdded
<1>5. PICK t : t = Append(s, x)
  OBVIOUS
<1>6. Len(t) = j /\ Sum(t) = S + x /\ Sum(Squares(t)) = Q + x * x
  <2>1. Sum(t) = Sum(s) + x /\ Sum(Squares(t)) = Sum(Squares(s)) + x * x
    BY <1>5, TotalsNext
  <2>2. Len(t) = Len(s) + 1 /\ n = Len(s)
    BY <1>1, <1>5 DEF KellyHolds
  <2> QED  BY <1>1, <2>1, <2>2
<1> QED  BY <1>2, <1>4, <1>5, <1>6 DEF KellyHolds

-----------------------------------------------------------------------------
(* What a KellyEstimator advises, as a share of the position limit. *)

Proportional(f, g) ==
    /\ f[1] \in Int /\ f[2] \in Int /\ g[1] \in Int /\ g[2] \in Int
    /\ f[1] * g[2] = g[1] * f[2]

LEMMA SameSign ==
    ASSUME NEW x \in Int, NEW n \in Nat, n > 0
    PROVE  x * n > 0 <=> x > 0
  OBVIOUS

LEMMA SameOrder ==
    ASSUME NEW x \in Int, NEW y \in Int, NEW n \in Nat, n > 0
    PROVE  x * n >= y * n <=> x >= y
<1>1. (x - y) * n = x * n - y * n
  OBVIOUS
<1>2. x >= y => (x - y) * n >= 0
  OBVIOUS
<1>3. x < y => (y - x) * n > 0
  BY SameSign
<1>4. (y - x) * n = y * n - x * n
  OBVIOUS
<1>5. x * n \in Int /\ y * n \in Int
  OBVIOUS
<1> QED  BY <1>1, <1>2, <1>3, <1>4, <1>5

LEMMA FractionAdvised ==
    ASSUME NEW p, p \in DOMAIN kelly => KellyHolds(kelly[p], returns[p]),
           p \notin DOMAIN kelly => returns[p] = <<>>
    PROVE  Proportional(Strat!KellyFraction(p), AdvisedFraction(returns[p]))
<1>1. /\ KellyMinSamples \in Nat \ {0}
      /\ KellyCap[1] \in Nat \ {0} /\ KellyCap[2] \in Nat \ {0} /\ KellyCap = <<KellyCap[1], KellyCap[2]>>
  BY EstimatorsConstants
<1>2. PICK rs, n, S, Q, D : /\ rs = returns[p] /\ n = Len(rs) /\ S = Sum(rs) /\ Q = Sum(Squares(rs))
                            /\ D = n * Q - S * S
  OBVIOUS
<1>3. AdvisedFraction(rs) =
        IF ~(n >= KellyMinSamples /\ D > 0 /\ S > 0) THEN <<1, 1>>
        ELSE IF S * n * KellyCap[2] >= KellyCap[1] * D THEN KellyCap ELSE <<S * n, D>>
  BY <1>2 DEF AdvisedFraction
<1>4. Proportional(<<1, 1>>, <<1, 1>>) /\ Proportional(KellyCap, KellyCap)
  BY <1>1 DEF Proportional
<1>5. CASE p \notin DOMAIN kelly
  <2>1. n = 0
    BY <1>2, <1>5
  <2>2. AdvisedFraction(rs) = <<1, 1>>
    BY <1>1, <1>3, <2>1
  <2>3. Strat!KellyFraction(p) = <<1, 1>>
    BY <1>5 DEF Strat!KellyFraction
  <2> QED  BY <1>2, <1>4, <2>2, <2>3
<1>6. CASE p \in DOMAIN kelly
  <2>1. PICK mu, m2, c, d : mu = kelly[p].mean /\ m2 = kelly[p].m2 /\ c = KellyCap[1] /\ d = KellyCap[2]
    OBVIOUS
  <2>2. kelly[p].n = n /\ Held(n, mu, m2, S, Q)
    BY <1>2, <1>6, <2>1 DEF KellyHolds
  <2>3. /\ n \in Nat /\ mu \in Int /\ m2 \in Int /\ S \in Int /\ Q \in Int /\ D \in Int
        /\ mu * n = S /\ m2 * n = D
    <3>1. /\ n \in Nat /\ mu \in Int /\ m2 \in Int /\ S \in Int /\ Q \in Int
          /\ mu * n = S /\ m2 = Q - mu * S
      BY <2>2 DEF Held
    <3>2. (Q - mu * (mu * n)) * n = n * Q - (mu * n) * (mu * n)
      BY <3>1
    <3>3. n * Q \in Int /\ S * S \in Int
      BY <3>1
    <3>4. m2 * n = n * Q - S * S
      BY <3>1, <3>2
    <3>5. D \in Int
      BY <1>2, <3>3
    <3> QED  BY <1>2, <3>1, <3>4, <3>5
  <2>4. Strat!Fraction(kelly[p]) =
          IF n < KellyMinSamples \/ m2 <= 0 \/ mu < 0 THEN <<0, 1>>
          ELSE IF S * d < c * m2 THEN <<S, m2>> ELSE KellyCap
    BY <1>2, <2>1, <2>2, <2>3 DEF Strat!Fraction, Strat!NoFraction
  <2>5. Strat!KellyFraction(p) =
          IF Strat!Fraction(kelly[p])[1] > 0 THEN Strat!Fraction(kelly[p]) ELSE <<1, 1>>
    BY <1>6 DEF Strat!KellyFraction
  <2>6. CASE n >= KellyMinSamples /\ m2 > 0 /\ mu > 0
    <3>1. S > 0 /\ D > 0 /\ n > 0
      BY <1>1, <2>3, <2>6, SameSign
    <3>2. S * n * d >= c * D <=> ~(S * d < c * m2)
      <4>1. PICK y, z : y = S * d /\ z = c * m2
        OBVIOUS
      <4>2. /\ S \in Int /\ n \in Int /\ d \in Int /\ c \in Int /\ m2 \in Int
            /\ D = m2 * n
        BY <1>1, <2>1, <2>3
      <4>3. y \in Int /\ z \in Int
        BY <4>1, <4>2
      <4>4. S * n * d = y * n
        <5>1. S * n * d = S * d * n
          BY <4>2
        <5> QED  BY <4>1, <5>1
      <4>5. c * D = z * n
        <5>1. c * (m2 * n) = c * m2 * n
          BY <4>2
        <5> QED  BY <4>1, <4>2, <5>1
      <4>6. y * n >= z * n <=> y >= z
        BY <2>3, <3>1, <4>3, SameOrder
      <4> QED  BY <4>1, <4>3, <4>4, <4>5, <4>6
    <3>3. CASE S * d < c * m2
      <4>1. Strat!KellyFraction(p) = <<S, m2>>
        BY <1>1, <2>3, <2>4, <2>5, <2>6, <3>1, <3>3
      <4>2. AdvisedFraction(rs) = <<S * n, D>>
        BY <1>3, <2>1, <2>6, <3>1, <3>2, <3>3
      <4>3. S * n \in Int /\ S * D = (S * n) * m2
        BY <2>3
      <4> QED  BY <1>2, <2>3, <4>1, <4>2, <4>3 DEF Proportional
    <3>4. CASE ~(S * d < c * m2)
      <4>1. Strat!KellyFraction(p) = KellyCap
        BY <1>1, <2>3, <2>4, <2>5, <2>6, <3>1, <3>4
      <4>2. AdvisedFraction(rs) = KellyCap
        BY <1>3, <2>1, <2>6, <3>1, <3>2, <3>4
      <4> QED  BY <1>2, <1>4, <4>1, <4>2
    <3> QED  BY <3>3, <3>4
  <2>7. CASE ~(n >= KellyMinSamples /\ m2 > 0 /\ mu > 0)
    <3>1. ~(n >= KellyMinSamples /\ D > 0 /\ S > 0)
      BY <1>1, <2>3, <2>7, SameSign
    <3>2. AdvisedFraction(rs) = <<1, 1>>
      BY <1>3, <3>1
    <3>3. Strat!KellyFraction(p) = <<1, 1>>
      <4>1. CASE n < KellyMinSamples \/ m2 <= 0 \/ mu < 0
        BY <2>4, <2>5, <4>1
      <4>2. CASE ~(n < KellyMinSamples \/ m2 <= 0 \/ mu < 0)
        <5>1. mu = 0 /\ m2 > 0
          BY <1>1, <2>3, <2>7, <4>2
        <5>2. S = 0 /\ S * d = 0 /\ c * m2 > 0
          BY <1>1, <2>1, <2>3, <5>1, SameSign
        <5> QED  BY <2>4, <2>5, <4>2, <5>2
      <4> QED  BY <4>1, <4>2
    <3> QED  BY <1>2, <1>4, <3>2, <3>3
  <2> QED  BY <2>6, <2>7
<1> QED  BY <1>5, <1>6

-----------------------------------------------------------------------------
(* The ring of the last trades. *)

Trades == [buf : [0 .. CorrWindowN - 1 -> Pairs \cup {<<>>}], idx : 0 .. CorrWindowN - 1,
           len : 0 .. CorrWindowN]

First(r) == IF r.len < CorrWindowN THEN 0 ELSE r.idx

Remembered(r, s) ==
    /\ r \in Trades
    /\ r.len < CorrWindowN => r.idx = r.len
    /\ Ring(r.buf, First(r), r.len, CorrWindowN, s)

LEMMA PushRemembers ==
    ASSUME NEW r, NEW s \in Seq(Pairs), Remembered(r, s), NEW p \in Pairs
    PROVE  Remembered(Strat!PushTrade(r, p), Append(s, p))
<1> DEFINE u == Strat!PushTrade(r, p)
<1>1. CorrWindowN \in Nat \ {0}
  BY EstimatorsConstants
<1>2. /\ r.buf \in [0 .. CorrWindowN - 1 -> Pairs \cup {<<>>}] /\ r.idx \in 0 .. CorrWindowN - 1
      /\ r.len \in 0 .. CorrWindowN /\ Ring(r.buf, First(r), r.len, CorrWindowN, s)
      /\ r.len < CorrWindowN => r.idx = r.len
  BY DEF Remembered, Trades
<1>3. PICK b, i, l : b = u.buf /\ i = u.idx /\ l = u.len
  OBVIOUS
<1>4. /\ u = [buf |-> b, idx |-> i, len |-> l]
      /\ b = [r.buf EXCEPT ![r.idx] = p] /\ i = (r.idx + 1) % CorrWindowN
      /\ l = IF r.len < CorrWindowN THEN r.len + 1 ELSE r.len
  BY <1>3 DEF Strat!PushTrade
<1> HIDE DEF u
<1>5. i = Wrap(r.idx + 1, CorrWindowN)
  BY <1>1, <1>2, <1>4, WrapIsMod
<1>6. u \in Trades
  <2>1. i \in 0 .. CorrWindowN - 1
    BY <1>1, <1>2, <1>5 DEF Wrap
  <2>2. l \in 0 .. CorrWindowN
    BY <1>1, <1>2, <1>4
  <2>3. b \in [0 .. CorrWindowN - 1 -> Pairs \cup {<<>>}]
    BY <1>2, <1>4
  <2> QED  BY <1>4, <2>1, <2>2, <2>3 DEF Trades
<1>7. l < CorrWindowN => i = l
  BY <1>1, <1>2, <1>4, <1>5 DEF Wrap
<1>8. RingPut(r.buf, First(r), r.len, CorrWindowN, p, b, First(u), l)
  <2>1. CASE r.len < CorrWindowN
    <3>1. First(r) = 0 /\ b = [r.buf EXCEPT ![r.len] = p] /\ l = r.len + 1
      BY <1>2, <1>4, <2>1 DEF First
    <3>2. First(u) = 0
      <4>1. CASE l < CorrWindowN
        BY <1>4, <4>1 DEF First
      <4>2. CASE l = CorrWindowN
        BY <1>1, <1>2, <1>4, <1>5, <2>1, <4>2 DEF First, Wrap
      <4> QED  BY <1>1, <1>2, <2>1, <3>1, <4>1, <4>2
    <3> QED  BY <2>1, <3>1, <3>2 DEF RingPut
  <2>2. CASE ~(r.len < CorrWindowN)
    BY <1>4, <1>5, <2>2 DEF First, RingPut
  <2> QED  BY <2>1, <2>2
<1>9. Ring(b, First(u), l, CorrWindowN, Append(s, p))
  BY <1>1, <1>2, <1>8, RingNext
<1> QED  BY <1>4, <1>6, <1>7, <1>9 DEF Remembered, u

LEMMA NewRingRemembers == Remembered(Strat!NewRing, <<>>)
<1>1. CorrWindowN \in Nat \ {0}
  BY EstimatorsConstants
<1> QED  BY <1>1 DEF Strat!NewRing, Remembered, Trades, First, Ring

\* The window lists the trades that the ring holds.
LEMMA SameCount ==
    ASSUME NEW r, NEW s \in Seq(Pairs), Remembered(r, s), NEW b, NEW c
    PROVE  Strat!CountSameExchange(r, b, c)
             = Cardinality({i \in LastOf(s, CorrWindowN) : SharesExchange(s[i], <<b, c>>)})
<1>1. CorrWindowN \in Nat \ {0}
  BY EstimatorsConstants
<1>2. PICK size, start, len, lo, n :
        /\ size = CorrWindowN /\ start = First(r) /\ len = r.len /\ n = Len(s) /\ lo = n - len
  OBVIOUS
<1> DEFINE S == {i \in LastOf(s, CorrWindowN) : SharesExchange(s[i], <<b, c>>)}
           T == {j \in 0 .. len - 1 : {r.buf[j][1], r.buf[j][2]} \cap {b, c} # {}}
           f == [i \in S |-> Wrap(start + (i - lo - 1), size)]
<1>3. /\ size \in Nat \ {0} /\ n \in Nat /\ len = (IF n > size THEN size ELSE n)
      /\ start \in 0 .. size - 1 /\ (len < size => start = 0)
      /\ \A i \in 0 .. len - 1 : r.buf[Wrap(start + i, size)] = s[lo + 1 + i]
  <2>1. PICK buf : buf = r.buf
    OBVIOUS
  <2>2. Ring(buf, start, len, size, s)
    BY <1>2, <2>1 DEF Remembered
  <2> HIDE DEF S, T, f
  <2>3. /\ start \in 0 .. size - 1 /\ (len < size => start = 0)
        /\ len = (IF n > size THEN size ELSE n)
        /\ \A i \in 0 .. len - 1 : buf[Wrap(start + i, size)] = s[(n - len) + 1 + i]
    BY <1>2, <2>2 DEF Ring
  <2>4. n \in Nat
    BY <1>2
  <2>5. \A i \in 0 .. len - 1 : (n - len) + 1 + i = lo + 1 + i
    BY <1>2
  <2>6. \A i \in 0 .. len - 1 : r.buf[Wrap(start + i, size)] = s[lo + 1 + i]
    BY <2>1, <2>3, <2>5
  <2> QED  BY <1>1, <1>2, <2>3, <2>4, <2>6
<1>4. LastOf(s, CorrWindowN) = (lo + 1) .. n /\ lo \in Nat /\ len \in 0 .. size /\ lo + len = n
  <2>1. lo \in Nat /\ len \in 0 .. size /\ lo + len = n
    BY <1>2, <1>3
  <2>2. LastOf(s, CorrWindowN) = (IF n > size THEN n - size + 1 ELSE 1) .. n
    BY <1>2 DEF LastOf
  <2>3. (IF n > size THEN n - size + 1 ELSE 1) = lo + 1
    BY <1>2, <1>3, <2>1
  <2> QED  BY <2>1, <2>2, <2>3
<1>5. ASSUME NEW i \in (lo + 1) .. n
      PROVE  /\ i - lo - 1 \in 0 .. len - 1
             /\ Wrap(start + (i - lo - 1), size) \in 0 .. len - 1
             /\ r.buf[Wrap(start + (i - lo - 1), size)] = s[i]
  <2>1. PICK k : k = i - lo - 1
    OBVIOUS
  <2>2. k \in 0 .. len - 1 /\ lo + 1 + k = i
    BY <1>3, <1>4, <2>1
  <2>3. Wrap(start + k, size) \in 0 .. len - 1
    BY <1>3, <1>4, <2>2 DEF Wrap
  <2> QED  BY <1>3, <2>1, <2>2, <2>3
<1>6. f \in [S -> T]
  BY <1>4, <1>5 DEF SharesExchange
<1>7. ASSUME NEW i \in S, NEW j \in S, f[i] = f[j]
      PROVE  i = j
  <2>1. i \in (lo + 1) .. n /\ j \in (lo + 1) .. n
    BY <1>4
  <2>2. Wrap(start + (i - lo - 1), size) = Wrap(start + (j - lo - 1), size)
    BY <1>7
  <2>3. PICK k, l : k = i - lo - 1 /\ l = j - lo - 1
    OBVIOUS
  <2>4. k \in 0 .. size - 1 /\ l \in 0 .. size - 1 /\ i = k + lo + 1 /\ j = l + lo + 1
    BY <1>3, <1>4, <2>1, <2>3
  <2>5. Wrap(start + k, size) = Wrap(start + l, size)
    BY <2>2, <2>3
  <2>6. k = l
    BY <1>3, <2>4, <2>5 DEF Wrap
  <2> QED  BY <2>4, <2>6
<1>8. ASSUME NEW j \in T
      PROVE  \E i \in S : f[i] = j
  <2>1. PICK i : i = lo + 1 + (IF j >= start THEN j - start ELSE j + size - start)
    OBVIOUS
  <2>2. i \in (lo + 1) .. n /\ Wrap(start + (i - lo - 1), size) = j
    BY <1>3, <1>4, <2>1 DEF Wrap
  <2>3. i \in S
    BY <1>4, <1>5, <2>2 DEF SharesExchange
  <2> QED  BY <2>2, <2>3
<1>9. ExistsBijection(S, T)
  BY <1>6, <1>7, <1>8 DEF ExistsBijection, Bijection, Injection, Surjection, IsInjective
<1>10. IsFiniteSet(S)
  <2>1. IsFiniteSet((lo + 1) .. n)
    BY <1>3, <1>4, FS_Interval
  <2> QED  BY <1>4, <2>1, FS_Subset
<1>11. Cardinality(T) = Cardinality(S)
  BY <1>9, <1>10, FS_Bijection
<1>12. Strat!CountSameExchange(r, b, c) = Cardinality(T)
  BY <1>2, StratCardinality DEF Strat!CountSameExchange
<1> QED  BY <1>11, <1>12

-----------------------------------------------------------------------------
(* The volume of an opportunity. *)

LEMMA MaxOfTwo ==
    ASSUME NEW a \in Int, NEW b \in Int
    PROVE  Max({a, b}) = IF a >= b THEN a ELSE b
<1>1. PICK m : m = IF a >= b THEN a ELSE b
  OBVIOUS
<1>2. m \in {a, b} /\ \A y \in {a, b} : m >= y
  BY <1>1
<1>3. \A x \in {a, b} : (\A y \in {a, b} : x >= y) => x = m
  BY <1>1, <1>2
<1>4. Max({a, b}) = m
  BY <1>2, <1>3 DEF Max
<1> QED  BY <1>1, <1>4

Matches(p) == {i \in LastOf(traded, CorrWindowN) : SharesExchange(traded[i], p)}

LEMMA PenaltyAdvised ==
    ASSUME NEW p \in Pairs, traded \in Seq(Pairs), Remembered(recent, traded),
           NEW t, t = Max({CorrWindowN, 10 * CorrWindowN - Weight * Cardinality(Matches(p))})
    PROVE  /\ t \in Int /\ Strat!Penalty(p)[1] \in Int /\ Strat!Penalty(p)[2] \in Int
           /\ Strat!Penalty(p)[1] * (10 * CorrWindowN) = t * Strat!Penalty(p)[2]
<1>1. CorrWindowN \in Nat \ {0} /\ Weight \in Nat
  BY EstimatorsConstants, SpatialConstants
<1>2. PICK c, k, d : c = CorrWindowN /\ k = Cardinality(Matches(p)) /\ d = 10 * c - Weight * k
  OBVIOUS
<1>3. k = Strat!CountSameExchange(recent, p[1], p[2])
  <2>1. p = <<p[1], p[2]>>
    BY DEF Pairs
  <2> QED  BY <1>2, <2>1, SameCount DEF Matches
<1>4. k \in Nat
  <2>1. Len(traded) \in Nat
    OBVIOUS
  <2>2. IsFiniteSet(LastOf(traded, CorrWindowN))
    <3>1. PICK lo, n : LastOf(traded, CorrWindowN) = lo .. n /\ lo \in Int /\ n \in Int
      BY <1>1, <2>1 DEF LastOf
    <3> QED  BY <3>1, FS_Interval
  <2>3. IsFiniteSet(Matches(p))
    BY <2>2, FS_Subset DEF Matches
  <2> QED  BY <1>2, <2>3, FS_CardinalityType
<1>5. d \in Int /\ c \in Nat \ {0} /\ 10 * c \in Nat
  <2>1. Weight * k \in Int
    BY <1>1, <1>4
  <2> QED  BY <1>1, <1>2, <2>1
<1>6. t = IF c >= d THEN c ELSE d
  BY <1>2, <1>5, MaxOfTwo
<1>7. Strat!Penalty(p) = IF d < c THEN <<1, 10>> ELSE <<d, 10 * c>>
  BY <1>2, <1>3 DEF Strat!Penalty
<1>8. CASE d < c
  BY <1>2, <1>5, <1>6, <1>7, <1>8
<1>9. CASE ~(d < c)
  <2>1. t = d /\ Strat!Penalty(p)[1] = d /\ Strat!Penalty(p)[2] = 10 * c
    BY <1>5, <1>6, <1>7, <1>9
  <2> QED  BY <1>2, <1>5, <2>1
<1> QED  BY <1>8, <1>9

LEMMA Products ==
    ASSUME NEW f, NEW g, Proportional(f, g), NEW x, NEW y, Proportional(x, y),
           NEW m \in Int, NEW k \in Int
    PROVE  (f[1] * m * x[1]) * (g[2] * k * y[2]) = (g[1] * m * y[1]) * (f[2] * k * x[2])
<1>1. PICK a, b, c, d, u, v, t, w : /\ a = f[1] /\ b = f[2] /\ c = g[1] /\ d = g[2]
                                    /\ u = x[1] /\ v = x[2] /\ t = y[1] /\ w = y[2]
  OBVIOUS
<1>2. /\ a \in Int /\ b \in Int /\ c \in Int /\ d \in Int /\ a * d = c * b
      /\ u \in Int /\ v \in Int /\ t \in Int /\ w \in Int /\ u * w = t * v
  BY <1>1 DEF Proportional
<1>3. (a * m * u) * (d * k * w) = (a * d) * ((m * k) * (u * w))
  BY <1>2
<1>4. (c * m * t) * (b * k * v) = (c * b) * ((m * k) * (t * v))
  BY <1>2
<1> QED  BY <1>1, <1>2, <1>3, <1>4

-----------------------------------------------------------------------------
(* The invariant of trades and plans. *)

IsConfig(c) == DOMAIN c = {"base", "position", "staleness", "fees"} /\ c.position \in Nat

EstimatesInv ==
    /\ traded \in Seq(Pairs) /\ Len(traded) <= MaxTrades
    /\ Remembered(recent, traded)
    /\ DOMAIN returns = Pairs
    /\ \A p \in Pairs :
         /\ returns[p] \in Seq(Earnings) /\ Len(returns[p]) <= Len(traded)
         /\ Strat!Divisible(Sum(returns[p]), MaxTrades)
         /\ p \in DOMAIN kelly => KellyHolds(kelly[p], returns[p])
         /\ p \notin DOMAIN kelly => returns[p] = <<>>

Steps == {"copy", "spatial", "triangular", "funding"}

\* Spatial runs on a copy of the configuration.
Planned(s, c) ==
    /\ s \in Seq(Steps)
    /\ \A i \in DOMAIN s : s[i] = "spatial" => (i = 2 /\ s[1] = "copy") \/ (i = 1 /\ IsConfig(c))

PlanInv ==
    /\ IsConfig(cfg)
    /\ queued \subseteq Pairs
    /\ Planned(todo, call.cfg)

VolumeInv == SpreadInv /\ EstimatesInv /\ PlanInv

LEMMA VolumeAdvised ==
    ASSUME Strat!ExactDivisions, VolumeInv, todo # <<>>, Head(todo) = "spatial", Strat!Detect,
           NEW o \in opps'
    PROVE  AdvisedVolume(o)
<1>1. IsCall(call) /\ IsConfig(call.cfg)
  <2>1. 1 \in DOMAIN todo /\ todo[1] = "spatial"
    BY DEF VolumeInv, PlanInv, Planned
  <2> QED  BY <2>1 DEF VolumeInv, SpreadInv, PlanInv, Planned
<1>2. PICK e \in Exchanges :
        /\ Strat!Detected(e)
        /\ o = [pair |-> <<call.exchange, e>>, volume |-> Strat!MaxVolume(<<call.exchange, e>>),
                ask |-> Strat!Ask, position |-> call.cfg.position]
  BY DEF Strat!Detect
<1>3. PICK p : p = <<call.exchange, e>>
  OBVIOUS
<1>4. p \in Pairs
  BY <1>1, <1>2, <1>3 DEF Pairs, IsCall, Strat!Detected, Strat!Fresh
<1>5. PICK f, g, n, m, k, t :
        /\ f = Strat!KellyFraction(p) /\ g = AdvisedFraction(returns[p]) /\ n = Strat!Penalty(p)
        /\ m = call.cfg.position /\ k = Strat!Ask
        /\ t = Max({CorrWindowN, 10 * CorrWindowN - Weight * Cardinality(Matches(p))})
  OBVIOUS
<1>6. o.pair = p /\ o.position = m /\ o.ask = k /\ o.volume = <<f[1] * m * n[1], f[2] * k * n[2]>>
  BY <1>2, <1>3, <1>5 DEF Strat!MaxVolume
<1>7. m \in Int /\ k \in Int
  <2>1. PICK q \in Quotes : k = q.ask
    BY <1>1, <1>5 DEF IsCall, IsQuote, Strat!Ask
  <2> QED  BY <1>1, <1>5, <2>1 DEF IsConfig, Strat!ExactDivisions
<1>8. Proportional(f, g)
  BY <1>4, <1>5, FractionAdvised DEF VolumeInv, EstimatesInv
<1>9. /\ t \in Int /\ n[1] \in Int /\ n[2] \in Int
      /\ n[1] * (10 * CorrWindowN) = t * n[2]
  BY <1>4, <1>5, PenaltyAdvised DEF VolumeInv, EstimatesInv
<1>10. PICK w : w = 10 * CorrWindowN
  OBVIOUS
<1>11. w \in Int /\ CorrWindowN \in Int
  BY <1>10, EstimatorsConstants
<1>12. (f[1] * m * n[1]) * (g[2] * k * w) = (g[1] * m * t) * (f[2] * k * n[2])
  <2>1. PICK y : y = <<t, w>>
    OBVIOUS
  <2>2. y[1] = t /\ y[2] = w
    BY <2>1
  <2>3. Proportional(n, y)
    BY <1>9, <1>10, <1>11, <2>2 DEF Proportional
  <2>4. (f[1] * m * n[1]) * (g[2] * k * y[2]) = (g[1] * m * y[1]) * (f[2] * k * n[2])
    BY <1>7, <1>8, <2>3, Products
  <2> QED  BY <2>2, <2>4
<1>13. g[2] * k * 10 * CorrWindowN = g[2] * k * w
  BY <1>7, <1>8, <1>10, <1>11 DEF Proportional
<1>14. Equal(o.volume, <<g[1] * m * t, g[2] * k * 10 * CorrWindowN>>)
  BY <1>6, <1>12, <1>13 DEF Equal
<1> QED  BY <1>5, <1>6, <1>14 DEF AdvisedVolume, Matches

-----------------------------------------------------------------------------
(* Every step keeps it. *)

LEMMA VolumeInvInit == MaxTrades \in Nat /\ Strat!Init => VolumeInv
<1> SUFFICES ASSUME MaxTrades \in Nat, Strat!Init PROVE VolumeInv
  OBVIOUS
<1>1. SpreadInv
  BY SpreadInvInit
<1>2. /\ todo = <<>> /\ queued = {} /\ cfg \in Settings /\ kelly = <<>>
      /\ recent = Strat!NewRing /\ traded = <<>> /\ returns = [p \in Pairs |-> <<>>]
  BY DEF Strat!Init, Strat!SpatialInit, Strat!Pairs, Pairs
<1>3. PlanInv
  BY <1>2, SpatialConstants DEF PlanInv, Planned, IsConfig
<1>4. Strat!Divisible(Sum(<<>>), MaxTrades)
  <2>1. PICK s : s = <<>>
    OBVIOUS
  <2>2. DOMAIN s = {}
    BY <2>1
  <2>3. Sum(s) = 0
    BY <2>2, SumOfNone DEF Sum
  <2>4. \A k \in Nat \ {0} : 0 % k = 0
    OBVIOUS
  <2> QED  BY <2>1, <2>3, <2>4 DEF Strat!Divisible
<1>5. EstimatesInv
  <2>1. Remembered(recent, traded) /\ traded \in Seq(Pairs) /\ Len(traded) = 0
    BY <1>2, NewRingRemembers
  <2>2. DOMAIN kelly = {}
    BY <1>2
  <2>3. ASSUME NEW p \in Pairs
        PROVE  returns[p] = <<>> /\ returns[p] \in Seq(Earnings) /\ Len(returns[p]) = 0
    BY <1>2
  <2> QED  BY <1>2, <1>4, <2>1, <2>2, <2>3 DEF EstimatesInv
<1> QED  BY <1>1, <1>3, <1>5 DEF VolumeInv

LEMMA TradeKeeps ==
    ASSUME Strat!ExactDivisions, MaxTrades \in Nat, EstimatesInv, Len(traded) < MaxTrades,
           NEW p \in Pairs, NEW x \in Returns, Strat!RecordTradeReturn(p, x)
    PROVE  EstimatesInv'
<1>1. x \in Earnings
  BY DEF Strat!ExactDivisions, Earnings
<1>2. /\ kelly' = [q \in DOMAIN kelly \cup {p} |->
                     IF q # p THEN kelly[q]
                     ELSE Strat!Record(IF p \in DOMAIN kelly THEN kelly[p] ELSE Strat!NewKelly, x)]
      /\ recent' = Strat!PushTrade(recent, p)
      /\ returns' = [returns EXCEPT ![p] = Append(returns[p], x)]
      /\ traded' = Append(traded, p)
  BY DEF Strat!RecordTradeReturn
<1>3. /\ traded' \in Seq(Pairs) /\ Len(traded') = Len(traded) + 1 /\ Len(traded) \in Nat
      /\ Len(traded') <= MaxTrades
  BY <1>2 DEF EstimatesInv
<1>4. Remembered(recent', traded')
  BY <1>2, PushRemembers DEF EstimatesInv
<1>5. DOMAIN returns' = Pairs /\ DOMAIN kelly' = DOMAIN kelly \cup {p}
  BY <1>2 DEF EstimatesInv
<1>6. PICK rs, k : rs = returns[p] /\ k = IF p \in DOMAIN kelly THEN kelly[p] ELSE Strat!NewKelly
  OBVIOUS
<1>7. /\ rs \in Seq(Earnings) /\ rs \in Seq(Int) /\ Len(rs) \in Nat /\ Len(rs) <= Len(traded)
      /\ Strat!Divisible(Sum(rs), MaxTrades) /\ KellyHolds(k, rs)
  <2>1. Seq(Earnings) \subseteq Seq(Int)
    BY DEF Earnings
  <2>2. KellyHolds(k, rs)
    BY <1>6, NewKellyHolds DEF EstimatesInv
  <2> QED  BY <1>6, <2>1, <2>2 DEF EstimatesInv
<1>8. Sum(rs) \in Int /\ x \in Int /\ Strat!Divisible(x, MaxTrades)
  <2>1. x \in Int
    BY <1>1 DEF Earnings
  <2>2. Sum(rs) \in Int
    BY <1>7, <2>1, TotalsNext
  <2> QED  BY <1>1, <2>2 DEF Earnings
<1>9. Strat!Divisible(Sum(rs) + x, MaxTrades)
  BY <1>7, <1>8, DivisibleTotals
<1>10. PICK t : t = Append(rs, x)
  OBVIOUS
<1>11. /\ t \in Seq(Earnings) /\ Len(t) = Len(rs) + 1 /\ Sum(t) = Sum(rs) + x /\ t # <<>>
       /\ KellyHolds(Strat!Record(k, x), t)
  <2>1. (Sum(rs) + x) % (Len(rs) + 1) = 0
    <3>1. Len(rs) + 1 \in 1 .. MaxTrades
      BY <1>3, <1>7
    <3> QED  BY <1>9, <3>1 DEF Strat!Divisible
  <2>2. KellyHolds(Strat!Record(k, x), t)
    BY <1>7, <1>8, <1>10, <2>1, RecordHolds
  <2>3. Sum(t) = Sum(rs) + x
    BY <1>7, <1>8, <1>10, TotalsNext
  <2> QED  BY <1>1, <1>7, <1>10, <2>2, <2>3
<1>12. returns'[p] = t /\ kelly'[p] = Strat!Record(k, x)
  BY <1>2, <1>5, <1>6, <1>10 DEF EstimatesInv
<1>13. ASSUME NEW q \in Pairs
       PROVE  /\ returns'[q] \in Seq(Earnings) /\ Len(returns'[q]) <= Len(traded')
              /\ Strat!Divisible(Sum(returns'[q]), MaxTrades)
              /\ q \in DOMAIN kelly' => KellyHolds(kelly'[q], returns'[q])
              /\ q \notin DOMAIN kelly' => returns'[q] = <<>>
  <2>1. CASE q = p
    <3>1. Len(t) <= Len(traded')
      BY <1>3, <1>7, <1>11
    <3>2. q \in DOMAIN kelly'
      BY <1>5, <2>1
    <3> QED  BY <1>9, <1>11, <1>12, <2>1, <3>1, <3>2
  <2>2. CASE q # p
    <3>1. returns'[q] = returns[q]
      BY <1>2, <2>2 DEF EstimatesInv
    <3>2. q \in DOMAIN kelly' <=> q \in DOMAIN kelly
      BY <1>5, <2>2
    <3>3. q \in DOMAIN kelly => kelly'[q] = kelly[q]
      BY <1>2, <2>2
    <3>4. Len(returns[q]) <= Len(traded')
      <4>1. PICK rq : rq = returns[q]
        OBVIOUS
      <4>2. Len(rq) \in Nat /\ Len(rq) <= Len(traded)
        BY <4>1 DEF EstimatesInv
      <4> QED  BY <1>3, <4>1, <4>2
    <3> QED  BY <3>1, <3>2, <3>3, <3>4 DEF EstimatesInv
  <2> QED  BY <2>1, <2>2
<1> QED  BY <1>3, <1>4, <1>5, <1>13 DEF EstimatesInv

LEMMA StepsPlanned ==
    ASSUME NEW c PROVE
    Planned(Strat!StepsOf("spatial") \o Strat!StepsOf("triangular") \o Strat!StepsOf("funding"), c)
<1>1. PICK a, b, d : /\ a = Strat!StepsOf("spatial") /\ b = Strat!StepsOf("triangular")
                     /\ d = Strat!StepsOf("funding")
  OBVIOUS
<1>2. a = <<>> \/ a = <<"copy", "spatial">>
  BY <1>1 DEF Strat!StepsOf
<1>3. b = <<>> \/ b = <<"triangular">>
  BY <1>1 DEF Strat!StepsOf
<1>4. d = <<>> \/ d = <<"funding">>
  BY <1>1 DEF Strat!StepsOf
<1>5. a \in Seq(Steps) /\ b \in Seq(Steps) /\ d \in Seq(Steps)
  <2>1. <<>> \in Seq(Steps)
    BY EmptySeq
  <2>2. /\ <<"copy", "spatial">> \in Seq(Steps) /\ <<"triangular">> \in Seq(Steps)
        /\ <<"funding">> \in Seq(Steps)
    <3>1. <<"copy", "spatial">> \in Seq(Steps)
      BY DEF Steps
    <3>2. <<"triangular">> \in Seq(Steps)
      BY DEF Steps
    <3>3. <<"funding">> \in Seq(Steps)
      BY DEF Steps
    <3> QED  BY <3>1, <3>2, <3>3
  <2>3. a \in Seq(Steps)
    BY <1>2, <2>1, <2>2, Zenon
  <2>4. b \in Seq(Steps)
    BY <1>3, <2>1, <2>2, Zenon
  <2>5. d \in Seq(Steps)
    BY <1>4, <2>1, <2>2, Zenon
  <2> QED  BY <2>3, <2>4, <2>5
<1>6. PICK s : s = a \o b \o d
  OBVIOUS
<1>7. s \in Seq(Steps)
  BY <1>5, <1>6
<1>8. ASSUME NEW i \in DOMAIN s, s[i] = "spatial"
      PROVE  i = 2 /\ s[1] = "copy"
  BY <1>2, <1>3, <1>4, <1>6, <1>8
<1> QED  BY <1>1, <1>6, <1>7, <1>8 DEF Planned

LEMMA TailPlanned ==
    ASSUME NEW s, NEW c, Planned(s, c), s # <<>>, NEW d, Head(s) = "copy" => IsConfig(d)
    PROVE  Planned(Tail(s), d)
<1>1. /\ s \in Seq(Steps) /\ Len(s) \in Nat \ {0} /\ DOMAIN s = 1 .. Len(s) /\ Head(s) = s[1]
      /\ Tail(s) \in Seq(Steps) /\ DOMAIN Tail(s) = 1 .. Len(s) - 1
      /\ \A i \in 1 .. Len(s) - 1 : Tail(s)[i] = s[i + 1]
  BY DEF Planned
<1>2. ASSUME NEW i \in DOMAIN Tail(s), Tail(s)[i] = "spatial"
      PROVE  i = 1 /\ IsConfig(d)
  <2>1. i \in Nat \ {0} /\ i + 1 \in DOMAIN s /\ s[i + 1] = "spatial"
    BY <1>1, <1>2
  <2>2. PICK j : j = i + 1
    OBVIOUS
  <2>3. j = 2 /\ s[1] = "copy"
    <3>1. j \in DOMAIN s /\ s[j] = "spatial" /\ j # 1
      BY <2>1, <2>2
    <3> QED  BY <3>1 DEF Planned
  <2> QED  BY <1>1, <2>1, <2>2, <2>3
<1> QED  BY <1>1, <1>2 DEF Planned

LEMMA VolumeInvNext ==
    ASSUME Strat!ExactDivisions, MaxTrades \in Nat, VolumeInv, [Strat!Next]_(Strat!vars)
    PROVE  VolumeInv'
<1> USE DEF VolumeInv
<1>1. SpreadInv'
  BY SpreadInvNext
<1>2. ASSUME UNCHANGED <<kelly, recent, returns, traded>> PROVE EstimatesInv'
  BY <1>2 DEF EstimatesInv
<1>3. ASSUME UNCHANGED <<cfg, queued, todo, call>> PROVE PlanInv'
  BY <1>3 DEF PlanInv
<1>4. CASE UNCHANGED Strat!vars
  BY <1>1, <1>2, <1>3, <1>4
     DEF Strat!vars, Strat!engineVars, Strat!spatialVars, Strat!estimates, Strat!history
<1>5. CASE Strat!Tick
  BY <1>1, <1>2, <1>3, <1>5 DEF Strat!Tick, Strat!spatialVars, Strat!estimates, Strat!history
<1>6. ASSUME NEW e \in Exchanges, NEW q \in Quotes, Strat!ProcessUpdate(e, q)
      PROVE  VolumeInv'
  <2>1. UNCHANGED <<kelly, recent, returns, traded, cfg, queued>>
    BY <1>6 DEF Strat!ProcessUpdate, Strat!estimates, Strat!history
  <2>2. todo' = Strat!StepsOf("spatial") \o Strat!StepsOf("triangular") \o Strat!StepsOf("funding")
    BY <1>6 DEF Strat!ProcessUpdate
  <2>3. Planned(todo', call'.cfg)
    BY <2>2, StepsPlanned
  <2> QED  BY <1>1, <1>2, <2>1, <2>3 DEF PlanInv
<1>7. CASE Strat!DetectStep
  <2>1. /\ todo # <<>> /\ todo' = Tail(todo)
        /\ \/ Head(todo) = "copy" /\ Strat!CopyConfig /\ UNCHANGED queued
           \/ /\ Head(todo) = "spatial" /\ Strat!Detect /\ UNCHANGED call
              /\ queued' = queued \cup {o.pair : o \in opps'}
           \/ Head(todo) # "copy" /\ UNCHANGED <<queued, Strat!spatialVars>>
    BY <1>7 DEF Strat!DetectStep, Strat!Next1
  <2>2. Planned(todo, call.cfg) /\ IsConfig(cfg) /\ queued \subseteq Pairs
    BY DEF PlanInv
  <2>3. CASE Head(todo) = "copy" /\ Strat!CopyConfig /\ UNCHANGED queued
    <3>1. UNCHANGED <<kelly, recent, returns, traded, cfg>> /\ call' = [call EXCEPT !.cfg = cfg]
      BY <2>3 DEF Strat!CopyConfig, Strat!estimates, Strat!history
    <3>2. call'.cfg = cfg
      <4>1. IsCall(call)
        BY <2>1 DEF SpreadInv
      <4> QED  BY <3>1, <4>1 DEF IsCall
    <3>3. Planned(todo', call'.cfg)
      BY <2>1, <2>2, <3>2, TailPlanned
    <3> QED  BY <1>1, <1>2, <2>2, <2>3, <3>1, <3>3 DEF PlanInv
  <2>4. CASE /\ Head(todo) = "spatial" /\ Strat!Detect /\ UNCHANGED call
             /\ queued' = queued \cup {o.pair : o \in opps'}
    <3>1. UNCHANGED <<kelly, recent, returns, traded, cfg>>
      BY <2>4 DEF Strat!Detect
    <3>2. Planned(todo', call'.cfg)
      <4>1. Planned(Tail(todo), call.cfg)
        BY <2>1, <2>2, <2>4, TailPlanned
      <4> QED  BY <2>1, <2>4, <4>1
    <3>3. \A o \in opps' : o.pair \in Pairs
      <4>1. call.exchange \in Exchanges
        BY <2>1 DEF SpreadInv, IsCall
      <4>2. SUFFICES ASSUME NEW o \in opps' PROVE o.pair \in Pairs
        OBVIOUS
      <4>3. PICK e \in Exchanges :
              /\ Strat!Detected(e)
              /\ o = [pair |-> <<call.exchange, e>>, volume |-> Strat!MaxVolume(<<call.exchange, e>>),
                      ask |-> Strat!Ask, position |-> call.cfg.position]
        BY <2>4 DEF Strat!Detect
      <4>4. e # call.exchange
        BY <4>3 DEF Strat!Detected, Strat!Fresh
      <4>5. o.pair = <<call.exchange, e>>
        BY <4>3
      <4> QED  BY <4>1, <4>4, <4>5 DEF Pairs
    <3> QED  BY <1>1, <1>2, <2>2, <2>4, <3>1, <3>2, <3>3 DEF PlanInv
  <2>5. CASE Head(todo) # "copy" /\ UNCHANGED <<queued, Strat!spatialVars>>
    <3>1. UNCHANGED <<kelly, recent, returns, traded, cfg, call>>
      BY <2>5 DEF Strat!spatialVars, Strat!estimates, Strat!history
    <3>2. Planned(todo', call'.cfg)
      <4>1. Planned(Tail(todo), call.cfg)
        BY <2>1, <2>2, <2>5, TailPlanned
      <4> QED  BY <2>1, <3>1, <4>1
    <3> QED  BY <1>1, <1>2, <2>2, <2>5, <3>1, <3>2 DEF PlanInv
  <2> QED  BY <2>1, <2>3, <2>4, <2>5
<1>8. CASE Strat!Trade
  <2>1. PICK p \in queued, x \in Returns : Strat!RecordTradeReturn(p, x)
    BY <1>8 DEF Strat!Trade
  <2>2. p \in Pairs /\ Len(traded) < MaxTrades
    BY <1>8 DEF PlanInv, Strat!Trade
  <2>3. EstimatesInv'
    BY <2>1, <2>2, TradeKeeps
  <2>4. UNCHANGED <<cfg, queued, todo, call>>
    BY <1>8, <2>1 DEF Strat!Trade, Strat!RecordTradeReturn, Strat!engineVars
  <2> QED  BY <1>1, <1>3, <2>3, <2>4
<1>9. CASE Strat!Setter
  <2>1. UNCHANGED <<kelly, recent, returns, traded, queued, todo, call>>
    BY <1>9 DEF Strat!Setter, Strat!Set, Strat!engineVars, Strat!estimates, Strat!history
  <2>2. IsConfig(cfg')
    BY <1>9, SpatialConstants DEF Strat!Setter, Strat!Set, PlanInv, IsConfig
  <2> QED  BY <1>1, <1>2, <2>1, <2>2 DEF PlanInv
<1>10. CASE Strat!Polling
  BY <1>1, <1>2, <1>3, <1>10
     DEF Strat!Polling, Strat!engineVars, Strat!spatialVars, Strat!estimates, Strat!history
<1> QED  BY <1>4, <1>5, <1>6, <1>7, <1>8, <1>9, <1>10 DEF Strat!Next

LEMMA SpreadsTrained ==
    ASSUME VolumeInv, [Strat!Next]_(Strat!vars), spreads' # spreads
    PROVE  todo # <<>> /\ Head(todo) = "spatial" /\ Strat!Detect
BY DEF Strat!Next, Strat!vars, Strat!Tick, Strat!ProcessUpdate, Strat!DetectStep, Strat!Next1,
       Strat!CopyConfig, Strat!Trade, Strat!RecordTradeReturn, Strat!Setter, Strat!Set,
       Strat!Polling, Strat!spatialVars, Strat!history

\* The volume that Detect advises is the one that follows from all trades so
\* far, for any trades and windows, where the divisions are exact: Kelly's
\* moments and the ring of trades miss none and count none twice
\* (spatial.go:172-194, kelly.go:27-63, correlation.go:30-54).
THEOREM VolumeTellsTradesHolds ==
    ASSUME Strat!ExactDivisions, MaxTrades \in Nat
    PROVE  Strat!Spec => VolumeTellsTrades
<1>1. VolumeInv /\ [Strat!Next]_(Strat!vars)
        => [spreads' # spreads => \A o \in opps' : AdvisedVolume(o)]_spatialVars
  BY SpreadsTrained, VolumeAdvised
<1> QED  BY <1>1, VolumeInvInit, VolumeInvNext, PTL DEF Strat!Spec, VolumeTellsTrades
=============================================================================

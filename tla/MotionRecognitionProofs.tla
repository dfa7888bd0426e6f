------------------------ MODULE MotionRecognitionProofs ------------------------
(***************************************************************************)
(* Theorems about MotionRecognition for every set of states, every start,  *)
(* transition and duration cost, any windows and a capture of any length.  *)
(***************************************************************************)
EXTENDS MotionRecognition, SequenceTheorems, WellFoundedInduction, TLAPS

(* A non-empty set of naturals has a least element.                        *)
LEMMA LeastNatural ==
    ASSUME NEW S \in SUBSET Nat, S # {}
    PROVE  \E t \in S : \A u \in S : t <= u
<1> DEFINE R == {ss \in Nat \X Nat : ss[1] < ss[2]}
<1>1. IsWellFoundedOn(R, Nat)
  BY NatLessThanWellFounded DEF OpToRel
<1>2. PICK t \in S : \A u \in S : ~(<<u, t>> \in R)
  <2> HIDE DEF R
  <2> QED BY <1>1, WFMin
<1>3. ASSUME NEW u \in S PROVE t <= u
  <2> SUFFICES ASSUME ~(t <= u) PROVE FALSE
    OBVIOUS
  <2>1. u \in Nat /\ t \in Nat /\ u < t
    OBVIOUS
  <2>2. <<u, t>> \in R
    BY <2>1
  <2> HIDE DEF R
  <2> QED BY <2>2, <1>2
<1> QED BY <1>3

(* A set of naturals with 0 and every successor has them all.              *)
LEMMA EveryNatural ==
    ASSUME NEW S \in SUBSET Nat, 0 \in S, \A n \in S : n + 1 \in S
    PROVE  S = Nat
<1> SUFFICES ASSUME Nat \ S # {} PROVE FALSE
  OBVIOUS
<1>1. PICK t \in Nat \ S : \A u \in Nat \ S : t <= u
  BY LeastNatural
<1>2. t # 0 /\ t - 1 \in Nat /\ ~(t <= t - 1)
  BY <1>1
<1>3. t - 1 \in S
  BY <1>1, <1>2
<1>4. (t - 1) + 1 \in S
  BY <1>3
<1>5. (t - 1) + 1 = t
  OBVIOUS
<1> QED BY <1>1, <1>4, <1>5

-----------------------------------------------------------------------------
(* Costs.                                                                  *)

(* Sums of costs are costs, and infinite when one of them is.              *)
LEMMA PlusType ==
    ASSUME NEW a \in Cost, NEW b \in Cost
    PROVE  /\ Plus(a, b) \in Cost /\ Plus(a, 0) = a /\ Plus(0, a) = a
           /\ Plus(a, b) # Infinite <=> a # Infinite /\ b # Infinite
           /\ Infinite \notin Nat
BY DEF Plus, Cost, Infinite

(* The order in which costs are added does not matter.                     *)
LEMMA PlusAssociative ==
    ASSUME NEW a \in Cost, NEW b \in Cost, NEW c \in Cost
    PROVE  /\ Plus(Plus(a, b), c) = Plus(a, Plus(b, c))
           /\ Plus(a, b) = Plus(b, a)
<1>1. CASE a = Infinite \/ b = Infinite \/ c = Infinite
  BY <1>1 DEF Plus, Cost, Infinite
<1>2. CASE a \in Nat /\ b \in Nat /\ c \in Nat
  <2>1. a + b # -1 /\ b + c # -1 /\ a # -1 /\ b # -1 /\ c # -1
    BY <1>2
  <2> QED BY <1>2, <2>1 DEF Plus, Infinite
<1> QED BY <1>1, <1>2 DEF Cost

(* What follows a dearer path makes it no cheaper.                         *)
LEMMA PlusMonotone ==
    ASSUME NEW a \in Nat, NEW b \in Nat, NEW c \in Cost, a <= b, Plus(b, c) # Infinite
    PROVE  Plus(a, c) \in Nat /\ Plus(b, c) \in Nat /\ Plus(a, c) <= Plus(b, c)
BY DEF Plus, Cost, Infinite

(* g holds the running totals of Total.                                    *)
Sums(g, cost, after, last) ==
    g = [i \in after .. last |-> IF i = after THEN 0 ELSE Plus(g[i - 1], cost[i])]

(* There are running totals for every interval.                            *)
LEMMA SumsExist ==
    ASSUME NEW cost, NEW after \in Nat, NEW n \in Nat
    PROVE  \E g : Sums(g, cost, after, after + n)
<1> DEFINE N == {k \in Nat : \E g : Sums(g, cost, after, after + k)}
<1>1. 0 \in N
  <2>1. Sums([i \in after .. after + 0 |-> 0], cost, after, after + 0)
    <3>1. \A i \in after .. after + 0 : i = after
      OBVIOUS
    <3> QED BY <3>1 DEF Sums
  <2> QED BY <2>1
<1>2. ASSUME NEW k \in N PROVE k + 1 \in N
  <2>1. PICK g : Sums(g, cost, after, after + k)
    OBVIOUS
  <2>2. /\ after + k \in after .. after + k /\ k \in Nat
        /\ \A i \in after .. after + (k + 1) : i # after + (k + 1) => i \in after .. after + k
        /\ \A i \in after .. after + k : i # after + (k + 1) /\ i \in after .. after + (k + 1)
        /\ \A i \in after .. after + k : i # after => i - 1 \in after .. after + k
        /\ (after + (k + 1)) - 1 = after + k /\ after + (k + 1) # after
        /\ after + (k + 1) \in after .. after + (k + 1)
    OBVIOUS
  <2> DEFINE new == Plus(g[after + k], cost[after + (k + 1)])
             h == [i \in after .. after + (k + 1) |-> IF i = after + (k + 1) THEN new ELSE g[i]]
  <2>3. \A i \in after .. after + k : h[i] = g[i]
    BY <2>2
  <2>4. \A i \in after .. after + (k + 1) :
          h[i] = IF i = after THEN 0 ELSE Plus(h[i - 1], cost[i])
    <3> TAKE i \in after .. after + (k + 1)
    <3>1. CASE i = after + (k + 1)
      <4>1. h[i] = new /\ h[i - 1] = g[after + k]
        BY <3>1, <2>2, <2>3
      <4> HIDE DEF h
      <4> QED BY <3>1, <4>1, <2>2
    <3>2. CASE i # after + (k + 1)
      <4>1. i \in after .. after + k
        BY <3>2, <2>2
      <4>2. g[i] = IF i = after THEN 0 ELSE Plus(g[i - 1], cost[i])
        BY <2>1, <4>1 DEF Sums
      <4>3. i # after => h[i - 1] = g[i - 1]
        BY <4>1, <2>2, <2>3
      <4>4. h[i] = g[i]
        BY <4>1, <2>3
      <4> HIDE DEF h
      <4> QED BY <4>2, <4>3, <4>4
    <3> QED BY <3>1, <3>2
  <2>5. h = [i \in after .. after + (k + 1) |-> h[i]]
    OBVIOUS
  <2> HIDE DEF h
  <2>6. Sums(h, cost, after, after + (k + 1))
    BY <2>4, <2>5 DEF Sums
  <2> QED BY <2>2, <2>6
<1>3. N \in SUBSET Nat
  OBVIOUS
<1> HIDE DEF N
<1>4. n \in N
  BY <1>1, <1>2, <1>3, EveryNatural
<1> QED BY <1>4 DEF N

(* Running totals of one start agree wherever both are defined.            *)
LEMMA SumsAgree ==
    ASSUME NEW cost, NEW after \in Nat, NEW p \in Nat, NEW q \in Nat, after <= p, p <= q,
           NEW g, Sums(g, cost, after, p), NEW h, Sums(h, cost, after, q)
    PROVE  g[p] = h[p]
<1> DEFINE N == {k \in Nat : after + k <= p => g[after + k] = h[after + k]}
<1>1. 0 \in N
  <2>1. after + 0 \in after .. p /\ after + 0 \in after .. q /\ after + 0 = after
    OBVIOUS
  <2>2. g[after + 0] = 0 /\ h[after + 0] = 0
    BY <2>1 DEF Sums
  <2> QED BY <2>2
<1>2. ASSUME NEW k \in N PROVE k + 1 \in N
  <2>1. SUFFICES ASSUME after + (k + 1) <= p PROVE g[after + (k + 1)] = h[after + (k + 1)]
    OBVIOUS
  <2>2. /\ after + (k + 1) \in after .. p /\ after + (k + 1) \in after .. q
        /\ after + (k + 1) # after /\ (after + (k + 1)) - 1 = after + k /\ after + k <= p
    BY <2>1
  <2>3. /\ g[after + (k + 1)] = Plus(g[after + k], cost[after + (k + 1)])
        /\ h[after + (k + 1)] = Plus(h[after + k], cost[after + (k + 1)])
    BY <2>2 DEF Sums
  <2> QED BY <2>2, <2>3
<1>3. N \in SUBSET Nat /\ p - after \in Nat /\ after + (p - after) = p
  OBVIOUS
<1> HIDE DEF N
<1>4. p - after \in N
  BY <1>1, <1>2, <1>3, EveryNatural
<1>5. after + (p - after) <= p => g[after + (p - after)] = h[after + (p - after)]
  BY <1>4 DEF N
<1> QED BY <1>3, <1>5

(* A total of nothing is 0, and a longer one adds one cost.                *)
LEMMA TotalStep ==
    ASSUME NEW cost, NEW after \in Nat, NEW n \in Nat
    PROVE  /\ Total(cost, after, after) = 0
           /\ Total(cost, after, after + (n + 1))
                = Plus(Total(cost, after, after + n), cost[after + (n + 1)])
<1> DEFINE G(k) == CHOOSE g : Sums(g, cost, after, after + k)
<1>1. ASSUME NEW k \in Nat PROVE Sums(G(k), cost, after, after + k)
  BY SumsExist
<1>2. ASSUME NEW k \in Nat PROVE Total(cost, after, after + k) = G(k)[after + k]
  BY DEF Total, Sums
<1> HIDE DEF G
<1>3. Total(cost, after, after) = 0
  <2>1. after + 0 = after /\ after \in after .. after
    OBVIOUS
  <2>2. G(0)[after] = 0
    BY <1>1, <2>1 DEF Sums
  <2> QED BY <1>2, <2>1, <2>2
<1>4. Total(cost, after, after + (n + 1))
        = Plus(Total(cost, after, after + n), cost[after + (n + 1)])
  <2>1. /\ after + (n + 1) \in after .. after + (n + 1) /\ n + 1 \in Nat /\ n <= n + 1
        /\ (after + (n + 1)) - 1 = after + n /\ after + (n + 1) # after
    OBVIOUS
  <2>2. G(n + 1)[after + (n + 1)] = Plus(G(n + 1)[after + n], cost[after + (n + 1)])
    BY <1>1, <2>1 DEF Sums
  <2>3. G(n)[after + n] = G(n + 1)[after + n]
    <3> DEFINE p == after + n
               q == after + (n + 1)
               g == G(n)
               h == G(n + 1)
    <3>1. Sums(g, cost, after, p) /\ Sums(h, cost, after, q)
      BY <1>1, <2>1
    <3>2. p \in Nat /\ q \in Nat /\ after <= p /\ p <= q
      BY <2>1
    <3> HIDE DEF p, q, g, h
    <3>3. g[p] = h[p]
      BY <3>1, <3>2, SumsAgree
    <3> QED BY <3>3 DEF p, g, h
  <2> QED BY <1>2, <2>1, <2>2, <2>3
<1> QED BY <1>3, <1>4

(* The same for a total that ends at a place.                              *)
LEMMA TotalNext ==
    ASSUME NEW cost, NEW after \in Nat, NEW last \in Nat, after <= last
    PROVE  Total(cost, after, last + 1) = Plus(Total(cost, after, last), cost[last + 1])
<1> DEFINE n == last - after
<1>1. n \in Nat /\ after + n = last /\ after + (n + 1) = last + 1
  OBVIOUS
<1> HIDE DEF n
<1>2. Total(cost, after, after + (n + 1))
        = Plus(Total(cost, after, after + n), cost[after + (n + 1)])
  BY <1>1, TotalStep
<1> QED BY <1>1, <1>2

(* Totals of costs are costs, infinite when a member is and only then.     *)
LEMMA TotalFinite ==
    ASSUME NEW cost, NEW after \in Nat, NEW n \in Nat,
           \A i \in after + 1 .. after + n : cost[i] \in Cost
    PROVE  /\ Total(cost, after, after + n) \in Cost
           /\ Total(cost, after, after + n) # Infinite
                <=> \A i \in after + 1 .. after + n : cost[i] # Infinite
<1> DEFINE T(k) == Total(cost, after, after + k)
           N == {k \in Nat : k <= n => /\ T(k) \in Cost
                                       /\ T(k) # Infinite <=>
                                            \A i \in after + 1 .. after + k :
                                                cost[i] # Infinite}
<1>1. 0 \in N
  <2>1. T(0) = 0 /\ 0 \in Cost /\ 0 # Infinite
    BY TotalStep DEF Cost, Infinite
  <2> QED BY <2>1
<1>2. ASSUME NEW k \in N PROVE k + 1 \in N
  <2>1. SUFFICES ASSUME k + 1 <= n
                 PROVE  /\ T(k + 1) \in Cost
                        /\ T(k + 1) # Infinite
                             <=> \A i \in after + 1 .. after + (k + 1) : cost[i] # Infinite
    OBVIOUS
  <2>2. /\ k \in Nat /\ k <= n /\ after + (k + 1) \in after + 1 .. after + n
        /\ after + (k + 1) \in after + 1 .. after + (k + 1)
        /\ \A i \in after + 1 .. after + (k + 1) :
             i = after + (k + 1) \/ i \in after + 1 .. after + k
        /\ \A i \in after + 1 .. after + k : i \in after + 1 .. after + (k + 1)
    BY <2>1
  <2>3. T(k + 1) = Plus(T(k), cost[after + (k + 1)])
    BY <2>2, TotalStep
  <2>4. /\ T(k) \in Cost /\ cost[after + (k + 1)] \in Cost
        /\ T(k) # Infinite <=> \A i \in after + 1 .. after + k : cost[i] # Infinite
    BY <2>2
  <2>5. /\ Plus(T(k), cost[after + (k + 1)]) \in Cost
        /\ Plus(T(k), cost[after + (k + 1)]) # Infinite
             <=> T(k) # Infinite /\ cost[after + (k + 1)] # Infinite
    BY <2>4, PlusType
  <2> HIDE DEF T
  <2> QED BY <2>2, <2>3, <2>4, <2>5
<1>3. N \in SUBSET Nat
  OBVIOUS
<1> HIDE DEF N
<1>4. n \in N
  BY <1>1, <1>2, <1>3, EveryNatural
<1> QED BY <1>4 DEF N

(* A total depends on the costs it adds only.                              *)
LEMMA TotalSame ==
    ASSUME NEW cost, NEW other, NEW after \in Nat, NEW n \in Nat,
           \A i \in after + 1 .. after + n : cost[i] = other[i]
    PROVE  Total(cost, after, after + n) = Total(other, after, after + n)
<1> DEFINE T(k) == Total(cost, after, after + k)
           O(k) == Total(other, after, after + k)
           N == {k \in Nat : k <= n => T(k) = O(k)}
<1>1. 0 \in N
  BY TotalStep
<1>2. ASSUME NEW k \in N PROVE k + 1 \in N
  <2>1. SUFFICES ASSUME k + 1 <= n PROVE T(k + 1) = O(k + 1)
    OBVIOUS
  <2>2. k \in Nat /\ k <= n /\ after + (k + 1) \in after + 1 .. after + n
    BY <2>1
  <2>3. /\ T(k + 1) = Plus(T(k), cost[after + (k + 1)])
        /\ O(k + 1) = Plus(O(k), other[after + (k + 1)])
    BY <2>2, TotalStep
  <2>4. T(k) = O(k) /\ cost[after + (k + 1)] = other[after + (k + 1)]
    BY <2>2
  <2> HIDE DEF T, O
  <2> QED BY <2>3, <2>4
<1>3. N \in SUBSET Nat
  OBVIOUS
<1> HIDE DEF N
<1>4. n \in N
  BY <1>1, <1>2, <1>3, EveryNatural
<1> QED BY <1>4 DEF N

(* A total is the total up to a place and the total from there.            *)
LEMMA TotalSplit ==
    ASSUME NEW cost, NEW k \in Nat, NEW n \in Nat,
           \A i \in 1 .. k + n : cost[i] \in Cost
    PROVE  Total(cost, 0, k + n) = Plus(Total(cost, 0, k), Total(cost, k, k + n))
<1> DEFINE T(m) == Total(cost, 0, k + m)
           O(m) == Total(cost, k, k + m)
           N == {m \in Nat : m <= n => T(m) = Plus(T(0), O(m))}
<1>0. ASSUME NEW m \in Nat, m <= n PROVE T(m) \in Cost /\ O(m) \in Cost
  <2>1. k + m = 0 + (k + m) /\ k + m \in Nat
    OBVIOUS
  <2>2. \A i \in 0 + 1 .. 0 + (k + m) : cost[i] \in Cost
    BY <1>0
  <2>3. Total(cost, 0, 0 + (k + m)) \in Cost
    BY <2>1, <2>2, TotalFinite
  <2>4. \A i \in k + 1 .. k + m : cost[i] \in Cost
    BY <1>0
  <2>5. Total(cost, k, k + m) \in Cost
    BY <2>4, TotalFinite
  <2> QED BY <2>1, <2>3, <2>5
<1>1. 0 \in N
  <2>1. O(0) = 0
    BY TotalStep
  <2>2. T(0) \in Cost
    BY <1>0
  <2> HIDE DEF T, O
  <2> QED BY <2>1, <2>2, PlusType
<1>2. ASSUME NEW m \in N PROVE m + 1 \in N
  <2>1. SUFFICES ASSUME m + 1 <= n PROVE T(m + 1) = Plus(T(0), O(m + 1))
    OBVIOUS
  <2> DEFINE c == cost[k + (m + 1)]
  <2>2. m \in Nat /\ m <= n /\ 0 <= n /\ 0 \in Nat /\ k + (m + 1) \in 1 .. k + n
    BY <2>1
  <2>3. T(m + 1) = Plus(T(m), c)
    <3>1. k + (m + 1) = (k + m) + 1 /\ k + m \in Nat /\ 0 <= k + m /\ 0 \in Nat
      BY <2>2
    <3>2. Total(cost, 0, (k + m) + 1) = Plus(Total(cost, 0, k + m), cost[(k + m) + 1])
      BY <3>1, TotalNext
    <3> QED BY <3>1, <3>2
  <2>4. O(m + 1) = Plus(O(m), c)
    BY <2>2, TotalStep
  <2>5. T(0) \in Cost /\ O(m) \in Cost /\ c \in Cost /\ T(m) = Plus(T(0), O(m))
    BY <1>0, <2>2
  <2> HIDE DEF T, O, c
  <2>6. Plus(Plus(T(0), O(m)), c) = Plus(T(0), Plus(O(m), c))
    BY <2>5, PlusAssociative
  <2> QED BY <2>3, <2>4, <2>5, <2>6
<1>3. N \in SUBSET Nat
  OBVIOUS
<1> HIDE DEF N
<1>4. n \in N
  BY <1>1, <1>2, <1>3, EveryNatural
<1>5. k + 0 = k
  OBVIOUS
<1> QED BY <1>4, <1>5 DEF N

-----------------------------------------------------------------------------
(* The two cheapest of a set of paths.                                     *)

EntrySet == [cost : Nat, start : Nat, previous : Nat, rank : Nat]

(* The paths of a set that start no later than B.                          *)
Bounded(S, B) == S \subseteq EntrySet /\ \A e \in S : e.start <= B

(* A set of paths has a foremost one, and none is cheaper.                 *)
LEMMA ForemostIsCheapest ==
    ASSUME NEW S, NEW B \in Nat, Bounded(S, B), S # {}
    PROVE  Foremost(S) \in S /\ \A f \in S : Foremost(S).cost <= f.cost
<1>0. \A e \in S : /\ e.cost \in Nat /\ e.start \in Nat /\ e.previous \in Nat /\ e.rank \in Nat
                   /\ B - e.start \in Nat
  BY DEF Bounded, EntrySet
<1>1. PICK a \in S : \A f \in S : a.cost <= f.cost
  <2> DEFINE K == {e.cost : e \in S}
  <2>1. K \in SUBSET Nat /\ K # {}
    BY <1>0
  <2> HIDE DEF K
  <2>2. PICK t \in K : \A u \in K : t <= u
    BY <2>1, LeastNatural
  <2> QED BY <2>2 DEF K
<1> DEFINE S1 == {e \in S : e.cost = a.cost}
<1>2. PICK b \in S1 : \A f \in S1 : f.start <= b.start
  <2> DEFINE K == {B - e.start : e \in S1}
  <2>1. K \in SUBSET Nat /\ K # {}
    BY <1>0
  <2>2. \A e \in S1 : B - e.start \in K
    OBVIOUS
  <2>3. \A k \in K : \E e \in S1 : k = B - e.start
    OBVIOUS
  <2> HIDE DEF K
  <2>4. PICK t \in K : \A u \in K : t <= u
    BY <2>1, LeastNatural
  <2>5. PICK e \in S1 : t = B - e.start
    BY <2>3
  <2>6. \A f \in S1 : f.start \in Nat /\ e.start \in Nat /\ B - e.start <= B - f.start
    BY <1>0, <2>2, <2>4, <2>5
  <2>7. \A f \in S1 : f.start <= e.start
    BY <2>6
  <2> QED BY <2>5, <2>7
<1> DEFINE S2 == {e \in S1 : e.start = b.start}
<1>3. PICK c \in S2 : \A f \in S2 : c.previous <= f.previous
  <2> DEFINE K == {e.previous : e \in S2}
  <2>1. K \in SUBSET Nat /\ K # {}
    BY <1>0
  <2> HIDE DEF K
  <2>2. PICK t \in K : \A u \in K : t <= u
    BY <2>1, LeastNatural
  <2> QED BY <2>2 DEF K
<1> DEFINE S3 == {e \in S2 : e.previous = c.previous}
<1>4. PICK d \in S3 : \A f \in S3 : d.rank <= f.rank
  <2> DEFINE K == {e.rank : e \in S3}
  <2>1. K \in SUBSET Nat /\ K # {}
    BY <1>0
  <2> HIDE DEF K
  <2>2. PICK t \in K : \A u \in K : t <= u
    BY <2>1, LeastNatural
  <2> QED BY <2>2 DEF K
<1>5. d \in S /\ d.cost = a.cost /\ d.start = b.start /\ d.previous = c.previous
  OBVIOUS
<1>6. ASSUME NEW f \in S PROVE ~Before(f, d)
  <2>1. SUFFICES ASSUME Before(f, d) PROVE FALSE
    OBVIOUS
  <2>2. /\ a.cost <= f.cost /\ f.cost \in Nat /\ a.cost \in Nat
        /\ f.start \in Nat /\ b.start \in Nat /\ f.previous \in Nat /\ c.previous \in Nat
        /\ f.rank \in Nat /\ d.rank \in Nat
    BY <1>0, <1>1, <1>5
  <2>3. f.cost = d.cost /\ ~(f.cost < d.cost)
    BY <1>5, <2>1, <2>2 DEF Before
  <2>4. f \in S1 /\ f.start <= b.start
    BY <1>2, <1>5, <2>3
  <2>5. f.start = d.start /\ ~(f.start > d.start)
    BY <1>5, <2>1, <2>2, <2>3, <2>4 DEF Before
  <2>6. f \in S2 /\ c.previous <= f.previous
    BY <1>3, <1>5, <2>4, <2>5
  <2>7. f.previous = d.previous /\ ~(f.previous < d.previous)
    BY <1>5, <2>1, <2>2, <2>3, <2>5, <2>6 DEF Before
  <2>8. f \in S3 /\ d.rank <= f.rank
    BY <1>4, <1>5, <2>6, <2>7
  <2> QED BY <2>1, <2>2, <2>3, <2>5, <2>7, <2>8 DEF Before
<1>7. Foremost(S) \in S /\ \A f \in S : ~Before(f, Foremost(S))
  BY <1>5, <1>6 DEF Foremost
<1>8. ASSUME NEW f \in S PROVE Foremost(S).cost <= f.cost
  <2>1. ~(f.cost < Foremost(S).cost)
    BY <1>7 DEF Before
  <2>2. f.cost \in Nat /\ Foremost(S).cost \in Nat
    BY <1>0, <1>7
  <2> QED BY <2>1, <2>2
<1> QED BY <1>7, <1>8

(* What a retained sequence of a set of paths has to be.                   *)
Retains(t, S) ==
    /\ t \in Seq(EntrySet)
    /\ DOMAIN t \in {{}, {1}, {1, 2}}
    /\ \A r \in DOMAIN t : t[r] \in S
    /\ \A q, r \in DOMAIN t : q # r => t[q] # t[r]
    /\ S # {} => 1 \in DOMAIN t /\ \A f \in S : t[1].cost <= f.cost
    /\ \A f \in S : f # t[1] => 2 \in DOMAIN t /\ t[2].cost <= f.cost

(* TopTwo keeps the cheapest path and the cheapest of the others.          *)
LEMMA TopTwoRetains ==
    ASSUME NEW S, NEW B \in Nat, Bounded(S, B)
    PROVE  Retains(TopTwo(S), S)
<1>1. CASE S = {}
  <2>1. TopTwo(S) = << >>
    BY <1>1 DEF TopTwo
  <2>2. << >> \in Seq(EntrySet) /\ DOMAIN << >> = {}
    BY EmptySeq
  <2> QED BY <1>1, <2>1, <2>2 DEF Retains
<1>2. CASE S # {} /\ S = {Foremost(S)}
  <2> DEFINE e == Foremost(S)
  <2>1. TopTwo(S) = <<e>>
    BY <1>2 DEF TopTwo
  <2>2. e \in S /\ \A f \in S : e.cost <= f.cost
    BY <1>2, ForemostIsCheapest
  <2>3. e \in EntrySet
    BY <2>2 DEF Bounded
  <2>4. S = {e}
    BY <1>2
  <2> HIDE DEF e
  <2>5. <<e>> \in Seq(EntrySet) /\ DOMAIN <<e>> = {1} /\ <<e>>[1] = e
    BY <2>3
  <2> QED BY <2>1, <2>2, <2>4, <2>5 DEF Retains
<1>3. CASE S # {} /\ S # {Foremost(S)}
  <2> DEFINE e == Foremost(S)
             g == Foremost(S \ {e})
  <2>1. TopTwo(S) = <<e, g>>
    BY <1>3 DEF TopTwo
  <2>2. e \in S /\ \A f \in S : e.cost <= f.cost
    BY <1>3, ForemostIsCheapest
  <2>3. S \ {e} # {} /\ Bounded(S \ {e}, B)
    BY <1>3, <2>2 DEF Bounded
  <2>4. g \in S \ {e} /\ \A f \in S \ {e} : g.cost <= f.cost
    BY <2>3, ForemostIsCheapest
  <2>5. e \in EntrySet /\ g \in EntrySet
    BY <2>2, <2>4 DEF Bounded
  <2> HIDE DEF e, g
  <2>6. <<e, g>> \in Seq(EntrySet) /\ DOMAIN <<e, g>> = {1, 2} /\ <<e, g>>[1] = e /\ <<e, g>>[2] = g
    BY <2>5
  <2> QED BY <2>1, <2>2, <2>4, <2>6 DEF Retains
<1> QED BY <1>1, <1>2, <1>3

(* Two paths of a set that cost at most c: so do the two retained.         *)
LEMMA TwoRetained ==
    ASSUME NEW S, NEW t, Retains(t, S), S \subseteq EntrySet, NEW c \in Nat,
           NEW a \in S, NEW b \in S, a # b, a.cost <= c, b.cost <= c
    PROVE  /\ 1 \in DOMAIN t /\ 2 \in DOMAIN t
           /\ t[1].cost <= c /\ t[2].cost <= c
<1>1. \A e \in S : e.cost \in Nat
  BY DEF EntrySet
<1>2. 1 \in DOMAIN t /\ t[1].cost <= a.cost /\ t[1] \in S
  BY DEF Retains
<1>3. PICK f \in {a, b} : f # t[1]
  OBVIOUS
<1>4. 2 \in DOMAIN t /\ t[2].cost <= f.cost
  BY <1>3 DEF Retains
<1>5. t[2] \in S
  BY <1>4 DEF Retains
<1>6. t[1].cost \in Nat /\ t[2].cost \in Nat /\ a.cost \in Nat /\ f.cost \in Nat /\ f.cost <= c
  BY <1>1, <1>2, <1>3, <1>5
<1> QED BY <1>2, <1>4, <1>6

-----------------------------------------------------------------------------
(* The types of the state and of the decoder's operators.                  *)

Sample == [seq : Nat, t : Nat, ok : BOOLEAN]

TypeOK ==
    /\ pc \in {"observe", "decode", "done"} /\ now \in Nat
    /\ samples \in Seq(Sample)
    /\ frames \in Seq(BOOLEAN) /\ Len(frames) = now
    /\ emissions \in Seq([StateSet -> Cost]) /\ Len(emissions) = now
    /\ entries \in Seq([StateSet -> Seq(EntrySet)]) /\ Len(entries) <= now

(* A dwell that has a finite cost lasts at least its minimum.              *)
LEMMA DwellType ==
    ASSUME NEW s \in StateSet, NEW n \in Nat
    PROVE  /\ Dwell(s, n) \in Cost /\ Start[s] \in Cost /\ Minimum[s] \in Nat
           /\ Dwell(s, n) # Infinite => n >= Minimum[s]
<1>1. /\ Minimum[s] \in Nat /\ Maximum[s] \in Nat /\ Start[s] \in Cost
      /\ \A m \in Minimum[s] .. Maximum[s] : Deviation[s][m] \in Nat
  BY RecognizerAssumption
<1>2. Dwell(s, n) = IF n < Minimum[s] \/ n > Maximum[s] THEN Infinite ELSE Deviation[s][n]
  BY DEF Dwell
<1>3. CASE n < Minimum[s] \/ n > Maximum[s]
  <2>1. Dwell(s, n) = Infinite
    BY <1>2, <1>3
  <2> QED BY <1>1, <2>1 DEF Cost
<1>4. CASE ~(n < Minimum[s] \/ n > Maximum[s])
  <2>1. n \in Minimum[s] .. Maximum[s] /\ n >= Minimum[s]
    BY <1>1, <1>4
  <2>2. Dwell(s, n) \in Nat
    BY <1>1, <1>2, <1>4, <2>1
  <2> QED BY <1>1, <2>1, <2>2 DEF Cost
<1> QED BY <1>3, <1>4

(* A transition costs a natural number or is not allowed.                  *)
LEMMA TransitionType ==
    ASSUME NEW a, NEW b
    PROVE  TransitionCost(a, b) \in Cost
BY RecognizerAssumption DEF TransitionCost, Cost

(* The emission of a state in a frame.                                     *)
LEMMA EmissionType ==
    ASSUME TypeOK, NEW i \in 1 .. now
    PROVE  emissions[i] \in [StateSet -> Cost] /\ \A s \in StateSet : emissions[i][s] \in Cost
<1>1. emissions \in Seq([StateSet -> Cost]) /\ i \in 1 .. Len(emissions)
  BY DEF TypeOK
<1>2. emissions[i] \in [StateSet -> Cost]
  BY <1>1, ElementOfSeq
<1> QED BY <1>2

(* A segment is feasible when its dwell is and every frame allows its state.*)
LEMMA SegmentType ==
    ASSUME TypeOK, NEW s \in StateSet, NEW start \in Nat, NEW end \in 1 .. now, start < end
    PROVE  /\ SegmentCost(s, start, end) \in Cost
           /\ Total([i \in 1 .. now |-> emissions[i][s]], start, end) \in Cost
           /\ end - start \in Nat /\ Dwell(s, end - start) \in Cost
<1> DEFINE c == [i \in 1 .. now |-> emissions[i][s]]
           n == end - start
<1>0. now \in Nat
  BY DEF TypeOK
<1>1. n \in Nat /\ start + n = end /\ \A i \in start + 1 .. end : i \in 1 .. now
  BY <1>0
<1>2. \A i \in start + 1 .. end : c[i] \in Cost
  BY <1>1, EmissionType
<1>3. Dwell(s, n) \in Cost
  BY <1>1, DwellType
<1>4. SegmentCost(s, start, end) = Plus(Dwell(s, n), Total(c, start, end))
  BY DEF SegmentCost
<1> HIDE DEF c, n
<1>5. Total(c, start, start + n) \in Cost
  BY <1>1, <1>2, TotalFinite
<1>6. Plus(Dwell(s, n), Total(c, start, end)) \in Cost
  BY <1>1, <1>3, <1>5, PlusType
<1> QED BY <1>1, <1>3, <1>4, <1>5, <1>6 DEF c, n

(* A retained path of an earlier frame.                                    *)
LEMMA EntryType ==
    ASSUME TypeOK, NEW end \in 1 .. Len(entries), NEW s \in StateSet
    PROVE  /\ entries[end] \in [StateSet -> Seq(EntrySet)] /\ end \in 1 .. now
           /\ entries[end][s] \in Seq(EntrySet)
           /\ \A r \in DOMAIN entries[end][s] : entries[end][s][r] \in EntrySet /\ r \in Nat
<1>1. entries \in Seq([StateSet -> Seq(EntrySet)]) /\ Len(entries) <= now /\ now \in Nat
      /\ Len(entries) \in Nat
  BY DEF TypeOK
<1>2. entries[end] \in [StateSet -> Seq(EntrySet)]
  BY <1>1, ElementOfSeq
<1> DEFINE q == entries[end][s]
<1>3. q \in Seq(EntrySet)
  BY <1>2
<1> HIDE DEF q
<1>4. \A r \in DOMAIN q : q[r] \in EntrySet /\ r \in Nat
  <2>1. DOMAIN q = 1 .. Len(q) /\ Len(q) \in Nat
    BY <1>3, LenProperties
  <2> QED BY <1>3, <2>1, ElementOfSeq
<1>5. end \in 1 .. now
  BY <1>1
<1> QED BY <1>2, <1>3, <1>4, <1>5 DEF q

(* States are named by their places, no two alike.                         *)
LEMMA PlacesNameStates ==
    /\ \A p \in DOMAIN States : States[p] \in StateSet /\ p \in Nat
    /\ \A s \in StateSet : \E p \in DOMAIN States : States[p] = s
    /\ \A p, q \in DOMAIN States : States[p] = States[q] => p = q
BY RecognizerAssumption DEF StateSet

(* p, r name a retained path that ended in another state at frame start.   *)
Retained(s, start, p, r) ==
    /\ p \in DOMAIN States /\ States[p] # s
    /\ r \in DOMAIN entries[start][States[p]]

(* A candidate is a first dwell or it continues a retained path.           *)
LEMMA CandidateForm ==
    ASSUME NEW s, NEW end, NEW e
    PROVE  e \in Candidates(s, end) <=>
             /\ e.cost # Infinite
             /\ \/ e = First(s, end)
                \/ \E start \in 1 .. end - 1 : \E p, r :
                     Retained(s, start, p, r) /\ e = Continued(s, end, start, p, r)
<1> DEFINE R(start, p) == {Continued(s, end, start, p, r) : r \in DOMAIN entries[start][States[p]]}
           P == {q \in DOMAIN States : States[q] # s}
           U == UNION {R(start, p) : start \in 1 .. end - 1, p \in P}
<1>1. Candidates(s, end) = {f \in {First(s, end)} \cup U : f.cost # Infinite}
  BY DEF Candidates
<1>2. e \in U <=> \E start \in 1 .. end - 1 : \E p \in P : e \in R(start, p)
  <2> HIDE DEF R, P
  <2> QED OBVIOUS
<1>3. ASSUME NEW start, NEW p
      PROVE  p \in P /\ e \in R(start, p)
               <=> \E r : Retained(s, start, p, r) /\ e = Continued(s, end, start, p, r)
  BY DEF Retained
<1> HIDE DEF R, P, U
<1>4. e \in U <=> \E start \in 1 .. end - 1 : \E p, r :
                     Retained(s, start, p, r) /\ e = Continued(s, end, start, p, r)
  BY <1>2, <1>3
<1> QED BY <1>1, <1>4

(* Candidates of a frame are paths that start before it.                   *)
LEMMA CandidateType ==
    ASSUME TypeOK, NEW s \in StateSet, NEW end \in 1 .. now, end <= Len(entries) + 1
    PROVE  /\ Candidates(s, end) \subseteq EntrySet
           /\ \A e \in Candidates(s, end) : e.start < end
<1>0. now \in Nat /\ Len(entries) \in Nat /\ end \in Nat /\ 0 < end
  BY DEF TypeOK
<1>1. ASSUME NEW e \in Candidates(s, end), e = First(s, end)
      PROVE  e \in EntrySet /\ e.start < end
  <2>1. Plus(Start[s], SegmentCost(s, 0, end)) \in Cost
    <3>1. Start[s] \in Cost
      BY RecognizerAssumption
    <3>2. SegmentCost(s, 0, end) \in Cost
      BY <1>0, SegmentType
    <3> QED BY <3>1, <3>2, PlusType
  <2>2. e.cost = Plus(Start[s], SegmentCost(s, 0, end)) /\ e.cost # Infinite
    BY <1>1, CandidateForm DEF First, Entry
  <2>3. e.cost \in Nat
    BY <2>1, <2>2 DEF Cost
  <2>4. e = [cost |-> e.cost, start |-> 0, previous |-> 0, rank |-> 0]
    BY <1>1 DEF First, Entry
  <2> QED BY <1>0, <2>3, <2>4 DEF EntrySet
<1>2. ASSUME NEW e \in Candidates(s, end), NEW start \in 1 .. end - 1, NEW p, NEW r,
             Retained(s, start, p, r), e = Continued(s, end, start, p, r)
      PROVE  e \in EntrySet /\ e.start < end
  <2>1. start \in 1 .. Len(entries) /\ start \in Nat /\ start < end
    BY <1>0
  <2>2. States[p] \in StateSet /\ p \in Nat /\ r \in DOMAIN entries[start][States[p]]
    BY <1>2, PlacesNameStates DEF Retained
  <2>3. entries[start][States[p]][r] \in EntrySet /\ r \in Nat
    BY <2>1, <2>2, EntryType
  <2>4. entries[start][States[p]][r].cost \in Cost
    BY <2>3 DEF EntrySet, Cost
  <2>5. SegmentCost(s, start, end) \in Cost /\ TransitionCost(States[p], s) \in Cost
    BY <2>1, SegmentType, TransitionType
  <2> DEFINE a == entries[start][States[p]][r].cost
             b == TransitionCost(States[p], s)
             c == SegmentCost(s, start, end)
  <2>6. e = [cost |-> Plus(Plus(a, b), c), start |-> start, previous |-> p, rank |-> r]
    BY <1>2 DEF Continued, Entry
  <2>7. e.cost # Infinite
    BY CandidateForm
  <2>8. a \in Cost /\ b \in Cost /\ c \in Cost
    BY <2>4, <2>5
  <2> HIDE DEF a, b, c
  <2>9. Plus(Plus(a, b), c) \in Cost
    BY <2>8, PlusType
  <2>10. e.cost \in Nat
    BY <2>6, <2>7, <2>9 DEF Cost
  <2> QED BY <2>1, <2>2, <2>3, <2>6, <2>10 DEF EntrySet
<1> QED BY <1>1, <1>2, CandidateForm

(* The column of a frame retains two candidates of each state.             *)
LEMMA ColumnRetains ==
    ASSUME TypeOK, NEW end \in 1 .. now, end <= Len(entries) + 1
    PROVE  /\ Column(end) \in [StateSet -> Seq(EntrySet)]
           /\ \A s \in StateSet : Retains(Column(end)[s], Candidates(s, end))
<1>1. ASSUME NEW s \in StateSet PROVE Retains(TopTwo(Candidates(s, end)), Candidates(s, end))
  <2>1. Bounded(Candidates(s, end), end)
    <3>1. now \in Nat /\ end \in Nat
      BY DEF TypeOK
    <3>2. Candidates(s, end) \subseteq EntrySet /\ \A e \in Candidates(s, end) : e.start < end
      BY CandidateType
    <3>3. \A e \in Candidates(s, end) : e.start \in Nat
      BY <3>2 DEF EntrySet
    <3> QED BY <3>1, <3>2, <3>3 DEF Bounded
  <2>2. end \in Nat
    BY DEF TypeOK
  <2> QED BY <2>1, <2>2, TopTwoRetains
<1> QED BY <1>1 DEF Column, Retains

-----------------------------------------------------------------------------
(* The cost of a path.                                                     *)

(* The run of a state that ends, or goes on, at a frame starts somewhere.  *)
LEMMA RunStartIs ==
    ASSUME NEW path, NEW end \in Nat \ {0}
    PROVE  /\ RunStart(path, end) \in 0 .. end - 1
           /\ \A i \in RunStart(path, end) + 1 .. end : path[i] = path[end]
           /\ RunStart(path, end) = 0 \/ path[RunStart(path, end)] # path[end]
<1> DEFINE K == {k \in Nat : k < end /\ \A i \in k + 1 .. end : path[i] = path[end]}
<1>1. end - 1 \in K
  <2>1. end - 1 \in Nat /\ end - 1 < end /\ \A i \in (end - 1) + 1 .. end : i = end
    OBVIOUS
  <2> QED BY <2>1
<1>2. PICK k \in K : \A u \in K : k <= u
  <2>1. K \in SUBSET Nat /\ K # {}
    BY <1>1
  <2> HIDE DEF K
  <2> QED BY <2>1, LeastNatural
<1>3. k \in 0 .. end - 1 /\ \A i \in k + 1 .. end : path[i] = path[end]
  OBVIOUS
<1>4. ASSUME k # 0 PROVE path[k] # path[end]
  <2>1. SUFFICES ASSUME path[k] = path[end] PROVE FALSE
    OBVIOUS
  <2>2. k - 1 \in Nat /\ k - 1 < end /\ \A i \in (k - 1) + 1 .. end : i = k \/ i \in k + 1 .. end
    BY <1>3, <1>4
  <2>3. k - 1 \in K
    BY <1>3, <2>1, <2>2
  <2>4. k <= k - 1
    BY <1>2, <2>3
  <2> QED BY <2>4, <2>2, <1>3
<1> HIDE DEF K
<1>5. \E start \in 0 .. end - 1 : /\ \A i \in start + 1 .. end : path[i] = path[end]
                                  /\ start = 0 \/ path[start] # path[end]
  BY <1>3, <1>4
<1> QED BY <1>5 DEF RunStart

(* No other place is the start of that run.                                *)
LEMMA RunStartOnly ==
    ASSUME NEW path, NEW end \in Nat \ {0}, NEW k \in Nat, k < end,
           \A i \in k + 1 .. end : path[i] = path[end],
           k = 0 \/ path[k] # path[end]
    PROVE  RunStart(path, end) = k
<1> DEFINE j == RunStart(path, end)
<1>1. /\ j \in 0 .. end - 1 /\ \A i \in j + 1 .. end : path[i] = path[end]
      /\ j = 0 \/ path[j] # path[end]
  BY RunStartIs
<1> HIDE DEF j
<1>2. ~(k < j)
  <2>1. SUFFICES ASSUME k < j PROVE FALSE
    OBVIOUS
  <2>2. j \in k + 1 .. end /\ j # 0
    BY <1>1, <2>1
  <2> QED BY <1>1, <2>2
<1>3. ~(j < k)
  <2>1. SUFFICES ASSUME j < k PROVE FALSE
    OBVIOUS
  <2>2. k \in j + 1 .. end /\ k # 0
    BY <1>1, <2>1
  <2> QED BY <1>1, <2>2
<1>4. j = k
  BY <1>1, <1>2, <1>3
<1> QED BY <1>4 DEF j

(* Paths alike up to a frame have the same runs there.                     *)
LEMMA RunStartSame ==
    ASSUME NEW path, NEW other, NEW end \in Nat \ {0}, \A i \in 1 .. end : path[i] = other[i]
    PROVE  RunStart(path, end) = RunStart(other, end) /\ RunCost(path, end) = RunCost(other, end)
<1> DEFINE k == RunStart(other, end)
<1>1. /\ k \in 0 .. end - 1 /\ \A i \in k + 1 .. end : other[i] = other[end]
      /\ k = 0 \/ other[k] # other[end]
  BY RunStartIs
<1> HIDE DEF k
<1>2. k \in Nat /\ k < end /\ end \in 1 .. end /\ \A i \in k + 1 .. end : i \in 1 .. end
  BY <1>1
<1>3. k # 0 => k \in 1 .. end
  BY <1>1
<1>4. /\ \A i \in k + 1 .. end : path[i] = path[end]
      /\ k = 0 \/ path[k] # path[end]
      /\ path[end] = other[end]
  BY <1>1, <1>2, <1>3
<1>5. RunStart(path, end) = k
  BY <1>2, <1>4, RunStartOnly
<1>6. k # 0 => path[k] = other[k]
  BY <1>3
<1> QED BY <1>4, <1>5, <1>6 DEF RunCost, k

(* What PathCost adds for a frame of the first n.                          *)
FrameCosts(path, n) ==
    [i \in 1 .. n |-> Plus(emissions[i][path[i]],
                           IF i = n \/ path[i + 1] # path[i] THEN RunCost(path, i) ELSE 0)]

(* The states of the first n frames are states of the model.               *)
OfStates(path, n) == \A i \in 1 .. n : path[i] \in StateSet

(* What a run and a frame add to a path's cost are costs.                  *)
LEMMA FrameCostType ==
    ASSUME TypeOK, NEW n \in Nat, n <= now, NEW path, OfStates(path, n), NEW i \in 1 .. n
    PROVE  /\ RunCost(path, i) \in Cost /\ FrameCosts(path, n)[i] \in Cost
           /\ emissions[i][path[i]] \in Cost
           /\ FrameCosts(path, n)[i] # Infinite => emissions[i][path[i]] # Infinite
           /\ FrameCosts(path, n)[i] # Infinite /\ (i = n \/ path[i + 1] # path[i])
                => i - RunStart(path, i) >= Minimum[path[i]]
<1> DEFINE k == RunStart(path, i)
           s == path[i]
<1>0. now \in Nat /\ i \in Nat \ {0} /\ i \in 1 .. now
  BY DEF TypeOK
<1>1. k \in 0 .. i - 1
  BY <1>0, RunStartIs
<1>2. s \in StateSet /\ i - k \in Nat
  BY <1>0, <1>1 DEF OfStates
<1> DEFINE a == IF k = 0 THEN Start[s] ELSE TransitionCost(path[k], s)
           d == Dwell(s, i - k)
           m == emissions[i][s]
           run == IF i = n \/ path[i + 1] # path[i] THEN RunCost(path, i) ELSE 0
<1>3. a \in Cost /\ d \in Cost /\ (d # Infinite => i - k >= Minimum[s])
  BY <1>2, DwellType, TransitionType
<1>4. RunCost(path, i) = Plus(a, d)
  BY DEF RunCost
<1>5. Plus(a, d) \in Cost /\ (Plus(a, d) # Infinite => d # Infinite)
  <2> HIDE DEF a, d
  <2> QED BY <1>3, PlusType
<1>6. m \in Cost
  BY <1>0, <1>2, EmissionType
<1>7. 0 \in Cost
  BY DEF Cost
<1>8. run \in Cost
  BY <1>4, <1>5, <1>7
<1>9. FrameCosts(path, n)[i] = Plus(m, run)
  BY DEF FrameCosts
<1>10. (i = n \/ path[i + 1] # path[i]) => run = RunCost(path, i)
  OBVIOUS
<1> HIDE DEF run, m, a, d, k
<1>11. Plus(m, run) \in Cost /\ (Plus(m, run) # Infinite => m # Infinite /\ run # Infinite)
  BY <1>6, <1>8, PlusType
<1>12. RunCost(path, i) \in Cost
  BY <1>4, <1>5
<1>13. ASSUME FrameCosts(path, n)[i] # Infinite, i = n \/ path[i + 1] # path[i]
       PROVE  i - k >= Minimum[s]
  BY <1>13, <1>3, <1>4, <1>5, <1>9, <1>10, <1>11
<1> QED BY <1>6, <1>9, <1>11, <1>12, <1>13 DEF k, m

(* A path's cost is a cost; if finite, every frame of the path is allowed  *)
(* and every run of it lasts its minimum.                                  *)
LEMMA PathCostType ==
    ASSUME TypeOK, NEW n \in Nat, n <= now, NEW path, OfStates(path, n)
    PROVE  /\ PathCost(path, n) \in Cost /\ PathCost(path, n) = Total(FrameCosts(path, n), 0, n)
           /\ PathCost(path, n) # Infinite =>
                \A i \in 1 .. n :
                  /\ emissions[i][path[i]] # Infinite
                  /\ i = n \/ path[i + 1] # path[i]
                       => i - RunStart(path, i) >= Minimum[path[i]]
<1> DEFINE c == FrameCosts(path, n)
<1>1. PathCost(path, n) = Total(c, 0, n)
  BY DEF PathCost, FrameCosts
<1>2. \A i \in 1 .. n : c[i] \in Cost
  BY FrameCostType
<1> HIDE DEF c
<1>3. 0 + n = n /\ 0 + 1 = 1 /\ 0 \in Nat
  OBVIOUS
<1>4. /\ Total(c, 0, n) \in Cost
      /\ Total(c, 0, n) # Infinite <=> \A i \in 1 .. n : c[i] # Infinite
  <2> DEFINE z == 0
  <2>1. z \in Nat /\ z + n = n /\ z + 1 = 1
    OBVIOUS
  <2>2. \A i \in z + 1 .. z + n : c[i] \in Cost
    BY <1>2, <2>1
  <2> HIDE DEF z
  <2>3. /\ Total(c, z, z + n) \in Cost
        /\ Total(c, z, z + n) # Infinite <=> \A i \in z + 1 .. z + n : c[i] # Infinite
    BY <2>1, <2>2, TotalFinite
  <2>4. /\ Total(c, z, n) \in Cost
        /\ Total(c, z, n) # Infinite <=> \A i \in 1 .. n : c[i] # Infinite
    BY <2>1, <2>3
  <2> QED BY <2>4 DEF z
<1>5. ASSUME PathCost(path, n) # Infinite, NEW i \in 1 .. n
      PROVE  /\ emissions[i][path[i]] # Infinite
             /\ i = n \/ path[i + 1] # path[i] => i - RunStart(path, i) >= Minimum[path[i]]
  <2>1. c[i] # Infinite
    BY <1>1, <1>4, <1>5
  <2> QED BY <2>1, FrameCostType DEF c
<1> QED BY <1>1, <1>4, <1>5 DEF c

(* A path's cost depends on its states only.                               *)
LEMMA PathCostSame ==
    ASSUME NEW path, NEW other, NEW n \in Nat, \A i \in 1 .. n : path[i] = other[i]
    PROVE  PathCost(path, n) = PathCost(other, n)
<1>1. ASSUME NEW i \in 1 .. n PROVE FrameCosts(path, n)[i] = FrameCosts(other, n)[i]
  <2>1. i \in Nat \ {0} /\ \A j \in 1 .. i : path[j] = other[j]
    OBVIOUS
  <2>2. RunCost(path, i) = RunCost(other, i)
    BY <2>1, RunStartSame
  <2>3. i # n => i + 1 \in 1 .. n
    OBVIOUS
  <2>4. i = n \/ path[i + 1] # path[i] <=> i = n \/ other[i + 1] # other[i]
    BY <2>3
  <2> QED BY <2>2, <2>4 DEF FrameCosts
<1>2. FrameCosts(path, n) = FrameCosts(other, n)
  BY <1>1 DEF FrameCosts
<1> QED BY <1>2 DEF PathCost, FrameCosts

(* A sum in the order of the frames, in the order of the decoder.          *)
LEMMA PlusRearranged ==
    ASSUME NEW a \in Cost, NEW b \in Cost, NEW c \in Cost, NEW d \in Cost, NEW e \in Cost
    PROVE  Plus(a, Plus(b, Plus(c, Plus(d, e)))) = Plus(Plus(a, d), Plus(e, Plus(b, c)))
<1>1. /\ Plus(b, c) \in Cost /\ Plus(d, e) \in Cost /\ Plus(c, Plus(d, e)) \in Cost
      /\ Plus(e, Plus(b, c)) \in Cost /\ Plus(e, d) \in Cost /\ Plus(Plus(b, c), e) \in Cost
  BY PlusType
<1>2. Plus(b, Plus(c, Plus(d, e))) = Plus(Plus(b, c), Plus(d, e))
  BY <1>1, PlusAssociative
<1>3. Plus(Plus(b, c), Plus(d, e)) = Plus(Plus(d, e), Plus(b, c))
  BY <1>1, PlusAssociative
<1>4. Plus(Plus(d, e), Plus(b, c)) = Plus(d, Plus(e, Plus(b, c)))
  BY <1>1, PlusAssociative
<1>5. Plus(a, Plus(d, Plus(e, Plus(b, c)))) = Plus(Plus(a, d), Plus(e, Plus(b, c)))
  BY <1>1, PlusAssociative
<1> QED BY <1>2, <1>3, <1>4, <1>5

(* A path's cost is the cost of the path before its last run and of that   *)
(* run: what the decoder adds to a retained path.                          *)
LEMMA PathCostByRuns ==
    ASSUME TypeOK, NEW end \in 1 .. now, NEW path, OfStates(path, end),
           NEW k, k = RunStart(path, end)
    PROVE  PathCost(path, end)
             = Plus(IF k = 0 THEN Start[path[end]]
                    ELSE Plus(PathCost(path, k), TransitionCost(path[k], path[end])),
                    SegmentCost(path[end], k, end))
<1> DEFINE s == path[end]
           f == FrameCosts(path, end)
           g == FrameCosts(path, k)
           c == [i \in 1 .. now |-> emissions[i][s]]
           entered == IF k = 0 THEN Start[s] ELSE TransitionCost(path[k], s)
           dwell == Dwell(s, end - k)
           x == Total(c, k, end - 1)
           m == emissions[end][s]
<1>0. now \in Nat /\ end \in Nat \ {0} /\ end <= now /\ end \in 1 .. end
  BY DEF TypeOK
<1>1. k \in Nat /\ k < end /\ k <= end - 1 /\ end - 1 \in Nat /\ (end - 1) + 1 = end
      /\ k <= now
  BY <1>0, RunStartIs
<1>2. \A i \in k + 1 .. end : path[i] = s
  BY <1>0, RunStartIs
<1>3. k = 0 \/ path[k] # s
  BY <1>0, RunStartIs
<1>4. s \in StateSet /\ OfStates(path, k)
  BY <1>0, <1>1 DEF OfStates
<1>5. \A i \in 1 .. end : f[i] \in Cost
  BY <1>0, FrameCostType
<1>6. PathCost(path, end) = Total(f, 0, end)
  BY <1>0, PathCostType
<1>7. Total(f, 0, end) = Plus(Total(f, 0, k), Total(f, k, end))
  <2> DEFINE n == end - k
  <2>1. n \in Nat /\ k + n = end
    BY <1>0, <1>1
  <2> HIDE DEF n, f
  <2>2. \A i \in 1 .. k + n : f[i] \in Cost
    BY <1>5, <2>1
  <2>3. Total(f, 0, k + n) = Plus(Total(f, 0, k), Total(f, k, k + n))
    BY <1>1, <2>1, <2>2, TotalSplit
  <2> QED BY <2>1, <2>3
<1>8. Total(f, 0, k) = Total(g, 0, k)
  <2>1. ASSUME NEW i \in 1 .. k PROVE f[i] = g[i]
    <3>1. i \in 1 .. end /\ i # end /\ k + 1 \in k + 1 .. end /\ i \in Nat
      BY <1>0, <1>1
    <3>2. i = k => path[i + 1] # path[i]
      BY <1>2, <1>3, <3>1
    <3> QED BY <3>1, <3>2 DEF FrameCosts
  <2> DEFINE z == 0
  <2>2. z \in Nat /\ z + k = k /\ z + 1 = 1
    BY <1>1
  <2> HIDE DEF f, g, z
  <2>3. \A i \in z + 1 .. z + k : f[i] = g[i]
    BY <2>1, <2>2
  <2>4. Total(f, z, z + k) = Total(g, z, z + k)
    BY <1>1, <2>2, <2>3, TotalSame
  <2>5. Total(f, z, k) = Total(g, z, k)
    BY <2>2, <2>4
  <2> QED BY <2>5 DEF z
<1>9. Total(f, k, end) = Plus(x, Plus(m, Plus(entered, dwell)))
  <2>1. f[end] = Plus(m, Plus(entered, dwell))
    BY <1>0 DEF FrameCosts, RunCost
  <2>2. ASSUME NEW i \in k + 1 .. end - 1 PROVE f[i] = c[i]
    <3>1. /\ i \in 1 .. end /\ i \in 1 .. now /\ i # end /\ i \in k + 1 .. end
          /\ i + 1 \in k + 1 .. end
      BY <1>0, <1>1
    <3>2. path[i] = s /\ path[i + 1] = s
      BY <1>2, <3>1
    <3>3. f[i] = Plus(emissions[i][s], 0)
      BY <3>1, <3>2 DEF FrameCosts
    <3>4. emissions[i][s] \in Cost
      BY <1>4, <3>1, EmissionType
    <3> QED BY <3>1, <3>3, <3>4, PlusType
  <2> DEFINE n == (end - 1) - k
  <2>3. n \in Nat /\ k + n = end - 1
    BY <1>0, <1>1
  <2> HIDE DEF f, c, n, m, entered, dwell
  <2>4. \A i \in k + 1 .. k + n : f[i] = c[i]
    BY <2>2, <2>3
  <2>5. Total(f, k, k + n) = Total(c, k, k + n)
    BY <1>1, <2>3, <2>4, TotalSame
  <2>6. Total(f, k, (end - 1) + 1) = Plus(Total(f, k, end - 1), f[(end - 1) + 1])
    BY <1>1, TotalNext
  <2> QED BY <1>1, <2>1, <2>3, <2>5, <2>6
<1>10. SegmentCost(s, k, end) = Plus(dwell, Plus(x, m))
  <2>1. c[end] = m
    OBVIOUS
  <2>2. SegmentCost(s, k, end) = Plus(dwell, Total(c, k, end))
    BY DEF SegmentCost
  <2> HIDE DEF c, m, dwell
  <2>3. Total(c, k, (end - 1) + 1) = Plus(Total(c, k, end - 1), c[(end - 1) + 1])
    BY <1>1, TotalNext
  <2> QED BY <1>1, <2>1, <2>2, <2>3
<1>11. Total(g, 0, k) = PathCost(path, k) /\ PathCost(path, k) \in Cost
  BY <1>1, <1>4, PathCostType
<1>12. k = 0 => PathCost(path, k) = 0
  <2>1. Total(g, 0, 0) = 0
    BY TotalStep
  <2> QED BY <1>11, <2>1
<1>13. x \in Cost /\ m \in Cost /\ entered \in Cost /\ dwell \in Cost
  <2>1. m \in Cost
    BY <1>4, EmissionType
  <2>2. entered \in Cost
    BY <1>4, DwellType, TransitionType
  <2>3. dwell \in Cost
    BY <1>0, <1>1, <1>4, DwellType
  <2>4. x \in Cost
    <3> DEFINE n == (end - 1) - k
    <3>1. n \in Nat /\ k + n = end - 1
      BY <1>0, <1>1
    <3>2. \A i \in k + 1 .. k + n : c[i] \in Cost
      <4>1. \A i \in k + 1 .. k + n : i \in 1 .. now
        BY <1>0, <1>1, <3>1
      <4> QED BY <1>4, <4>1, EmissionType
    <3> HIDE DEF n, c
    <3>3. Total(c, k, k + n) \in Cost
      BY <1>1, <3>1, <3>2, TotalFinite
    <3> QED BY <3>1, <3>3
  <2> QED BY <2>1, <2>2, <2>3, <2>4
<1> DEFINE a == PathCost(path, k)
<1>14. PathCost(path, end) = Plus(a, Plus(x, Plus(m, Plus(entered, dwell))))
  <2> HIDE DEF f, g, x, m, entered, dwell
  <2> QED BY <1>6, <1>7, <1>8, <1>9, <1>11
<1>15. (IF k = 0 THEN Start[s] ELSE Plus(a, TransitionCost(path[k], s))) = Plus(a, entered)
  <2>1. CASE k = 0
    <3>1. a = 0 /\ entered = Start[s] /\ entered \in Cost
      BY <1>12, <1>13, <2>1
    <3> HIDE DEF a, entered
    <3> QED BY <2>1, <3>1, PlusType
  <2>2. CASE k # 0
    BY <2>2
  <2> QED BY <2>1, <2>2
<1>16. a \in Cost
  BY <1>11
<1>17. Plus(a, Plus(x, Plus(m, Plus(entered, dwell))))
         = Plus(Plus(a, entered), Plus(dwell, Plus(x, m)))
  <2> HIDE DEF a, x, m, entered, dwell
  <2> QED BY <1>13, <1>16, PlusRearranged
<1> QED BY <1>10, <1>14, <1>15, <1>17

-----------------------------------------------------------------------------
(* The retained paths.                                                     *)

(* Every frame has been decoded.                                           *)
Decoded == TypeOK /\ Len(entries) = now /\ \A end \in 1 .. now : entries[end] = Column(end)

(* The entries of a frame are two of its candidates for each state.        *)
LEMMA EntriesRetain ==
    ASSUME Decoded, NEW end \in 1 .. now, NEW s \in StateSet
    PROVE  /\ Retains(entries[end][s], Candidates(s, end))
           /\ Candidates(s, end) \subseteq EntrySet
           /\ \A e \in Candidates(s, end) : e.start < end
<1>1. TypeOK /\ end <= Len(entries) + 1 /\ entries[end] = Column(end)
  <2>1. TypeOK /\ now \in Nat /\ Len(entries) = now /\ entries[end] = Column(end)
    BY DEF Decoded, TypeOK
  <2> QED BY <2>1
<1> QED BY <1>1, ColumnRetains, CandidateType

(* Where a retained path comes from: it is a first dwell, or it continues  *)
(* a retained path that ended in another state.                            *)
LEMMA EntryForm ==
    ASSUME Decoded, NEW end \in 1 .. now, NEW s \in StateSet,
           NEW r \in DOMAIN entries[end][s], NEW e, e = entries[end][s][r]
    PROVE  /\ e \in Candidates(s, end) /\ e \in EntrySet /\ e.start \in 0 .. end - 1
           /\ e.start = 0 => e = First(s, end)
           /\ e.start # 0 =>
                /\ Retained(s, e.start, e.previous, e.rank)
                /\ e = Continued(s, end, e.start, e.previous, e.rank)
<1>1. e \in Candidates(s, end) /\ e \in EntrySet /\ e.start < end
  BY EntriesRetain DEF Retains
<1>2. e.start \in 0 .. end - 1
  <2>1. e.start \in Nat /\ end \in Nat /\ now \in Nat
    BY <1>1 DEF EntrySet, Decoded, TypeOK
  <2> QED BY <1>1, <2>1
<1>3. First(s, end).start = 0
  BY DEF First, Entry
<1>4. \A start, p, q : /\ Continued(s, end, start, p, q).start = start
                       /\ Continued(s, end, start, p, q).previous = p
                       /\ Continued(s, end, start, p, q).rank = q
  BY DEF Continued, Entry
<1>5. CASE e = First(s, end)
  BY <1>1, <1>2, <1>3, <1>5
<1>6. ASSUME NEW start \in 1 .. end - 1, NEW p, NEW q,
             Retained(s, start, p, q), e = Continued(s, end, start, p, q)
      PROVE  /\ e.start # 0 /\ Retained(s, e.start, e.previous, e.rank)
             /\ e = Continued(s, end, e.start, e.previous, e.rank)
  <2>1. e.start = start /\ e.previous = p /\ e.rank = q /\ start # 0
    BY <1>4, <1>6
  <2> QED BY <1>6, <2>1
<1> QED BY <1>1, <1>2, <1>5, <1>6, CandidateForm

(* The paths of a frame, from those of earlier frames.                     *)
PathsAt(t, end) ==
    [s \in StateSet |-> [r \in DOMAIN entries[end][s] |->
       LET e == entries[end][s][r] IN
       [i \in 1 .. end |-> IF i > e.start THEN s
                          ELSE t[e.start][States[e.previous]][e.rank][i]]]]

(* They depend on those of earlier frames only.                            *)
LEMMA PathsAtSame ==
    ASSUME Decoded, NEW end \in 1 .. now, NEW t, NEW u, \A i \in 1 .. end - 1 : t[i] = u[i]
    PROVE  PathsAt(t, end) = PathsAt(u, end)
<1> DEFINE P(v, s, r) ==
             [i \in 1 .. end |->
                IF i > entries[end][s][r].start THEN s
                ELSE v[entries[end][s][r].start][States[entries[end][s][r].previous]]
                        [entries[end][s][r].rank][i]]
<1>1. ASSUME NEW s \in StateSet, NEW r \in DOMAIN entries[end][s] PROVE P(t, s, r) = P(u, s, r)
  <2> DEFINE e == entries[end][s][r]
  <2>1. e.start \in 0 .. end - 1
    BY EntryForm
  <2> HIDE DEF e
  <2>2. ASSUME NEW i \in 1 .. end, ~(i > e.start) PROVE t[e.start] = u[e.start]
    BY <2>1, <2>2
  <2>3. \A i \in 1 .. end :
          (IF i > e.start THEN s ELSE t[e.start][States[e.previous]][e.rank][i])
            = IF i > e.start THEN s ELSE u[e.start][States[e.previous]][e.rank][i]
    BY <2>2
  <2>4. [i \in 1 .. end |->
            IF i > e.start THEN s ELSE t[e.start][States[e.previous]][e.rank][i]]
          = [i \in 1 .. end |->
                IF i > e.start THEN s ELSE u[e.start][States[e.previous]][e.rank][i]]
    BY <2>3
  <2> QED BY <2>4 DEF e
<1>2. /\ PathsAt(t, end) = [s \in StateSet |-> [r \in DOMAIN entries[end][s] |-> P(t, s, r)]]
      /\ PathsAt(u, end) = [s \in StateSet |-> [r \in DOMAIN entries[end][s] |-> P(u, s, r)]]
  BY DEF PathsAt
<1> HIDE DEF P
<1>3. \A s \in StateSet : [r \in DOMAIN entries[end][s] |-> P(t, s, r)]
                            = [r \in DOMAIN entries[end][s] |-> P(u, s, r)]
  BY <1>1
<1> QED BY <1>2, <1>3

(* t holds the paths of the first n frames.                                *)
Tables(t, n) == t = [end \in 1 .. n |-> PathsAt(t, end)]

(* There are such paths.                                                   *)
LEMMA TablesExist ==
    ASSUME Decoded
    PROVE  \E t : Tables(t, now)
<1>0. now \in Nat
  BY DEF Decoded, TypeOK
<1> DEFINE N == {n \in Nat : n <= now => \E t : Tables(t, n)}
<1>1. 0 \in N
  <2>1. 1 .. 0 = {}
    OBVIOUS
  <2>2. \E t : t = [end \in 1 .. 0 |-> PathsAt(t, end)]
    <3> DEFINE t == [end \in {} |-> 0]
    <3>1. t = [end \in {} |-> PathsAt(t, end)]
      OBVIOUS
    <3> HIDE DEF t
    <3> QED BY <2>1, <3>1
  <2> QED BY <2>2 DEF Tables
<1>2. ASSUME NEW n \in N PROVE n + 1 \in N
  <2>1. SUFFICES ASSUME n + 1 <= now PROVE \E t : Tables(t, n + 1)
    OBVIOUS
  <2>2. n \in Nat /\ n <= now /\ n + 1 \in 1 .. n + 1
    BY <1>0, <2>1
  <2>3. PICK t : Tables(t, n)
    BY <2>2
  <2> DEFINE u == [end \in 1 .. n + 1 |-> IF end = n + 1 THEN PathsAt(t, n + 1) ELSE t[end]]
  <2>4. \A end \in 1 .. n : u[end] = t[end]
    <3>1. \A end \in 1 .. n : end \in 1 .. n + 1 /\ end # n + 1
      BY <2>2
    <3> QED BY <3>1
  <2>5. u[n + 1] = PathsAt(t, n + 1) /\ u = [end \in 1 .. n + 1 |-> u[end]]
    BY <2>2
  <2> HIDE DEF u
  <2>6. ASSUME NEW end \in 1 .. n + 1 PROVE u[end] = PathsAt(u, end)
    <3>1. end \in 1 .. now /\ \A i \in 1 .. end - 1 : i \in 1 .. n
      BY <1>0, <2>1, <2>2
    <3>2. \A i \in 1 .. end - 1 : t[i] = u[i]
      BY <2>4, <3>1
    <3>3. PathsAt(t, end) = PathsAt(u, end)
      BY <3>1, <3>2, PathsAtSame
    <3>4. CASE end = n + 1
      BY <2>5, <3>3, <3>4
    <3>5. CASE end # n + 1
      <4>1. end \in 1 .. n
        BY <2>2, <3>5
      <4>2. t[end] = PathsAt(t, end)
        BY <2>3, <4>1 DEF Tables
      <4> QED BY <2>4, <3>3, <4>1, <4>2
    <3> QED BY <3>4, <3>5
  <2>7. [end \in 1 .. n + 1 |-> u[end]] = [end \in 1 .. n + 1 |-> PathsAt(u, end)]
    BY <2>6
  <2> QED BY <2>5, <2>7 DEF Tables
<1>3. N \in SUBSET Nat
  OBVIOUS
<1> HIDE DEF N
<1>4. now \in N
  BY <1>0, <1>1, <1>2, <1>3, EveryNatural
<1> QED BY <1>0, <1>4 DEF N

(* The state sequence of a retained path.                                  *)
PathOf(end, s, r) == RetainedPaths[end][s][r]

(* It ends with its last dwell, after the path it continues.               *)
LEMMA PathOfIs ==
    ASSUME Decoded, NEW end \in 1 .. now, NEW s \in StateSet,
           NEW r \in DOMAIN entries[end][s], NEW e, e = entries[end][s][r]
    PROVE  PathOf(end, s, r)
             = [i \in 1 .. end |-> IF i > e.start THEN s
                                  ELSE PathOf(e.start, States[e.previous], e.rank)[i]]
<1> DEFINE t == RetainedPaths
<1>1. Tables(t, now)
  <2>1. t = CHOOSE u : Tables(u, now)
    BY DEF RetainedPaths, Tables, PathsAt
  <2> HIDE DEF t
  <2> QED BY <2>1, TablesExist
<1> HIDE DEF t
<1>2. t[end] = PathsAt(t, end)
  BY <1>1 DEF Tables
<1> DEFINE P(v, q) ==
             [i \in 1 .. end |->
                IF i > entries[end][v][q].start THEN v
                ELSE t[entries[end][v][q].start][States[entries[end][v][q].previous]]
                        [entries[end][v][q].rank][i]]
<1>3. t[end][s][r] = P(s, r)
  <2>1. PathsAt(t, end) = [v \in StateSet |-> [q \in DOMAIN entries[end][v] |-> P(v, q)]]
    BY DEF PathsAt
  <2> HIDE DEF P
  <2>2. t[end][s] = [q \in DOMAIN entries[end][s] |-> P(s, q)]
    BY <1>2, <2>1
  <2> QED BY <2>2
<1> QED BY <1>3 DEF PathOf, t

-----------------------------------------------------------------------------
(* The decoder is exact, frame by frame.                                   *)

(* A retained path is a path of the model with the cost of its entry.      *)
Sound(end, s, r) ==
    /\ PathOf(end, s, r) \in [1 .. end -> StateSet]
    /\ PathOf(end, s, r)[end] = s
    /\ PathCost(PathOf(end, s, r), end) = entries[end][s][r].cost

AllSound(end) == \A s \in StateSet : \A r \in DOMAIN entries[end][s] : Sound(end, s, r)

(* It is if those of the earlier frames are.                               *)
LEMMA SoundStep ==
    ASSUME Decoded, NEW end \in 1 .. now, \A start \in 1 .. end - 1 : AllSound(start)
    PROVE  AllSound(end)
<1> SUFFICES ASSUME NEW s \in StateSet, NEW r \in DOMAIN entries[end][s]
             PROVE  Sound(end, s, r)
  BY DEF AllSound
<1> DEFINE e == entries[end][s][r]
           P == PathOf(end, s, r)
           k == e.start
           Q == PathOf(k, States[e.previous], e.rank)
<1>0. now \in Nat /\ end \in Nat \ {0} /\ TypeOK /\ end \in 1 .. end
  BY DEF Decoded, TypeOK
<1>1. /\ k \in 0 .. end - 1
      /\ k = 0 => e = First(s, end)
      /\ k # 0 => Retained(s, k, e.previous, e.rank) /\ e = Continued(s, end, k, e.previous, e.rank)
  BY EntryForm
<1>2. P = [i \in 1 .. end |-> IF i > k THEN s ELSE Q[i]]
  BY PathOfIs
<1> HIDE DEF P, Q
<1>3. ASSUME \A i \in 1 .. k : P[i] \in StateSet
      PROVE  P \in [1 .. end -> StateSet] /\ P[end] = s /\ OfStates(P, end)
  <2>1. end > k /\ \A i \in 1 .. end : i > k \/ i \in 1 .. k
    BY <1>0, <1>1
  <2>2. \A i \in 1 .. end : P[i] \in StateSet
    BY <1>2, <1>3, <2>1
  <2> QED BY <1>0, <1>2, <2>1, <2>2 DEF OfStates
<1>4. CASE k = 0
  <2>1. \A i \in 0 + 1 .. end : P[i] = s
    BY <1>0, <1>2, <1>4
  <2>2. 1 .. k = {}
    BY <1>4
  <2>3. P \in [1 .. end -> StateSet] /\ P[end] = s /\ OfStates(P, end)
    BY <1>3, <2>2
  <2> DEFINE z == 0
  <2>4. z \in Nat /\ z < end /\ \A i \in z + 1 .. end : P[i] = P[end]
    BY <1>0, <2>1, <2>3
  <2>5. z = 0 \/ P[z] # P[end]
    OBVIOUS
  <2> HIDE DEF z
  <2>6. RunStart(P, end) = z
    BY <1>0, <2>4, <2>5, RunStartOnly
  <2>7. RunStart(P, end) = 0
    BY <2>6 DEF z
  <2>8. PathCost(P, end) = Plus(Start[s], SegmentCost(s, 0, end))
    BY <1>0, <2>3, <2>7, PathCostByRuns
  <2>9. e.cost = Plus(Start[s], SegmentCost(s, 0, end))
    BY <1>1, <1>4 DEF First, Entry
  <2> QED BY <2>3, <2>8, <2>9 DEF Sound, P
<1>5. CASE k # 0
  <2> DEFINE p == e.previous
             u == States[p]
             q == e.rank
  <2>1. k \in 1 .. end - 1 /\ k \in Nat /\ k < end /\ k \in 1 .. k /\ ~(k > k)
    BY <1>0, <1>1, <1>5
  <2>2. u \in StateSet /\ u # s /\ q \in DOMAIN entries[k][u]
    BY <1>1, <1>5, PlacesNameStates DEF Retained
  <2>0. e = Continued(s, end, k, p, q) /\ Q = PathOf(k, u, q)
    BY <1>1, <1>5 DEF Q
  <2> HIDE DEF e, k, u, p, q
  <2>3. Q \in [1 .. k -> StateSet] /\ Q[k] = u /\ PathCost(Q, k) = entries[k][u][q].cost
    <3>1. Sound(k, u, q)
      BY <2>1, <2>2 DEF AllSound
    <3> QED BY <2>0, <3>1 DEF Sound
  <2>4. e.cost = Plus(Plus(entries[k][u][q].cost, TransitionCost(u, s)), SegmentCost(s, k, end))
    BY <2>0 DEF Continued, Entry, u
  <2>5. \A i \in 1 .. k : P[i] = Q[i]
    <3>1. \A i \in 1 .. k : i \in 1 .. end /\ ~(i > k)
      BY <1>0, <2>1
    <3> QED BY <1>2, <3>1
  <2>6. P \in [1 .. end -> StateSet] /\ P[end] = s /\ OfStates(P, end)
    BY <1>3, <2>3, <2>5
  <2>7. P[k] = u
    BY <2>1, <2>3, <2>5
  <2>8. \A i \in k + 1 .. end : P[i] = P[end]
    <3>1. \A i \in k + 1 .. end : i \in 1 .. end /\ i > k
      BY <1>0, <2>1
    <3> QED BY <1>2, <2>6, <3>1
  <2>9. k = RunStart(P, end)
    BY <1>0, <2>1, <2>2, <2>6, <2>7, <2>8, RunStartOnly
  <2>10. PathCost(P, k) = PathCost(Q, k)
    BY <2>1, <2>5, PathCostSame
  <2>11. PathCost(P, end) = Plus(IF k = 0 THEN Start[P[end]]
                                 ELSE Plus(PathCost(P, k), TransitionCost(P[k], P[end])),
                                 SegmentCost(P[end], k, end))
    BY <1>0, <2>6, <2>9, PathCostByRuns
  <2>12. PathCost(P, end) = e.cost
    BY <1>5, <2>3, <2>4, <2>6, <2>7, <2>10, <2>11
  <2> QED BY <2>6, <2>12 DEF Sound, P, e
<1> QED BY <1>4, <1>5

(* Every retained path is one.                                             *)
LEMMA RetainedAreSound ==
    ASSUME Decoded
    PROVE  \A end \in 1 .. now : AllSound(end)
<1> DEFINE N == {n \in Nat : \A end \in 1 .. n : end <= now => AllSound(end)}
<1>0. now \in Nat
  BY DEF Decoded, TypeOK
<1>1. 0 \in N
  OBVIOUS
<1>2. ASSUME NEW n \in N PROVE n + 1 \in N
  <2>1. n + 1 <= now => AllSound(n + 1)
    <3>1. SUFFICES ASSUME n + 1 <= now PROVE AllSound(n + 1)
      OBVIOUS
    <3> DEFINE end == n + 1
    <3>2. end \in 1 .. now /\ \A start \in 1 .. end - 1 : start \in 1 .. n /\ start <= now
      BY <1>0, <3>1
    <3>3. \A start \in 1 .. end - 1 : AllSound(start)
      BY <3>2
    <3> HIDE DEF end
    <3>4. AllSound(end)
      BY <3>2, <3>3, SoundStep
    <3> QED BY <3>4 DEF end
  <2>2. \A end \in 1 .. n + 1 : end = n + 1 \/ end \in 1 .. n
    OBVIOUS
  <2> QED BY <2>1, <2>2
<1>3. N \in SUBSET Nat
  OBVIOUS
<1> HIDE DEF N
<1>4. now \in N
  BY <1>0, <1>1, <1>2, <1>3, EveryNatural
<1>5. \A end \in 1 .. now : end <= now => AllSound(end)
  BY <1>4 DEF N
<1> QED BY <1>0, <1>5

(* The frames of a retained path before and in its last dwell.             *)
LEMMA PathOfParts ==
    ASSUME Decoded, NEW end \in 1 .. now, NEW s \in StateSet,
           NEW r \in DOMAIN entries[end][s], NEW e, e = entries[end][s][r]
    PROVE  /\ \A i \in e.start + 1 .. end : PathOf(end, s, r)[i] = s
           /\ \A i \in 1 .. e.start :
                PathOf(end, s, r)[i] = PathOf(e.start, States[e.previous], e.rank)[i]
           /\ e.start # 0 =>
                /\ e.start \in 1 .. now /\ States[e.previous] \in StateSet
                /\ e.rank \in DOMAIN entries[e.start][States[e.previous]]
                /\ PathOf(end, s, r)[e.start] = States[e.previous]
<1> DEFINE k == e.start
           P == PathOf(end, s, r)
           Q == PathOf(e.start, States[e.previous], e.rank)
<1>0. now \in Nat /\ end \in Nat
  BY DEF Decoded, TypeOK
<1>1. k \in 0 .. end - 1 /\ (k # 0 => Retained(s, k, e.previous, e.rank))
  BY EntryForm
<1>2. P = [i \in 1 .. end |-> IF i > k THEN s ELSE Q[i]]
  BY PathOfIs
<1> HIDE DEF P, Q, k
<1>3. \A i \in k + 1 .. end : i \in 1 .. end /\ i > k
  BY <1>0, <1>1
<1>4. \A i \in 1 .. k : i \in 1 .. end /\ ~(i > k)
  BY <1>0, <1>1
<1>5. /\ \A i \in k + 1 .. end : P[i] = s
      /\ \A i \in 1 .. k : P[i] = Q[i]
  BY <1>2, <1>3, <1>4
<1>6. ASSUME k # 0
      PROVE  /\ k \in 1 .. now /\ States[e.previous] \in StateSet
             /\ e.rank \in DOMAIN entries[k][States[e.previous]]
             /\ P[k] = States[e.previous]
  <2>1. k \in 1 .. now /\ k \in 1 .. k
    BY <1>0, <1>1, <1>6
  <2>2. States[e.previous] \in StateSet /\ e.rank \in DOMAIN entries[k][States[e.previous]]
    BY <1>1, <1>6, PlacesNameStates DEF Retained
  <2>3. Sound(k, States[e.previous], e.rank)
    BY <2>1, <2>2, RetainedAreSound DEF AllSound
  <2>4. Q[k] = States[e.previous]
    BY <2>3 DEF Sound, Q, k
  <2> QED BY <1>5, <2>1, <2>2, <2>4
<1> QED BY <1>5, <1>6 DEF P, Q, k

(* Two paths retained for a state at a frame differ.                       *)
Distinct(end) ==
    \A s \in StateSet : \A q, r \in DOMAIN entries[end][s] :
        q # r => \E i \in 1 .. end : PathOf(end, s, q)[i] # PathOf(end, s, r)[i]

(* They do when their last dwells start at different frames.               *)
LEMMA DistinctStarts ==
    ASSUME Decoded, NEW end \in 1 .. now, NEW s \in StateSet,
           NEW q \in DOMAIN entries[end][s], NEW r \in DOMAIN entries[end][s],
           entries[end][s][q].start < entries[end][s][r].start
    PROVE  \E i \in 1 .. end : PathOf(end, s, q)[i] # PathOf(end, s, r)[i]
<1> DEFINE e == entries[end][s][q]
           f == entries[end][s][r]
<1>0. now \in Nat /\ end \in Nat
  BY DEF Decoded, TypeOK
<1>1. e.start \in 0 .. end - 1 /\ f.start \in 0 .. end - 1
  BY EntryForm
<1>2. f.start # 0 => Retained(s, f.start, f.previous, f.rank)
  BY EntryForm
<1>3. f.start # 0 /\ f.start \in e.start + 1 .. end /\ f.start \in 1 .. end
  <2> HIDE DEF e, f
  <2>1. e.start < f.start
    BY DEF e, f
  <2> QED BY <1>0, <1>1, <2>1
<1>4. PathOf(end, s, q)[f.start] = s
  BY <1>3, PathOfParts
<1>5. PathOf(end, s, r)[f.start] = States[f.previous]
  BY <1>3, PathOfParts
<1>6. States[f.previous] # s
  BY <1>2, <1>3 DEF Retained
<1> QED BY <1>3, <1>4, <1>5, <1>6

(* They do when the paths retained earlier do.                             *)
LEMMA DistinctStep ==
    ASSUME Decoded, NEW end \in 1 .. now, \A start \in 1 .. end - 1 : Distinct(start)
    PROVE  Distinct(end)
<1> SUFFICES ASSUME NEW s \in StateSet,
                    NEW q \in DOMAIN entries[end][s], NEW r \in DOMAIN entries[end][s], q # r
             PROVE  \E i \in 1 .. end : PathOf(end, s, q)[i] # PathOf(end, s, r)[i]
  BY DEF Distinct
<1> DEFINE e == entries[end][s][q]
           f == entries[end][s][r]
<1>0. now \in Nat /\ end \in Nat
  BY DEF Decoded, TypeOK
<1>1. e # f
  BY EntriesRetain DEF Retains
<1>2. /\ e.start \in 0 .. end - 1 /\ f.start \in 0 .. end - 1
      /\ e.start = 0 => e = First(s, end)
      /\ f.start = 0 => f = First(s, end)
      /\ e.start # 0 => e = Continued(s, end, e.start, e.previous, e.rank)
      /\ f.start # 0 => f = Continued(s, end, f.start, f.previous, f.rank)
      /\ e.start # 0 => Retained(s, e.start, e.previous, e.rank)
      /\ f.start # 0 => Retained(s, f.start, f.previous, f.rank)
  BY EntryForm
<1>3. CASE e.start < f.start
  BY <1>3, DistinctStarts
<1>4. CASE f.start < e.start
  BY <1>4, DistinctStarts
<1>5. CASE e.start = f.start
  <2> DEFINE k == e.start
             u == States[e.previous]
             v == States[f.previous]
  <2>1. k # 0
    BY <1>1, <1>2, <1>5
  <2>2. k \in 1 .. end - 1 /\ k \in 1 .. end
    <3> HIDE DEF e, f
    <3> QED BY <1>0, <1>2, <2>1
  <2>3. /\ u \in StateSet /\ v \in StateSet
        /\ e.rank \in DOMAIN entries[k][u] /\ f.rank \in DOMAIN entries[k][v]
        /\ PathOf(end, s, q)[k] = u /\ PathOf(end, s, r)[k] = v
        /\ \A i \in 1 .. k : PathOf(end, s, q)[i] = PathOf(k, u, e.rank)[i]
        /\ \A i \in 1 .. k : PathOf(end, s, r)[i] = PathOf(k, v, f.rank)[i]
    <3>1. /\ u \in StateSet /\ e.rank \in DOMAIN entries[k][u] /\ PathOf(end, s, q)[k] = u
          /\ \A i \in 1 .. k : PathOf(end, s, q)[i] = PathOf(k, u, e.rank)[i]
      BY <2>1, PathOfParts
    <3>2. /\ v \in StateSet /\ f.rank \in DOMAIN entries[f.start][v]
          /\ PathOf(end, s, r)[f.start] = v
          /\ \A i \in 1 .. f.start : PathOf(end, s, r)[i] = PathOf(f.start, v, f.rank)[i]
      BY <1>5, <2>1, PathOfParts
    <3> QED BY <1>5, <3>1, <3>2
  <2>4. CASE u # v
    BY <2>2, <2>3, <2>4
  <2>5. CASE u = v
    <3>1. e.previous = f.previous
      BY <1>2, <1>5, <2>1, <2>5, PlacesNameStates DEF Retained
    <3>2. e.rank # f.rank
      BY <1>1, <1>2, <1>5, <2>1, <3>1
    <3>3. \E i \in 1 .. k : PathOf(k, u, e.rank)[i] # PathOf(k, u, f.rank)[i]
      <4>1. Distinct(k) /\ u \in StateSet
        BY <2>2, <2>3
      <4>2. e.rank \in DOMAIN entries[k][u] /\ f.rank \in DOMAIN entries[k][u]
        BY <2>3, <2>5
      <4> HIDE DEF e, f, k, u
      <4> QED BY <3>2, <4>1, <4>2 DEF Distinct
    <3>4. \A i \in 1 .. k : i \in 1 .. end
      <4> HIDE DEF k
      <4> QED BY <1>0, <2>2
    <3> QED BY <2>3, <2>5, <3>3, <3>4
  <2> QED BY <2>4, <2>5
<1>6. e.start < f.start \/ f.start < e.start \/ e.start = f.start
  <2> HIDE DEF e, f
  <2> QED BY <1>0, <1>2
<1> QED BY <1>3, <1>4, <1>5, <1>6

(* Two retained paths of a state always differ.                            *)
LEMMA RetainedAreDistinct ==
    ASSUME Decoded
    PROVE  \A end \in 1 .. now : Distinct(end)
<1> DEFINE N == {n \in Nat : \A end \in 1 .. n : end <= now => Distinct(end)}
<1>0. now \in Nat
  BY DEF Decoded, TypeOK
<1>1. 0 \in N
  OBVIOUS
<1>2. ASSUME NEW n \in N PROVE n + 1 \in N
  <2>1. n + 1 <= now => Distinct(n + 1)
    <3>1. SUFFICES ASSUME n + 1 <= now PROVE Distinct(n + 1)
      OBVIOUS
    <3> DEFINE end == n + 1
    <3>2. end \in 1 .. now /\ \A start \in 1 .. end - 1 : start \in 1 .. n /\ start <= now
      BY <1>0, <3>1
    <3>3. \A start \in 1 .. end - 1 : Distinct(start)
      BY <3>2
    <3> HIDE DEF end
    <3>4. Distinct(end)
      BY <3>2, <3>3, DistinctStep
    <3> QED BY <3>4 DEF end
  <2>2. \A end \in 1 .. n + 1 : end = n + 1 \/ end \in 1 .. n
    OBVIOUS
  <2> QED BY <2>1, <2>2
<1>3. N \in SUBSET Nat
  OBVIOUS
<1> HIDE DEF N
<1>4. now \in N
  BY <1>0, <1>1, <1>2, <1>3, EveryNatural
<1>5. \A end \in 1 .. now : end <= now => Distinct(end)
  BY <1>4 DEF N
<1> QED BY <1>0, <1>5

(* The first frames of a path are a retained path.                         *)
Among(path, end) ==
    \E r \in DOMAIN entries[end][path[end]] :
        \A i \in 1 .. end : path[i] = PathOf(end, path[end], r)[i]

(* Two retained paths of a state cost at most c.                           *)
TwoWithin(end, s, c) ==
    /\ 1 \in DOMAIN entries[end][s] /\ 2 \in DOMAIN entries[end][s]
    /\ entries[end][s][1].cost <= c /\ entries[end][s][2].cost <= c

(* A feasible path is retained, or two that cost no more are.              *)
Covered(path, end) == Among(path, end) \/ TwoWithin(end, path[end], PathCost(path, end))

AllCovered(end) ==
    \A path : OfStates(path, end) /\ PathCost(path, end) # Infinite => Covered(path, end)

(* A candidate is retained, or two that cost no more are.                  *)
LEMMA CandidateCovered ==
    ASSUME Decoded, NEW end \in 1 .. now, NEW s \in StateSet, NEW e \in Candidates(s, end)
    PROVE  \/ \E r \in DOMAIN entries[end][s] : entries[end][s][r] = e
           \/ TwoWithin(end, s, e.cost)
<1>1. Retains(entries[end][s], Candidates(s, end))
  BY EntriesRetain
<1>2. 1 \in DOMAIN entries[end][s] /\ entries[end][s][1].cost <= e.cost
  BY <1>1 DEF Retains
<1>3. \/ e = entries[end][s][1]
      \/ 2 \in DOMAIN entries[end][s] /\ entries[end][s][2].cost <= e.cost
  BY <1>1 DEF Retains
<1> QED BY <1>2, <1>3 DEF TwoWithin

(* A path that is one dwell in a state.                                    *)
LEMMA CoveredFirst ==
    ASSUME Decoded, NEW end \in 1 .. now, NEW path, OfStates(path, end),
           PathCost(path, end) # Infinite, RunStart(path, end) = 0
    PROVE  Covered(path, end)
<1> DEFINE s == path[end]
           e == First(s, end)
<1>0. now \in Nat /\ end \in Nat \ {0} /\ TypeOK /\ end \in 1 .. end
  BY DEF Decoded, TypeOK
<1>1. \A i \in 0 + 1 .. end : path[i] = s
  <2> DEFINE k == RunStart(path, end)
  <2>1. \A i \in k + 1 .. end : path[i] = path[end]
    BY <1>0, RunStartIs
  <2>2. k = 0
    OBVIOUS
  <2> HIDE DEF k
  <2> QED BY <2>1, <2>2
<1>2. s \in StateSet
  BY <1>0 DEF OfStates
<1>3. PathCost(path, end) = Plus(Start[s], SegmentCost(s, 0, end))
  <2> DEFINE k == RunStart(path, end)
  <2>1. PathCost(path, end) = Plus(IF k = 0 THEN Start[path[end]]
                                   ELSE Plus(PathCost(path, k), TransitionCost(path[k], path[end])),
                                   SegmentCost(path[end], k, end))
    BY <1>0, PathCostByRuns
  <2> QED BY <2>1
<1>4. e.cost = PathCost(path, end) /\ e.start = 0
  BY <1>3 DEF First, Entry
<1> HIDE DEF e
<1>5. e \in Candidates(s, end)
  BY <1>4, CandidateForm DEF e
<1>6. ASSUME NEW r \in DOMAIN entries[end][s], entries[end][s][r] = e
      PROVE  Among(path, end)
  <2>1. \A i \in e.start + 1 .. end : PathOf(end, s, r)[i] = s
    BY <1>2, <1>6, PathOfParts
  <2>2. \A i \in 1 .. end : i \in 0 + 1 .. end
    BY <1>0
  <2>3. \A i \in 1 .. end : PathOf(end, s, r)[i] = s /\ path[i] = s
    BY <1>1, <1>4, <2>1, <2>2
  <2> QED BY <2>3, <1>6 DEF Among
<1> QED BY <1>2, <1>4, <1>5, <1>6, CandidateCovered DEF Covered

(* A path whose runs before the last are covered.                          *)
LEMMA CoveredNext ==
    ASSUME Decoded, NEW end \in 1 .. now, NEW path, OfStates(path, end),
           PathCost(path, end) # Infinite,
           NEW k \in 1 .. end - 1, RunStart(path, end) = k, AllCovered(k)
    PROVE  Covered(path, end)
<1> DEFINE s == path[end]
           u == path[k]
           b == PathCost(path, k)
           t == TransitionCost(u, s)
           g == SegmentCost(s, k, end)
<1>0. /\ now \in Nat /\ end \in Nat \ {0} /\ TypeOK /\ end \in 1 .. end
      /\ k \in 1 .. now /\ k \in Nat /\ k < end /\ k # 0 /\ k \in 1 .. k /\ k <= now
  BY DEF Decoded, TypeOK
<1>1. /\ \A i \in k + 1 .. end : path[i] = s
      /\ u # s
  BY <1>0, RunStartIs
<1>2. s \in StateSet /\ u \in StateSet /\ OfStates(path, k)
  BY <1>0 DEF OfStates
<1>3. PathCost(path, end) = Plus(Plus(b, t), g)
  BY <1>0, PathCostByRuns
<1>4. b \in Cost /\ t \in Cost /\ g \in Cost
  BY <1>0, <1>2, PathCostType, TransitionType, SegmentType
<1>5. PICK p \in DOMAIN States : States[p] = u
  BY <1>2, PlacesNameStates
<1> DEFINE f(r) == Continued(s, end, k, p, r)
<1>6. ASSUME NEW r PROVE /\ f(r).cost = Plus(Plus(entries[k][u][r].cost, t), g)
                         /\ f(r).start = k /\ f(r).previous = p /\ f(r).rank = r
  BY <1>5 DEF Continued, Entry
<1> HIDE DEF f
<1>7. ASSUME NEW r \in DOMAIN entries[k][u], f(r).cost # Infinite
      PROVE  f(r) \in Candidates(s, end)
  <2>1. Retained(s, k, p, r)
    BY <1>1, <1>5 DEF Retained
  <2> QED BY <1>7, <2>1, CandidateForm DEF f
<1> HIDE DEF s, u, b, t, g
<1>8. b # Infinite /\ t # Infinite /\ g # Infinite /\ Plus(b, t) \in Cost /\ Plus(b, t) # Infinite
  BY <1>3, <1>4, PlusType
<1>9. Covered(path, k)
  BY <1>2, <1>8 DEF AllCovered, b
<1>10. CASE Among(path, k)
  <2>1. PICK r \in DOMAIN entries[k][u] : \A i \in 1 .. k : path[i] = PathOf(k, u, r)[i]
    BY <1>10 DEF Among, u
  <2>2. PathCost(PathOf(k, u, r), k) = entries[k][u][r].cost
    BY <1>0, <1>2, RetainedAreSound DEF AllSound, Sound
  <2>3. b = entries[k][u][r].cost
    BY <1>0, <2>1, <2>2, PathCostSame DEF b
  <2>4. f(r).cost = PathCost(path, end)
    BY <1>3, <1>6, <2>3
  <2>5. f(r) \in Candidates(s, end)
    BY <1>7, <2>4
  <2>6. ASSUME NEW q \in DOMAIN entries[end][s], entries[end][s][q] = f(r)
        PROVE  Among(path, end)
    <3> DEFINE e == f(r)
    <3>1. e.start = k /\ e.previous = p /\ e.rank = r /\ e = entries[end][s][q]
      BY <1>6, <2>6
    <3> HIDE DEF e
    <3>2. /\ \A i \in e.start + 1 .. end : PathOf(end, s, q)[i] = s
          /\ \A i \in 1 .. e.start :
               PathOf(end, s, q)[i] = PathOf(e.start, States[e.previous], e.rank)[i]
      BY <1>2, <3>1, PathOfParts
    <3>3. /\ \A i \in k + 1 .. end : PathOf(end, s, q)[i] = path[i]
          /\ \A i \in 1 .. k : PathOf(end, s, q)[i] = path[i]
      BY <1>1, <1>5, <2>1, <3>1, <3>2
    <3>4. \A i \in 1 .. end : i \in k + 1 .. end \/ i \in 1 .. k
      BY <1>0
    <3>5. \A i \in 1 .. end : path[i] = PathOf(end, s, q)[i]
      BY <3>3, <3>4
    <3> QED BY <3>5, <2>6 DEF Among, s
  <2>7. TwoWithin(end, s, f(r).cost) => TwoWithin(end, s, PathCost(path, end))
    BY <2>4
  <2> QED BY <1>2, <2>5, <2>6, <2>7, CandidateCovered DEF Covered, s
<1>11. CASE TwoWithin(k, u, b)
  <2>1. 1 \in DOMAIN entries[k][u] /\ 2 \in DOMAIN entries[k][u]
    BY <1>11 DEF TwoWithin
  <2>2. ASSUME NEW r \in {1, 2}
        PROVE  /\ f(r) \in Candidates(s, end) /\ f(r).cost <= PathCost(path, end)
               /\ PathCost(path, end) \in Nat
    <3> DEFINE a == entries[k][u][r].cost
    <3>1. a <= b /\ r \in DOMAIN entries[k][u]
      BY <1>11, <2>1 DEF TwoWithin
    <3>2. k \in 1 .. Len(entries)
      BY <1>0 DEF Decoded
    <3>3. entries[k][u][r] \in EntrySet
      BY <1>0, <1>2, <3>1, <3>2, EntryType
    <3>4. a \in Nat /\ b \in Nat
      BY <1>4, <1>8, <3>3 DEF EntrySet, Cost
    <3>5. f(r).cost = Plus(Plus(a, t), g)
      BY <1>6
    <3> HIDE DEF a
    <3>6. Plus(a, t) \in Nat /\ Plus(b, t) \in Nat /\ Plus(a, t) <= Plus(b, t)
      BY <1>4, <1>8, <3>1, <3>4, PlusMonotone
    <3> DEFINE aa == Plus(a, t)
               bb == Plus(b, t)
    <3>7. Plus(bb, g) # Infinite /\ Plus(bb, g) = PathCost(path, end)
      BY <1>3
    <3> HIDE DEF aa, bb
    <3>8. aa \in Nat /\ bb \in Nat /\ aa <= bb
      BY <3>6 DEF aa, bb
    <3>9. Plus(aa, g) \in Nat /\ Plus(bb, g) \in Nat /\ Plus(aa, g) <= Plus(bb, g)
      BY <1>4, <3>7, <3>8, PlusMonotone
    <3>10. f(r).cost \in Nat /\ f(r).cost <= PathCost(path, end) /\ PathCost(path, end) \in Nat
      BY <3>5, <3>7, <3>9 DEF aa
    <3>11. f(r).cost # Infinite
      BY <3>10, <1>4, PlusType
    <3> QED BY <1>7, <3>1, <3>10, <3>11
  <2>3. f(1) # f(2)
    BY <1>6
  <2>4. /\ Retains(entries[end][s], Candidates(s, end))
        /\ Candidates(s, end) \subseteq EntrySet
    BY <1>2, EntriesRetain
  <2>5. TwoWithin(end, s, PathCost(path, end))
    <3> DEFINE c == PathCost(path, end)
               x == f(1)
               y == f(2)
               S == Candidates(s, end)
               q == entries[end][s]
    <3>1. /\ x \in S /\ y \in S /\ x # y /\ x.cost <= c /\ y.cost <= c /\ c \in Nat
          /\ Retains(q, S) /\ S \subseteq EntrySet
      BY <2>2, <2>3, <2>4
    <3> HIDE DEF c, x, y, S, q
    <3>2. 1 \in DOMAIN q /\ 2 \in DOMAIN q /\ q[1].cost <= c /\ q[2].cost <= c
      BY <3>1, TwoRetained
    <3> QED BY <3>2 DEF TwoWithin, c, q
  <2> QED BY <2>5 DEF Covered, s
<1> QED BY <1>9, <1>10, <1>11 DEF Covered, u, b

(* Every feasible path is covered at every frame.                          *)
LEMMA FeasibleAreCovered ==
    ASSUME Decoded
    PROVE  \A end \in 1 .. now : AllCovered(end)
<1> DEFINE N == {n \in Nat : \A end \in 1 .. n : end <= now => AllCovered(end)}
<1>0. now \in Nat
  BY DEF Decoded, TypeOK
<1>1. 0 \in N
  OBVIOUS
<1>2. ASSUME NEW n \in N PROVE n + 1 \in N
  <2>1. n + 1 <= now => AllCovered(n + 1)
    <3>1. SUFFICES ASSUME n + 1 <= now PROVE AllCovered(n + 1)
      OBVIOUS
    <3> DEFINE end == n + 1
    <3>2. /\ end \in 1 .. now /\ end \in Nat \ {0}
          /\ \A start \in 1 .. end - 1 : start \in 1 .. n /\ start <= now
      BY <1>0, <3>1
    <3>3. \A start \in 1 .. end - 1 : AllCovered(start)
      BY <3>2
    <3> HIDE DEF end
    <3>4. ASSUME NEW path, OfStates(path, end), PathCost(path, end) # Infinite
          PROVE  Covered(path, end)
      <4>1. RunStart(path, end) \in 0 .. end - 1
        BY <3>2, RunStartIs
      <4>2. CASE RunStart(path, end) = 0
        BY <3>2, <3>4, <4>2, CoveredFirst
      <4>3. CASE RunStart(path, end) # 0
        <5>1. RunStart(path, end) \in 1 .. end - 1
          BY <3>2, <4>1, <4>3
        <5> QED BY <3>2, <3>3, <3>4, <5>1, CoveredNext
      <4> QED BY <4>2, <4>3
    <3>5. AllCovered(end)
      BY <3>4 DEF AllCovered
    <3> QED BY <3>5 DEF end
  <2>2. \A end \in 1 .. n + 1 : end = n + 1 \/ end \in 1 .. n
    OBVIOUS
  <2> QED BY <2>1, <2>2
<1>3. N \in SUBSET Nat
  OBVIOUS
<1> HIDE DEF N
<1>4. now \in N
  BY <1>0, <1>1, <1>2, <1>3, EveryNatural
<1>5. \A end \in 1 .. now : end <= now => AllCovered(end)
  BY <1>4 DEF N
<1> QED BY <1>0, <1>5

-----------------------------------------------------------------------------
(* The decoded path and its runner-up.                                     *)

(* The entries of the last frame.                                          *)
Finals ==
    UNION {{Entry(entries[now][States[p]][r].cost, now, p, r) :
              r \in DOMAIN entries[now][States[p]]} : p \in DOMAIN States}

(* A final path names a retained path of the last frame.                   *)
LEMMA FinalForm ==
    ASSUME NEW f
    PROVE  f \in Finals <=> \E p \in DOMAIN States : \E r \in DOMAIN entries[now][States[p]] :
                              f = Entry(entries[now][States[p]][r].cost, now, p, r)
<1> DEFINE R(p) == {Entry(entries[now][States[p]][r].cost, now, p, r) :
                      r \in DOMAIN entries[now][States[p]]}
<1>1. \A p : f \in R(p) <=> \E r \in DOMAIN entries[now][States[p]] :
                              f = Entry(entries[now][States[p]][r].cost, now, p, r)
  OBVIOUS
<1>2. Finals = UNION {R(p) : p \in DOMAIN States}
  BY DEF Finals
<1> HIDE DEF R
<1>3. f \in Finals <=> \E p \in DOMAIN States : f \in R(p)
  BY <1>2
<1> QED BY <1>1, <1>3

(* The path a final path stands for.                                       *)
Chosen(f) == PathOf(now, States[f.previous], f.rank)

(* It is a path of the model and costs what the final path costs.          *)
LEMMA FinalIsPath ==
    ASSUME Decoded, now \in 1 .. now, NEW f \in Finals
    PROVE  /\ f \in EntrySet /\ f.start <= now
           /\ f.previous \in DOMAIN States /\ f.rank \in DOMAIN entries[now][States[f.previous]]
           /\ f.cost = entries[now][States[f.previous]][f.rank].cost
           /\ f = Entry(f.cost, now, f.previous, f.rank)
           /\ Chosen(f) \in [1 .. now -> StateSet] /\ PathCost(Chosen(f), now) = f.cost
           /\ Chosen(f)[now] = States[f.previous]
<1>0. PICK p \in DOMAIN States : \E r \in DOMAIN entries[now][States[p]] :
        f = Entry(entries[now][States[p]][r].cost, now, p, r)
  BY FinalForm
<1>1. PICK r \in DOMAIN entries[now][States[p]] :
        f = Entry(entries[now][States[p]][r].cost, now, p, r)
  BY <1>0
<1> DEFINE c == entries[now][States[p]][r].cost
<1>2. f = [cost |-> c, start |-> now, previous |-> p, rank |-> r]
  BY <1>1 DEF Entry
<1>3. f.cost = c /\ f.start = now /\ f.previous = p /\ f.rank = r
  <2> HIDE DEF c
  <2> QED BY <1>2
<1>4. States[p] \in StateSet /\ p \in Nat /\ now \in Nat /\ now <= now /\ now \in 1 .. Len(entries)
  BY PlacesNameStates DEF Decoded, TypeOK
<1>5. c \in Nat /\ r \in Nat
  BY <1>4, EntryType DEF Decoded, EntrySet
<1>6. f \in EntrySet
  <2> HIDE DEF c
  <2> QED BY <1>2, <1>4, <1>5 DEF EntrySet
<1>7. Sound(now, States[p], r)
  BY <1>4, RetainedAreSound DEF AllSound
<1>8. f = Entry(f.cost, now, f.previous, f.rank)
  BY <1>1, <1>3
<1> QED BY <1>3, <1>4, <1>6, <1>7, <1>8 DEF Chosen, Sound

(* Different final paths stand for different paths.                        *)
LEMMA FinalsDiffer ==
    ASSUME Decoded, now \in 1 .. now, NEW f \in Finals, NEW g \in Finals, f # g
    PROVE  Chosen(f) # Chosen(g)
<1>1. /\ f.previous \in DOMAIN States /\ g.previous \in DOMAIN States
      /\ f.rank \in DOMAIN entries[now][States[f.previous]]
      /\ g.rank \in DOMAIN entries[now][States[g.previous]]
      /\ f.cost = entries[now][States[f.previous]][f.rank].cost
      /\ g.cost = entries[now][States[g.previous]][g.rank].cost
      /\ f = Entry(f.cost, now, f.previous, f.rank)
      /\ g = Entry(g.cost, now, g.previous, g.rank)
      /\ Chosen(f)[now] = States[f.previous] /\ Chosen(g)[now] = States[g.previous]
  BY FinalIsPath
<1>2. CASE f.previous # g.previous
  <2>1. States[f.previous] # States[g.previous]
    BY <1>1, <1>2, PlacesNameStates
  <2> QED BY <1>1, <2>1
<1>3. CASE f.previous = g.previous
  <2>1. f.rank # g.rank
    BY <1>1, <1>3
  <2>2. States[f.previous] \in StateSet
    BY <1>1, PlacesNameStates
  <2>3. \E i \in 1 .. now : Chosen(f)[i] # Chosen(g)[i]
    BY <1>1, <1>3, <2>1, <2>2, RetainedAreDistinct DEF Distinct, Chosen
  <2> QED BY <2>3
<1> QED BY <1>2, <1>3

(* The final paths kept are the cheapest and the cheapest other one.       *)
LEMMA FinalPathsRetain ==
    ASSUME Decoded, now \in 1 .. now
    PROVE  Retains(FinalPaths, Finals) /\ Finals \subseteq EntrySet
<1>1. Bounded(Finals, now) /\ now \in Nat
  BY FinalIsPath DEF Bounded, Decoded, TypeOK
<1>2. FinalPaths = TopTwo(Finals)
  BY DEF FinalPaths, Finals
<1> QED BY <1>1, <1>2, TopTwoRetains DEF Bounded

(* A feasible path is a final one, or two cost no more.                    *)
LEMMA FeasibleIsFinal ==
    ASSUME Decoded, now \in 1 .. now, NEW path \in [1 .. now -> StateSet],
           PathCost(path, now) # Infinite
    PROVE  /\ PathCost(path, now) \in Nat
           /\ \/ \E f \in Finals : Chosen(f) = path
              \/ \E f, g \in Finals : /\ f # g /\ f.cost <= PathCost(path, now)
                                      /\ g.cost <= PathCost(path, now)
<1> DEFINE s == path[now]
<1>0. TypeOK /\ now \in Nat /\ now <= now /\ OfStates(path, now) /\ s \in StateSet
  BY DEF Decoded, TypeOK, OfStates
<1>1. PathCost(path, now) \in Nat
  BY <1>0, PathCostType DEF Cost
<1>2. PICK p \in DOMAIN States : States[p] = s
  BY <1>0, PlacesNameStates
<1> DEFINE f(r) == Entry(entries[now][s][r].cost, now, p, r)
<1>3. \A r \in DOMAIN entries[now][s] : f(r) \in Finals
  BY <1>2, FinalForm
<1>4. \A r : /\ f(r).cost = entries[now][s][r].cost /\ f(r).previous = p /\ f(r).rank = r
  BY DEF Entry
<1> HIDE DEF f
<1>5. Covered(path, now)
  BY <1>0, FeasibleAreCovered DEF AllCovered
<1>6. CASE Among(path, now)
  <2>1. PICK r \in DOMAIN entries[now][s] : \A i \in 1 .. now : path[i] = PathOf(now, s, r)[i]
    BY <1>6 DEF Among
  <2>2. f(r) \in Finals /\ Chosen(f(r)) = PathOf(now, s, r)
    BY <1>2, <1>3, <1>4, <2>1 DEF Chosen
  <2>3. PathOf(now, s, r) \in [1 .. now -> StateSet]
    BY <1>0, <2>1, RetainedAreSound DEF AllSound, Sound
  <2>4. PathOf(now, s, r) = path
    <3> DEFINE q == PathOf(now, s, r)
    <3>1. q \in [1 .. now -> StateSet] /\ \A i \in 1 .. now : path[i] = q[i]
      BY <2>1, <2>3
    <3> HIDE DEF q
    <3>2. q = path
      BY <3>1
    <3> QED BY <3>2 DEF q
  <2> QED BY <1>1, <2>2, <2>4
<1>7. CASE TwoWithin(now, s, PathCost(path, now))
  <2>1. /\ 1 \in DOMAIN entries[now][s] /\ 2 \in DOMAIN entries[now][s]
        /\ f(1).cost <= PathCost(path, now) /\ f(2).cost <= PathCost(path, now)
    BY <1>4, <1>7 DEF TwoWithin
  <2>2. f(1) # f(2)
    BY <1>4
  <2> QED BY <1>1, <1>3, <2>1, <2>2
<1> QED BY <1>5, <1>6, <1>7 DEF Covered

(* The result is what DecodeIsExact says of it.                            *)
LEMMA ResultIsExact ==
    ASSUME Decoded, now \in 1 .. now, result = Result
    PROVE  IF \A p \in [1 .. now -> StateSet] : PathCost(p, now) = Infinite
           THEN result.path = [i \in 1 .. now |-> "UNKNOWN"] /\ result.score = Infinite
           ELSE /\ result.path \in [1 .. now -> StateSet]
                /\ PathCost(result.path, now) = result.score
                /\ \A p \in [1 .. now -> StateSet] : NoCheaper(p, result.score)
                /\ IF result.runnerUp = Infinite
                   THEN \A p \in [1 .. now -> StateSet] \ {result.path} :
                            PathCost(p, now) = Infinite
                   ELSE /\ \E p \in [1 .. now -> StateSet] \ {result.path} :
                             PathCost(p, now) = result.runnerUp
                        /\ \A p \in [1 .. now -> StateSet] \ {result.path} :
                             NoCheaper(p, result.runnerUp)
<1> DEFINE t == FinalPaths
           paths == [1 .. now -> StateSet]
<1>1. /\ t \in Seq(EntrySet)
      /\ \A r \in DOMAIN t : t[r] \in Finals
      /\ \A q, r \in DOMAIN t : q # r => t[q] # t[r]
      /\ Finals # {} => 1 \in DOMAIN t /\ \A f \in Finals : t[1].cost <= f.cost
      /\ \A f \in Finals : f # t[1] => 2 \in DOMAIN t /\ t[2].cost <= f.cost
  BY FinalPathsRetain DEF Retains
<1>2. \A f \in Finals : f.cost \in Nat /\ Chosen(f) \in paths /\ PathCost(Chosen(f), now) = f.cost
  BY FinalIsPath DEF EntrySet
<1>3. Infinite \notin Nat
  BY DEF Infinite
<1>4. CASE Finals = {}
  <2>1. t = << >>
    BY <1>4 DEF FinalPaths, Finals, TopTwo
  <2>2. \A p \in paths : PathCost(p, now) = Infinite
    BY <1>4, FeasibleIsFinal
  <2>3. result = [NoResult EXCEPT !.path = [i \in 1 .. now |-> "UNKNOWN"]]
    BY <2>1 DEF Result
  <2> DEFINE u == [i \in 1 .. now |-> "UNKNOWN"]
  <2> HIDE DEF u
  <2>4. [NoResult EXCEPT !.path = u].path = u /\ [NoResult EXCEPT !.path = u].score = Infinite
    BY DEF NoResult
  <2>5. result.path = u /\ result.score = Infinite
    BY <2>3, <2>4 DEF u
  <2> QED BY <2>2, <2>5 DEF u
<1>5. CASE Finals # {}
  <2>1. 1 \in DOMAIN t /\ t[1] \in Finals /\ \A f \in Finals : t[1].cost <= f.cost
    BY <1>1, <1>5
  <2>2. t # << >> /\ (Len(t) > 1 <=> 2 \in DOMAIN t)
    <3>1. DOMAIN t = 1 .. Len(t) /\ Len(t) \in Nat
      BY <1>1, LenProperties
    <3>2. t = << >> => Len(t) = 0
      OBVIOUS
    <3> HIDE DEF t
    <3>3. t # << >>
      BY <2>1, <3>1, <3>2
    <3>4. Len(t) > 1 <=> 2 \in 1 .. Len(t)
      BY <3>1
    <3> QED BY <3>1, <3>3, <3>4
  <2> DEFINE best == Chosen(t[1])
  <2>3. /\ result.path = best /\ result.score = t[1].cost
        /\ result.runnerUp = IF 2 \in DOMAIN t THEN t[2].cost ELSE Infinite
    BY <2>2 DEF Result, Traceback, Chosen, PathOf
  <2>4. best \in paths /\ PathCost(best, now) = t[1].cost /\ t[1].cost \in Nat
    BY <1>2, <2>1
  <2> HIDE DEF t, best
  <2>5. ASSUME NEW p \in paths, PathCost(p, now) # Infinite
        PROVE  /\ PathCost(p, now) \in Nat /\ PathCost(p, now) >= t[1].cost
               /\ p # best => /\ 2 \in DOMAIN t /\ t[2] \in Finals
                              /\ PathCost(p, now) >= t[2].cost
    <3> DEFINE c == PathCost(p, now)
    <3>1. c \in Nat
      BY <2>5, FeasibleIsFinal
    <3>2. CASE \E f \in Finals : Chosen(f) = p
      <4>1. PICK f \in Finals : Chosen(f) = p
        BY <3>2
      <4>2. f.cost = c /\ t[1].cost <= c
        BY <1>2, <2>1, <4>1
      <4>3. p # best => f # t[1]
        BY <4>1 DEF best
      <4>4. p # best => 2 \in DOMAIN t /\ t[2].cost <= c
        BY <1>1, <4>2, <4>3 DEF t
      <4>5. p # best => t[2] \in Finals
        BY <1>1, <4>4 DEF t
      <4>6. p # best => t[2].cost \in Nat
        BY <1>2, <4>5
      <4> HIDE DEF c
      <4>7. c >= t[1].cost /\ (p # best => c >= t[2].cost)
        BY <2>4, <3>1, <4>2, <4>4, <4>6
      <4> QED BY <3>1, <4>4, <4>5, <4>7 DEF c
    <3>3. CASE \E f, g \in Finals : f # g /\ f.cost <= c /\ g.cost <= c
      <4>1. PICK f \in Finals, g \in Finals : f # g /\ f.cost <= c /\ g.cost <= c
        BY <3>3
      <4>2. /\ 1 \in DOMAIN t /\ 2 \in DOMAIN t /\ t[1].cost <= c /\ t[2].cost <= c
        <5>1. Retains(t, Finals) /\ Finals \subseteq EntrySet
          BY FinalPathsRetain DEF t
        <5> HIDE DEF c
        <5> QED BY <3>1, <4>1, <5>1, TwoRetained
      <4>3. t[2] \in Finals
        BY <1>1, <4>2 DEF t
      <4>4. t[2].cost \in Nat
        BY <1>2, <4>3
      <4> HIDE DEF c
      <4>5. c >= t[1].cost /\ c >= t[2].cost
        BY <2>4, <3>1, <4>2, <4>4
      <4> QED BY <3>1, <4>2, <4>3, <4>5 DEF c
    <3> QED BY <2>5, <3>2, <3>3, FeasibleIsFinal
  <2>6. ~\A p \in paths : PathCost(p, now) = Infinite
    BY <1>3, <2>4
  <2>7. \A p \in paths : NoCheaper(p, result.score)
    BY <2>3, <2>5 DEF NoCheaper
  <2>8. CASE 2 \in DOMAIN t
    <3>1. t[2] \in Finals /\ t[2] # t[1]
      BY <1>1, <2>1, <2>8 DEF t
    <3> DEFINE other == Chosen(t[2])
    <3>2. other \in paths /\ PathCost(other, now) = t[2].cost /\ t[2].cost \in Nat
      BY <1>2, <3>1
    <3>3. other # best
      BY <2>1, <3>1, FinalsDiffer DEF best
    <3>4. result.runnerUp = t[2].cost /\ result.runnerUp # Infinite
      BY <1>3, <2>3, <2>8, <3>2
    <3> HIDE DEF other
    <3>5. \E p \in paths \ {result.path} : PathCost(p, now) = result.runnerUp
      BY <2>3, <3>2, <3>3, <3>4
    <3>6. \A p \in paths \ {result.path} : NoCheaper(p, result.runnerUp)
      BY <2>3, <2>5, <3>4 DEF NoCheaper
    <3> QED BY <2>3, <2>4, <2>6, <2>7, <3>4, <3>5, <3>6
  <2>9. CASE 2 \notin DOMAIN t
    <3>1. result.runnerUp = Infinite
      BY <2>3, <2>9
    <3>2. \A p \in paths \ {result.path} : PathCost(p, now) = Infinite
      BY <2>3, <2>5, <2>9
    <3> QED BY <2>3, <2>4, <2>6, <2>7, <3>1, <3>2
  <2> QED BY <2>8, <2>9
<1> QED BY <1>4, <1>5

-----------------------------------------------------------------------------
(* The events of the decoded path.                                         *)

(* The last frame of the run of a state that goes on at frame i of n.      *)
RunEnd(path, i, n) ==
    CHOOSE j \in i .. n : /\ \A m \in i .. j : path[m] = path[i]
                          /\ j = n \/ path[j + 1] # path[j]

(* The run ends somewhere.                                                 *)
LEMMA RunEndIs ==
    ASSUME NEW n \in Nat, NEW path, NEW i \in 1 .. n
    PROVE  /\ RunEnd(path, i, n) \in i .. n
           /\ \A m \in i .. RunEnd(path, i, n) : path[m] = path[i]
           /\ \/ RunEnd(path, i, n) = n
              \/ path[RunEnd(path, i, n) + 1] # path[RunEnd(path, i, n)]
<1> DEFINE K == {d \in Nat : d <= n - i /\ \A m \in i .. n - d : path[m] = path[i]}
<1>1. n - i \in K
  <2>1. n - i \in Nat /\ n - i <= n - i /\ \A m \in i .. n - (n - i) : m = i
    OBVIOUS
  <2> QED BY <2>1
<1>2. PICK d \in K : \A u \in K : d <= u
  <2>1. K \in SUBSET Nat /\ K # {}
    BY <1>1
  <2> HIDE DEF K
  <2> QED BY <2>1, LeastNatural
<1> DEFINE j == n - d
<1>3. d \in Nat /\ j \in i .. n /\ j \in i .. j /\ \A m \in i .. j : path[m] = path[i]
  BY <1>2
<1>4. ASSUME d # 0 PROVE path[j + 1] # path[j]
  <2>1. SUFFICES ASSUME path[j + 1] = path[j] PROVE FALSE
    OBVIOUS
  <2>2. /\ d - 1 \in Nat /\ d - 1 <= n - i /\ ~(d <= d - 1)
        /\ \A m \in i .. n - (d - 1) : m = j + 1 \/ m \in i .. j
    BY <1>2, <1>4
  <2>3. \A m \in i .. n - (d - 1) : path[m] = path[i]
    BY <1>3, <2>1, <2>2
  <2>4. d - 1 \in K
    BY <2>2, <2>3
  <2> QED BY <1>2, <2>2, <2>4
<1>5. d = 0 => j = n
  OBVIOUS
<1> HIDE DEF j
<1>6. \E e \in i .. n : /\ \A m \in i .. e : path[m] = path[i]
                        /\ e = n \/ path[e + 1] # path[e]
  BY <1>3, <1>4, <1>5
<1> QED BY <1>6 DEF RunEnd

(* Every emission is a prediction for its frame.                           *)
Predicted == \A i \in 1 .. now : emissions[i] \in Predictions(frames[i])

(* A change of state on a feasible path is between two held states.        *)
LEMMA ChangeIsHeld ==
    ASSUME TypeOK, Predicted, NEW i \in 1 .. now, i - 1 \in 1 .. now,
           OfStates(result.path, now), PathCost(result.path, now) # Infinite,
           result.path[i - 1] # result.path[i]
    PROVE  /\ \E a \in 1 .. i - 1 : Held(a, i - 1)
           /\ \E j \in i .. now : Held(i, j)
<1> DEFINE P == result.path
           h == i - 1
<1>0. /\ now \in Nat /\ i \in Nat \ {0} /\ h \in Nat \ {0} /\ h + 1 = i /\ h # now /\ now <= now
      /\ h \in 1 .. now /\ h < i
  BY DEF TypeOK
<1>1. ASSUME NEW m \in 1 .. now
      PROVE  /\ emissions[m][P[m]] # Infinite /\ P[m] \in StateSet
             /\ m = now \/ P[m + 1] # P[m] => m - RunStart(P, m) >= Minimum[P[m]]
  BY <1>0, PathCostType DEF OfStates
<1>2. ASSUME NEW m \in 1 .. now PROVE frames[m] \/ P[m] = "UNKNOWN"
  <2>1. SUFFICES ASSUME ~frames[m], P[m] # "UNKNOWN" PROVE FALSE
    OBVIOUS
  <2>2. emissions[m] \in Predictions(frames[m])
    BY DEF Predicted
  <2>3. emissions[m] = Abstained
    BY <2>1, <2>2 DEF Predictions
  <2> QED BY <1>1, <2>1, <2>3 DEF Abstained
<1> HIDE DEF P, h
<1>3. P[h] # P[i]
  BY DEF P, h
<1>4. \E a \in 1 .. h : Held(a, h)
  <2> DEFINE k == RunStart(P, h)
             a == k + 1
  <2>1. k \in 0 .. h - 1 /\ \A m \in k + 1 .. h : P[m] = P[h]
    BY <1>0, RunStartIs
  <2>2. h - k >= Minimum[P[h]]
    BY <1>0, <1>1, <1>3
  <2>3. a \in 1 .. h /\ a \in a .. h /\ h - a + 1 = h - k /\ \A m \in a .. h : m \in 1 .. now
    BY <1>0, <2>1
  <2>4. P[a] = P[h] /\ \A m \in a .. h : P[m] = P[a]
    BY <2>1, <2>3
  <2> HIDE DEF k, a
  <2>5. P[a] = "UNKNOWN" \/ \A m \in a .. h : frames[m]
    BY <1>2, <2>3, <2>4
  <2>6. h - a + 1 >= Minimum[P[a]]
    BY <2>2, <2>3, <2>4
  <2>7. Held(a, h)
    BY <2>4, <2>5, <2>6 DEF Held, P
  <2> QED BY <2>3, <2>7
<1>5. \E j \in i .. now : Held(i, j)
  <2> DEFINE j == RunEnd(P, i, now)
  <2>1. j \in i .. now /\ \A m \in i .. j : P[m] = P[i]
    BY <1>0, RunEndIs
  <2>0. j = now \/ P[j + 1] # P[j]
    BY <1>0, RunEndIs
  <2> HIDE DEF j
  <2>2. /\ j \in 1 .. now /\ j \in Nat \ {0} /\ j \in i .. j /\ h < j /\ j - h = j - i + 1
        /\ \A m \in i .. j : m \in 1 .. now
        /\ \A m \in h + 1 .. j : m \in i .. j
    BY <1>0, <2>1
  <2>3. P[j] = P[i]
    BY <2>1, <2>2
  <2>4. \A m \in h + 1 .. j : P[m] = P[j]
    BY <2>1, <2>2, <2>3
  <2>5. h = 0 \/ P[h] # P[j]
    BY <1>3, <2>3
  <2>6. RunStart(P, j) = h
    BY <1>0, <2>2, <2>4, <2>5, RunStartOnly
  <2>7. j - h >= Minimum[P[j]]
    BY <1>1, <2>0, <2>2, <2>6
  <2>8. P[i] = "UNKNOWN" \/ \A m \in i .. j : frames[m]
    BY <1>2, <2>1, <2>2
  <2>9. Held(i, j)
    BY <2>1, <2>2, <2>3, <2>7, <2>8 DEF Held, P
  <2> QED BY <2>1, <2>9
<1> QED BY <1>4, <1>5 DEF h

(* An event other than a collision marks a change of state.                *)
LEMMA EventsChange ==
    ASSUME NEW was, NEW is, NEW name \in EventsOf(was, is), name # "COLLISION_OR_STEP_CANDIDATE"
    PROVE  was # is
BY DEF EventsOf

(* What EventsFollowDwells says of the result.                             *)
LEMMA ResultEvents ==
    ASSUME Decoded, Predicted, now \in 1 .. now, result = Result, NEW x \in Events
    PROVE  /\ frames[x[2]]
           /\ x[1] # "COLLISION_OR_STEP_CANDIDATE" =>
                /\ \E i \in 1 .. x[2] - 1 : Held(i, x[2] - 1)
                /\ \E j \in x[2] .. now : Held(x[2], j)
<1> DEFINE P == result.path
<1>0. now \in Nat /\ TypeOK
  BY DEF Decoded, TypeOK
<1>1. PICK i \in DOMAIN P : /\ frames[i]
                            /\ x \in EventsOf(P[IF i = 1 THEN 1 ELSE i - 1], P[i]) \X {i}
  BY DEF Events
<1>2. x[2] = i /\ x[1] \in EventsOf(P[IF i = 1 THEN 1 ELSE i - 1], P[i])
  BY <1>1
<1>3. ASSUME x[1] # "COLLISION_OR_STEP_CANDIDATE"
      PROVE  /\ \E a \in 1 .. i - 1 : Held(a, i - 1)
             /\ \E j \in i .. now : Held(i, j)
  <2>1. P[IF i = 1 THEN 1 ELSE i - 1] # P[i]
    BY <1>2, <1>3, EventsChange
  <2>2. i # 1 /\ P[i - 1] # P[i]
    BY <2>1
  <2>3. CASE \A p \in [1 .. now -> StateSet] : PathCost(p, now) = Infinite
    <3>1. P = [m \in 1 .. now |-> "UNKNOWN"]
      BY <2>3, ResultIsExact
    <3> HIDE DEF P
    <3>2. i \in 1 .. now /\ i - 1 \in 1 .. now
      BY <1>0, <2>2, <3>1
    <3>3. P[i] = "UNKNOWN" /\ P[i - 1] = "UNKNOWN"
      BY <3>1, <3>2
    <3> QED BY <2>2, <3>3
  <2>4. CASE ~\A p \in [1 .. now -> StateSet] : PathCost(p, now) = Infinite
    <3>1. /\ P \in [1 .. now -> StateSet]
          /\ \A p \in [1 .. now -> StateSet] : NoCheaper(p, result.score)
          /\ PathCost(P, now) = result.score
      BY <2>4, ResultIsExact
    <3>2. PathCost(P, now) # Infinite
      <4>1. SUFFICES ASSUME PathCost(P, now) = Infinite PROVE FALSE
        OBVIOUS
      <4>2. Finals # {}
        <5>1. PICK p \in [1 .. now -> StateSet] : PathCost(p, now) # Infinite
          BY <2>4
        <5> QED BY <5>1, FeasibleIsFinal
      <4>3. 1 \in DOMAIN FinalPaths /\ FinalPaths[1] \in Finals /\ FinalPaths \in Seq(EntrySet)
        BY <4>2, FinalPathsRetain DEF Retains
      <4>4. FinalPaths # << >>
        <5>1. FinalPaths = << >> => DOMAIN FinalPaths = {}
          BY EmptySeq
        <5> QED BY <4>3, <5>1
      <4>5. result.score = FinalPaths[1].cost
        BY <4>4 DEF Result
      <4>6. FinalPaths[1].cost \in Nat
        BY <4>3, FinalIsPath DEF EntrySet
      <4>7. Infinite \notin Nat
        BY DEF Infinite
      <4> HIDE DEF P
      <4> QED BY <3>1, <4>1, <4>5, <4>6, <4>7
    <3>3. OfStates(P, now) /\ i \in 1 .. now
      BY <3>1 DEF OfStates
    <3>4. i - 1 \in 1 .. now
      BY <1>0, <2>2, <3>3
    <3> QED BY <1>0, <2>2, <3>2, <3>3, <3>4, ChangeIsHeld
  <2> QED BY <2>3, <2>4
<1> QED BY <1>1, <1>2, <1>3

-----------------------------------------------------------------------------
(* The invariant: what the steps keep.                                     *)

(* Samples are of the past, and no frame would be different now.           *)
Causal ==
    /\ \A i \in 1 .. Len(samples) : samples[i].t <= now
    /\ \A i \in 1 .. now : frames[i] = QualityOk(samples, i)

Kept ==
    /\ Predicted /\ Causal
    /\ \A end \in 1 .. Len(entries) : entries[end] = Column(end)
    /\ pc = "observe" => Len(entries) = 0
    /\ pc # "observe" => now # 0
    /\ pc = "done" => Len(entries) = now /\ result = Result

IInv == TypeOK /\ Kept

(* The first and the last member of a prolonged sequence.                  *)
LEMMA AppendIs ==
    ASSUME NEW S, NEW q \in Seq(S), NEW x \in S
    PROVE  /\ Append(q, x) \in Seq(S) /\ Len(q) \in Nat
           /\ Len(Append(q, x)) = Len(q) + 1
           /\ \A i \in 1 .. Len(q) : Append(q, x)[i] = q[i]
           /\ Append(q, x)[Len(q) + 1] = x
BY AppendProperties, LenProperties

(* Predictions are costs of all states.                                    *)
LEMMA PredictionsType ==
    ASSUME NEW ok
    PROVE  Predictions(ok) \subseteq [StateSet -> Cost]
<1>1. 0 \in Cost /\ Infinite \in Cost /\ OtherCost \in Cost /\ UnknownFloor \in Cost
  BY RecognizerAssumption DEF Cost
<1>2. Abstained \in [StateSet -> Cost]
  BY <1>1 DEF Abstained
<1>3. \A best : Likely(best) \in [StateSet -> Cost]
  BY <1>1 DEF Likely
<1> QED BY <1>2, <1>3 DEF Predictions

(* A new sample, later than the end of a frame, is not in its windows.     *)
LEMMA LaterIsOutside ==
    ASSUME NEW q \in Seq(Sample), NEW x \in Sample, NEW end \in Nat, x.t > end
    PROVE  QualityOk(Append(q, x), end) = QualityOk(q, end)
<1> DEFINE a == Append(q, x)
           n == Len(q)
<1>1. /\ a \in Seq(Sample) /\ n \in Nat /\ Len(a) = n + 1 /\ a[n + 1] = x
      /\ \A i \in 1 .. n : a[i] = q[i]
  BY AppendIs
<1>2. DOMAIN q = 1 .. n /\ DOMAIN a = 1 .. n + 1
  BY <1>1, LenProperties
<1>3. x.t \in Nat /\ ~(x.t <= end)
  BY DEF Sample
<1> HIDE DEF a, n
<1>4. ASSUME NEW width PROVE CausalWindow(a, end, width) = CausalWindow(q, end, width)
  <2>1. n + 1 \notin CausalWindow(a, end, width)
    BY <1>1, <1>3 DEF CausalWindow
  <2>2. \A i \in 1 .. n + 1 : i = n + 1 \/ i \in 1 .. n
    BY <1>1
  <2>3. \A i \in 1 .. n : i \in 1 .. n + 1
    BY <1>1
  <2> QED BY <1>1, <1>2, <2>1, <2>2, <2>3 DEF CausalWindow
<1>5. ASSUME NEW width, NEW i \in CausalWindow(q, end, width) PROVE a[i] = q[i]
  BY <1>1, <1>2, <1>5 DEF CausalWindow
<1> DEFINE ca(w) == CausalWindow(a, end, w)
           cq(w) == CausalWindow(q, end, w)
<1>6. \A w : ca(w) = cq(w) /\ \A i \in cq(w) : a[i] = q[i]
  BY <1>4, <1>5
<1>7. /\ QualityOk(a, end) = (/\ AtLeastTwo(ca(Widest))
                              /\ \A i \in ca(Widest) : i + 1 \in ca(Widest) =>
                                   a[i + 1].seq = a[i].seq + 1 /\ a[i].t < a[i + 1].t
                              /\ \A w \in Windows : /\ AtLeastTwo(ca(w))
                                                    /\ \A i \in ca(w) : a[i].ok)
      /\ QualityOk(q, end) = (/\ AtLeastTwo(cq(Widest))
                              /\ \A i \in cq(Widest) : i + 1 \in cq(Widest) =>
                                   q[i + 1].seq = q[i].seq + 1 /\ q[i].t < q[i + 1].t
                              /\ \A w \in Windows : /\ AtLeastTwo(cq(w))
                                                    /\ \A i \in cq(w) : q[i].ok)
  BY DEF QualityOk
<1> HIDE DEF ca, cq
<1>8. QualityOk(a, end) <=> QualityOk(q, end)
  BY <1>6, <1>7
<1>9. QualityOk(a, end) \in BOOLEAN /\ QualityOk(q, end) \in BOOLEAN
  BY <1>7
<1> QED BY <1>8, <1>9 DEF a

(* A column does not depend on the ones from it on.                        *)
LEMMA ColumnKept ==
    ASSUME NEW end \in Nat, UNCHANGED <<now, emissions>>,
           \A start \in 1 .. end - 1 : entries'[start] = entries[start]
    PROVE  Column(end)' = Column(end)
<1>1. ASSUME NEW s, NEW start PROVE SegmentCost(s, start, end)' = SegmentCost(s, start, end)
  BY DEF SegmentCost
<1>2. ASSUME NEW s PROVE Candidates(s, end)' = Candidates(s, end)
  <2>1. First(s, end)' = First(s, end)
    BY <1>1 DEF First
  <2> DEFINE P == {q \in DOMAIN States : States[q] # s}
             R(start, p) ==
                {Continued(s, end, start, p, r) : r \in DOMAIN entries[start][States[p]]}
             U == UNION {R(start, p) : start \in 1 .. end - 1, p \in P}
  <2>2. Candidates(s, end) = {e \in {First(s, end)} \cup U : e.cost # Infinite}
    BY DEF Candidates
  <2>3. Candidates(s, end)' = {e \in {First(s, end)'} \cup U' : e.cost # Infinite}
    BY DEF Candidates
  <2>4. ASSUME NEW start \in 1 .. end - 1, NEW p PROVE R(start, p)' = R(start, p)
    <3>1. entries'[start] = entries[start]
      OBVIOUS
    <3>2. \A r : Continued(s, end, start, p, r)' = Continued(s, end, start, p, r)
      BY <1>1, <3>1 DEF Continued
    <3>3. R(start, p)' = {Continued(s, end, start, p, r)' : r \in DOMAIN entries'[start][States[p]]}
      OBVIOUS
    <3> QED BY <3>1, <3>2, <3>3
  <2>5. U' = UNION {R(start, p)' : start \in 1 .. end - 1, p \in P}
    OBVIOUS
  <2> HIDE DEF R, P
  <2>6. U' = U
    BY <2>4, <2>5
  <2> HIDE DEF U
  <2> QED BY <2>1, <2>2, <2>3, <2>6
<1>3. ASSUME NEW s PROVE TopTwo(Candidates(s, end))' = TopTwo(Candidates(s, end))
  BY <1>2
<1> QED BY <1>3 DEF Column

(* A frame that is observed keeps the invariant.                           *)
LEMMA ObserveKeeps ==
    ASSUME IInv, Observe
    PROVE  IInv'
<1>0. /\ now \in Nat /\ samples \in Seq(Sample) /\ frames \in Seq(BOOLEAN) /\ Len(frames) = now
      /\ emissions \in Seq([StateSet -> Cost]) /\ Len(emissions) = now
      /\ entries \in Seq([StateSet -> Seq(EntrySet)]) /\ Len(entries) = 0 /\ pc = "observe"
  BY DEF IInv, TypeOK, Kept, Observe
<1>1. /\ now' = now + 1 /\ pc' = "observe" /\ entries' = entries /\ result' = result
  BY <1>0 DEF Observe
<1> DEFINE ok == QualityOk(samples', now + 1)
<1>2. frames' = Append(frames, ok)
  BY DEF Observe
<1>3. PICK costs \in Predictions(ok) : emissions' = Append(emissions, costs)
  BY DEF Observe
<1>4. PICK how \in {"valid", "invalid", "lost"} :
        samples' = IF how = "lost" THEN samples
                   ELSE Append(samples, [seq |-> now + 1, t |-> now + 1, ok |-> how = "valid"])
  BY DEF Observe
<1> DEFINE x == [seq |-> now + 1, t |-> now + 1, ok |-> how = "valid"]
<1>5. x \in Sample /\ x.t = now + 1
  BY <1>0 DEF Sample
<1>6. samples' = samples \/ samples' = Append(samples, x)
  BY <1>4
<1>7. ok \in BOOLEAN
  BY DEF QualityOk
<1> HIDE DEF ok, x
<1>8. costs \in [StateSet -> Cost]
  BY <1>3, PredictionsType
<1>9. /\ frames' \in Seq(BOOLEAN) /\ Len(frames') = now + 1
      /\ \A i \in 1 .. now : frames'[i] = frames[i]
      /\ frames'[now + 1] = ok
  BY <1>0, <1>2, <1>7, AppendIs
<1>10. /\ emissions' \in Seq([StateSet -> Cost]) /\ Len(emissions') = now + 1
       /\ \A i \in 1 .. now : emissions'[i] = emissions[i]
       /\ emissions'[now + 1] = costs
  BY <1>0, <1>3, <1>8, AppendIs
<1>11. samples' \in Seq(Sample)
  BY <1>0, <1>5, <1>6, AppendIs
<1>12. TypeOK'
  BY <1>0, <1>1, <1>9, <1>10, <1>11 DEF TypeOK
<1>13. \A i \in 1 .. now + 1 : i = now + 1 \/ i \in 1 .. now
  BY <1>0
<1>14. Predicted'
  <2>1. \A i \in 1 .. now + 1 : emissions'[i] \in Predictions(frames'[i])
    BY <1>3, <1>9, <1>10, <1>13 DEF IInv, Kept, Predicted
  <2> QED BY <1>1, <2>1 DEF Predicted
<1>15. \A i \in 1 .. Len(samples') : samples'[i].t <= now + 1
  <2>1. \A i \in 1 .. Len(samples) : samples[i].t \in Nat /\ samples[i].t <= now
    <3>1. \A i \in 1 .. Len(samples) : samples[i] \in Sample /\ samples[i].t <= now
      BY <1>0, ElementOfSeq DEF IInv, Kept, Causal
    <3> QED BY <3>1 DEF Sample
  <2>2. \A i \in 1 .. Len(samples) : samples[i].t <= now + 1
    BY <1>0, <2>1
  <2>3. CASE samples' = samples
    BY <2>2, <2>3
  <2>4. CASE samples' = Append(samples, x)
    <3>1. /\ Len(samples) \in Nat /\ Len(samples') = Len(samples) + 1
          /\ \A i \in 1 .. Len(samples) : samples'[i] = samples[i]
          /\ samples'[Len(samples) + 1] = x
      BY <1>0, <1>5, <2>4, AppendIs
    <3> DEFINE n == Len(samples)
    <3> HIDE DEF n
    <3>2. \A i \in 1 .. n + 1 : i = n + 1 \/ i \in 1 .. n
      BY <3>1 DEF n
    <3>3. now + 1 <= now + 1
      BY <1>0
    <3> QED BY <1>5, <2>2, <3>1, <3>2, <3>3 DEF n
  <2> QED BY <1>6, <2>3, <2>4
<1>16. \A i \in 1 .. now + 1 : frames'[i] = QualityOk(samples', i)
  <2>1. ASSUME NEW i \in 1 .. now PROVE frames'[i] = QualityOk(samples', i)
    <3>1. frames'[i] = QualityOk(samples, i) /\ i \in Nat /\ now + 1 > i
      BY <1>0, <1>9 DEF IInv, Kept, Causal
    <3>2. CASE samples' = samples
      BY <3>1, <3>2
    <3>3. CASE samples' = Append(samples, x)
      BY <1>0, <1>5, <3>1, <3>3, LaterIsOutside
    <3> QED BY <1>6, <3>2, <3>3
  <2>2. frames'[now + 1] = QualityOk(samples', now + 1)
    BY <1>9 DEF ok
  <2> QED BY <1>13, <2>1, <2>2
<1>17. Causal'
  BY <1>1, <1>15, <1>16 DEF Causal
<1>18. Kept'
  <2>1. 1 .. Len(entries') = {}
    BY <1>0, <1>1
  <2> QED BY <1>0, <1>1, <1>14, <1>17, <2>1 DEF Kept
<1> QED BY <1>12, <1>18 DEF IInv

(* The end of the observation keeps it.                                    *)
LEMMA EndObservationKeeps ==
    ASSUME IInv, EndObservation
    PROVE  IInv'
<1>1. TypeOK'
  BY DEF IInv, TypeOK, EndObservation
<1>2. Predicted' /\ Causal'
  BY DEF IInv, Kept, Predicted, Causal, EndObservation
<1>3. 1 .. Len(entries') = {} /\ now' # 0 /\ pc' = "decode"
  BY DEF IInv, TypeOK, Kept, EndObservation
<1> QED BY <1>1, <1>2, <1>3 DEF IInv, Kept

(* A frame that is decoded keeps it: the earlier columns stand.            *)
LEMMA DecodeFrameKeeps ==
    ASSUME IInv, DecodeFrame
    PROVE  IInv'
<1> DEFINE n == Len(entries)
<1>0. /\ TypeOK /\ now \in Nat /\ n \in Nat /\ n < now /\ pc = "decode"
      /\ entries \in Seq([StateSet -> Seq(EntrySet)])
  BY DEF IInv, TypeOK, DecodeFrame
<1>1. /\ entries' = Append(entries, Column(n + 1))
      /\ UNCHANGED <<pc, now, samples, frames, emissions, result>>
  BY DEF DecodeFrame
<1>2. Column(n + 1) \in [StateSet -> Seq(EntrySet)]
  <2>1. n + 1 \in 1 .. now /\ n + 1 <= Len(entries) + 1
    BY <1>0
  <2> QED BY <1>0, <2>1, ColumnRetains
<1>3. /\ entries' \in Seq([StateSet -> Seq(EntrySet)]) /\ Len(entries') = n + 1
      /\ \A i \in 1 .. n : entries'[i] = entries[i]
      /\ entries'[n + 1] = Column(n + 1)
  BY <1>0, <1>1, <1>2, AppendIs
<1> HIDE DEF n
<1>4. TypeOK'
  BY <1>0, <1>1, <1>3 DEF TypeOK
<1>5. Predicted' /\ Causal'
  BY <1>1 DEF IInv, Kept, Predicted, Causal
<1>6. ASSUME NEW end \in 1 .. n + 1 PROVE entries'[end] = Column(end)'
  <2>1. end \in Nat /\ \A start \in 1 .. end - 1 : start \in 1 .. n
    BY <1>0
  <2>2. Column(end)' = Column(end)
    BY <1>1, <1>3, <2>1, ColumnKept
  <2>3. CASE end = n + 1
    BY <1>3, <2>2, <2>3
  <2>4. CASE end # n + 1
    <3>1. end \in 1 .. n
      BY <1>0, <2>4
    <3> QED BY <1>3, <2>2, <3>1 DEF IInv, Kept, n
  <2> QED BY <2>3, <2>4
<1>7. pc' = "decode" /\ now' # 0
  BY <1>0, <1>1
<1>8. Kept'
  BY <1>3, <1>5, <1>6, <1>7 DEF Kept
<1> QED BY <1>4, <1>8 DEF IInv

(* The result keeps it.                                                    *)
LEMMA ConcludeKeeps ==
    ASSUME IInv, Conclude
    PROVE  IInv'
<1>1. /\ UNCHANGED <<now, samples, frames, emissions, entries>> /\ pc' = "done"
      /\ result' = Result /\ Len(entries) = now /\ pc = "decode"
  BY DEF Conclude
<1>2. TypeOK'
  BY <1>1 DEF IInv, TypeOK
<1>3. Predicted' /\ Causal'
  BY <1>1 DEF IInv, Kept, Predicted, Causal
<1>0. entries' = entries /\ now' = now
  BY <1>1
<1>4. Result' = Result
  BY <1>0 DEF Result, FinalPaths, Traceback, RetainedPaths
<1>5. ASSUME NEW end \in 1 .. Len(entries') PROVE entries'[end] = Column(end)'
  <2>1. end \in Nat /\ Len(entries') = Len(entries)
    BY <1>1
  <2>2. Column(end)' = Column(end)
    BY <1>1, <2>1, ColumnKept
  <2> QED BY <1>1, <2>2 DEF IInv, Kept
<1>6. now' # 0
  BY <1>1 DEF IInv, Kept
<1>7. Kept'
  BY <1>1, <1>3, <1>4, <1>5, <1>6 DEF Kept
<1> QED BY <1>2, <1>7 DEF IInv

(* A step that changes nothing keeps it.                                   *)
LEMMA StutterKeeps ==
    ASSUME IInv, UNCHANGED vars
    PROVE  IInv'
<1>1. UNCHANGED <<pc, now, samples, frames, emissions, entries, result>>
  BY DEF vars
<1>2. TypeOK'
  BY <1>1 DEF IInv, TypeOK
<1>3. Predicted' /\ Causal'
  BY <1>1 DEF IInv, Kept, Predicted, Causal
<1>4. Result' = Result
  BY <1>1 DEF Result, FinalPaths, Traceback, RetainedPaths
<1>5. ASSUME NEW end \in 1 .. Len(entries') PROVE entries'[end] = Column(end)'
  <2>1. end \in Nat /\ Len(entries') = Len(entries)
    BY <1>1
  <2>2. Column(end)' = Column(end)
    BY <1>1, <2>1, ColumnKept
  <2> QED BY <1>1, <2>2 DEF IInv, Kept
<1>6. Kept'
  BY <1>1, <1>3, <1>4, <1>5 DEF IInv, Kept
<1> QED BY <1>2, <1>6 DEF IInv

(* Nothing has been observed at first.                                     *)
LEMMA InitKeeps ==
    ASSUME Init
    PROVE  IInv
<1> DEFINE nothing == << >>
<1>1. /\ nothing \in Seq(Sample) /\ nothing \in Seq(BOOLEAN) /\ nothing \in Seq([StateSet -> Cost])
      /\ nothing \in Seq([StateSet -> Seq(EntrySet)]) /\ Len(nothing) = 0
  BY EmptySeq
<1>2. samples = nothing /\ frames = nothing /\ emissions = nothing /\ entries = nothing
      /\ now = 0 /\ pc = "observe"
  BY DEF Init
<1> HIDE DEF nothing
<1>3. TypeOK
  BY <1>1, <1>2 DEF TypeOK
<1>4. 1 .. 0 = {}
  OBVIOUS
<1>5. Kept
  BY <1>1, <1>2, <1>4 DEF Kept, Predicted, Causal
<1> QED BY <1>3, <1>5 DEF IInv

(* Every state has the types, and every column decoded is that of the      *)
(* emissions and of the columns before it.                                 *)
THEOREM Invariant == Spec => []IInv
<1>1. Init => IInv
  BY InitKeeps
<1>2. IInv /\ [Next]_vars => IInv'
  BY ObserveKeeps, EndObservationKeeps, DecodeFrameKeeps, ConcludeKeeps, StutterKeeps DEF Next
<1> QED BY <1>1, <1>2, PTL DEF Spec

-----------------------------------------------------------------------------
(* The results.                                                            *)

(* In a state where the decoder is done, every frame has been decoded.     *)
LEMMA DoneIsDecoded ==
    ASSUME IInv, pc = "done"
    PROVE  Decoded /\ Predicted /\ now \in 1 .. now /\ result = Result
<1>1. now \in Nat /\ now # 0 /\ Len(entries) = now
  BY DEF IInv, TypeOK, Kept
<1>2. now \in 1 .. now
  BY <1>1
<1> QED BY <1>1, <1>2 DEF IInv, Kept, Decoded

(* The decoder is exact: no state sequence is cheaper than its path, the   *)
(* score is that path's cost, and the runner-up is the cost of the best of *)
(* all the other sequences, for every model and any number of frames.      *)
THEOREM DecodingIsExact == Spec => []DecodeIsExact
<1>1. IInv => DecodeIsExact
  BY DoneIsDecoded, ResultIsExact DEF DecodeIsExact
<1> QED BY <1>1, Invariant, PTL

(* Every event that marks a change of state falls on a usable frame and    *)
(* between two dwells of at least their minimum, on usable frames or in    *)
(* UNKNOWN.                                                                *)
THEOREM EventsOnDwells == Spec => []EventsFollowDwells
<1>1. IInv => EventsFollowDwells
  BY DoneIsDecoded, ResultEvents DEF EventsFollowDwells
<1> QED BY <1>1, Invariant, PTL

(* A frame taken live is the frame taken from the whole capture.           *)
THEOREM FramesStandLater == Spec => []FramesAreCausal
<1>1. IInv => FramesAreCausal
  <2>1. SUFFICES ASSUME IInv, NEW i \in DOMAIN frames PROVE frames[i] = QualityOk(samples, i)
    BY DEF FramesAreCausal
  <2>2. frames \in Seq(BOOLEAN) /\ Len(frames) = now
    BY <2>1 DEF IInv, TypeOK
  <2>3. DOMAIN frames = 1 .. now
    BY <2>2, LenProperties
  <2> QED BY <2>1, <2>3 DEF IInv, Kept, Causal
<1> QED BY <1>1, Invariant, PTL
=============================================================================

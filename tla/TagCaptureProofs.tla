--------------------------- MODULE TagCaptureProofs ---------------------------
(***************************************************************************)
(* Theorems about TagCapture for every size of the ring and of a chunk,    *)
(* every countdown and episode, and any number of naps, faults, reboots,   *)
(* freezes by another host and lost requests.                              *)
(***************************************************************************)
EXTENDS TagCapture, SequenceTheorems, WellFoundedInduction, TLAPS

(* A non-empty set of naturals has a least element.                        *)
LEMMA LeastNatural ==
    ASSUME NEW S \in SUBSET Nat, S # {}
    PROVE  \E t \in S : \A u \in S : t <= u
<1> DEFINE R == {ss \in Nat \X Nat : ss[1] < ss[2]}
<1>1. IsWellFoundedOn(R, Nat)
  BY NatLessThanWellFounded DEF OpToRel
<1>2. PICK t \in S : \A u \in S : ~(<<u, t>> \in R)
  <2> HIDE DEF R
  <2> QED BY <1>1, WFMin
<1>3. ASSUME NEW u \in S PROVE t <= u
  <2> SUFFICES ASSUME ~(t <= u) PROVE FALSE
    OBVIOUS
  <2>1. u \in Nat /\ t \in Nat /\ u < t
    OBVIOUS
  <2>2. <<u, t>> \in R
    BY <2>1
  <2> HIDE DEF R
  <2> QED BY <2>2, <1>2
<1> QED BY <1>3

(* A set of naturals with 0 and every successor has them all.              *)
LEMMA EveryNatural ==
    ASSUME NEW S \in SUBSET Nat, 0 \in S, \A n \in S : n + 1 \in S
    PROVE  S = Nat
<1> SUFFICES ASSUME Nat \ S # {} PROVE FALSE
  OBVIOUS
<1>1. PICK t \in Nat \ S : \A u \in Nat \ S : t <= u
  BY LeastNatural
<1>2. t # 0 /\ t - 1 \in Nat /\ ~(t <= t - 1)
  BY <1>1
<1>3. t - 1 \in S
  BY <1>1, <1>2
<1>4. (t - 1) + 1 \in S
  BY <1>3
<1>5. (t - 1) + 1 = t
  OBVIOUS
<1> QED BY <1>1, <1>4, <1>5

-----------------------------------------------------------------------------
(* Samples and sequences of samples.                                       *)

Sample == [boot : Nat, seq : Int, t : Int, ok : BOOLEAN]

(* One sample per period, and samples of one boot.                         *)
Steady(s) == \A i \in 1 .. Len(s) - 1 : s[i + 1].t = s[i].t + 1
AllFrom(s, b) == \A i \in 1 .. Len(s) : s[i].boot = b

(* Integers that grow by one at every place.                               *)
LEMMA OneByOne ==
    ASSUME NEW L \in Nat, NEW f \in [1 .. L -> Int], \A i \in 1 .. L - 1 : f[i + 1] = f[i] + 1
    PROVE  \A i \in 1 .. L : f[i] = f[1] + i - 1
<1> DEFINE S == {n \in Nat : n + 1 <= L => f[n + 1] = f[1] + n}
<1>1. 0 \in S
  <2>1. 0 + 1 <= L => 1 \in 1 .. L
    OBVIOUS
  <2>2. 0 + 1 <= L => f[1] \in Int
    BY <2>1
  <2>3. 0 + 1 <= L => f[0 + 1] = f[1] + 0
    BY <2>2
  <2> QED BY <2>3
<1>2. \A n \in S : n + 1 \in S
  <2> SUFFICES ASSUME NEW n \in Nat, n + 1 <= L => f[n + 1] = f[1] + n, n + 1 + 1 <= L
               PROVE  f[n + 1 + 1] = f[1] + (n + 1)
    OBVIOUS
  <2>1. n + 1 \in 1 .. L - 1 /\ 1 \in 1 .. L /\ n + 1 <= L
    OBVIOUS
  <2>2. f[n + 1 + 1] = f[n + 1] + 1 /\ f[1] \in Int /\ f[n + 1] = f[1] + n
    BY <2>1
  <2> QED BY <2>2
<1>3. S = Nat
  <2>1. S \in SUBSET Nat
    OBVIOUS
  <2> HIDE DEF S
  <2> QED BY <1>1, <1>2, <2>1, EveryNatural
<1> SUFFICES ASSUME NEW i \in 1 .. L PROVE f[i] = f[1] + i - 1
  OBVIOUS
<1>4. i - 1 \in Nat /\ (i - 1) + 1 = i /\ 1 \in 1 .. L /\ i <= L
  OBVIOUS
<1>5. i - 1 \in S
  <2> HIDE DEF S
  <2> QED BY <1>3, <1>4
<1>6. f[i] = f[1] + (i - 1) /\ f[1] \in Int
  BY <1>4, <1>5
<1> QED BY <1>6

(* In a steady sequence the i-th sample is i - 1 periods after the first.  *)
LEMMA SteadyTimes ==
    ASSUME NEW s \in Seq(Sample), Steady(s)
    PROVE  \A i \in 1 .. Len(s) : s[i].t = s[1].t + i - 1
<1> DEFINE f == [i \in 1 .. Len(s) |-> s[i].t]
<1>1. Len(s) \in Nat /\ \A i \in 1 .. Len(s) : s[i] \in Sample
  BY LenProperties, ElementOfSeq
<1>2. f \in [1 .. Len(s) -> Int]
  BY <1>1 DEF Sample
<1>3. \A i \in 1 .. Len(s) - 1 : f[i + 1] = f[i] + 1
  <2> SUFFICES ASSUME NEW i \in 1 .. Len(s) - 1 PROVE f[i + 1] = f[i] + 1
    OBVIOUS
  <2>1. i \in 1 .. Len(s) /\ i + 1 \in 1 .. Len(s)
    BY <1>1
  <2> QED BY <2>1 DEF Steady
<1>4. \A i \in 1 .. Len(s) : f[i] = s[i].t
  OBVIOUS
<1> HIDE DEF f
<1>5. \A i \in 1 .. Len(s) : f[i] = f[1] + i - 1
  BY <1>1, <1>2, <1>3, OneByOne
<1>6. \A i \in 1 .. Len(s) : 1 \in 1 .. Len(s)
  BY <1>1
<1> QED BY <1>4, <1>5, <1>6

(* Samples whose numbers grow by one have no gap.                          *)
LEMMA CountedGapless ==
    ASSUME NEW s \in Seq(Sample), \A i \in 1 .. Len(s) - 1 : s[i + 1].seq = s[i].seq + 1
    PROVE  Gapless(s)
<1> DEFINE f == [i \in 1 .. Len(s) |-> s[i].seq]
           x == f[1]
           l == Len(s)
<1>1. Len(s) \in Nat /\ DOMAIN s = 1 .. Len(s) /\ \A i \in 1 .. Len(s) : s[i] \in Sample
  BY LenProperties, ElementOfSeq
<1>2. f \in [1 .. l -> Int]
  BY <1>1 DEF Sample
<1>3. \A i \in 1 .. l - 1 : f[i + 1] = f[i] + 1
  <2> SUFFICES ASSUME NEW i \in 1 .. l - 1 PROVE f[i + 1] = f[i] + 1
    OBVIOUS
  <2>1. i \in 1 .. l /\ i + 1 \in 1 .. l
    BY <1>1
  <2> QED BY <2>1
<1>4. \A i \in 1 .. l : f[i] = s[i].seq
  OBVIOUS
<1> HIDE DEF f
<1>5. l \in Nat
  BY <1>1
<1> HIDE DEF l
<1>6. \A i \in 1 .. l : f[i] = x + i - 1
  BY <1>2, <1>3, <1>5, OneByOne
<1> SUFFICES ASSUME NEW i \in 1 .. l, NEW j \in 1 .. l, NEW n \in s[i].seq .. s[j].seq
             PROVE  \E k \in 1 .. l : s[k].seq = n
  <2> DEFINE Q == {s[i].seq : i \in DOMAIN s}
  <2>1. Q = {s[i].seq : i \in 1 .. l}
    BY <1>1 DEF l
  <2>2. \A a, b \in Q : \A n \in a .. b : n \in Q
    <3> HIDE DEF Q
    <3> QED BY <2>1
  <2> QED BY <2>2 DEF Gapless
<1>7. x \in Int
  <2>1. 1 \in 1 .. l
    BY <1>5
  <2> QED BY <1>2, <2>1
<1>8. s[i].seq = x + i - 1 /\ s[j].seq = x + j - 1
  BY <1>4, <1>6
<1> HIDE DEF x
<1> DEFINE k == n - x + 1
<1>9. k \in 1 .. l /\ x + k - 1 = n
  BY <1>5, <1>7, <1>8
<1> HIDE DEF k
<1>10. s[k].seq = n
  <2>1. f[k] = x + k - 1
    BY <1>6, <1>9
  <2> QED BY <1>4, <1>9, <2>1
<1> QED BY <1>9, <1>10

(* The ring after another sample.                                          *)
LEMMA AnotherSample ==
    ASSUME NEW s \in Seq(Sample), NEW e \in Sample, NEW b,
           Steady(s), AllFrom(s, b), e.boot = b,
           s # <<>> => e.t = s[Len(s)].t + 1
    PROVE  LET r == Append(s, e)
           IN  /\ r \in Seq(Sample) /\ Steady(r) /\ AllFrom(r, b)
               /\ r # <<>> /\ r[Len(r)] = e
               /\ Len(r) > 1 =>
                    /\ Tail(r) \in Seq(Sample) /\ Steady(Tail(r)) /\ AllFrom(Tail(r), b)
                    /\ Tail(r) # <<>> /\ Tail(r)[Len(Tail(r))] = e
<1> DEFINE r == Append(s, e)
<1>1. /\ Len(s) \in Nat /\ r \in Seq(Sample) /\ Len(r) = Len(s) + 1 /\ r[Len(s) + 1] = e
      /\ \A i \in 1 .. Len(s) : r[i] = s[i]
  BY AppendProperties, LenProperties
<1> HIDE DEF r
<1>2. Steady(r)
  <2> SUFFICES ASSUME NEW i \in 1 .. Len(r) - 1 PROVE r[i + 1].t = r[i].t + 1
    BY DEF Steady
  <2>1. CASE i = Len(s)
    <3>1. s # <<>>
      BY <1>1, <2>1
    <3> QED BY <1>1, <2>1, <3>1
  <2>2. CASE i # Len(s)
    <3>1. i \in 1 .. Len(s) - 1 /\ i \in 1 .. Len(s) /\ i + 1 \in 1 .. Len(s)
      BY <1>1, <2>2
    <3> QED BY <1>1, <3>1 DEF Steady
  <2> QED BY <2>1, <2>2
<1>3. AllFrom(r, b)
  <2> SUFFICES ASSUME NEW i \in 1 .. Len(r) PROVE r[i].boot = b
    BY DEF AllFrom
  <2>1. i = Len(s) + 1 \/ i \in 1 .. Len(s)
    BY <1>1
  <2> QED BY <1>1, <2>1 DEF AllFrom
<1>4. r # <<>> /\ r[Len(r)] = e
  BY <1>1
<1>5. ASSUME Len(r) > 1
      PROVE  /\ Tail(r) \in Seq(Sample) /\ Steady(Tail(r)) /\ AllFrom(Tail(r), b)
             /\ Tail(r) # <<>> /\ Tail(r)[Len(Tail(r))] = e
  <2> DEFINE q == Tail(r)
  <2>1. /\ q \in Seq(Sample) /\ Len(q) = Len(r) - 1
        /\ \A i \in 1 .. Len(q) : q[i] = r[i + 1]
    BY <1>1, <1>4, HeadTailProperties
  <2> HIDE DEF q
  <2>2. Steady(q)
    <3> SUFFICES ASSUME NEW i \in 1 .. Len(q) - 1 PROVE q[i + 1].t = q[i].t + 1
      BY DEF Steady
    <3>1. i \in 1 .. Len(q) /\ i + 1 \in 1 .. Len(q) /\ i + 1 \in 1 .. Len(r) - 1
      BY <1>1, <2>1
    <3>2. r[i + 1 + 1].t = r[i + 1].t + 1
      BY <1>2, <3>1 DEF Steady
    <3> QED BY <2>1, <3>1, <3>2
  <2>3. AllFrom(q, b)
    <3> SUFFICES ASSUME NEW i \in 1 .. Len(q) PROVE q[i].boot = b
      BY DEF AllFrom
    <3>1. i + 1 \in 1 .. Len(r)
      BY <1>1, <2>1
    <3> QED BY <1>3, <2>1, <3>1 DEF AllFrom
  <2>4. Len(q) \in 1 .. Len(q) /\ Len(q) + 1 = Len(r)
    BY <1>1, <1>5, <2>1
  <2>5. q # <<>> /\ q[Len(q)] = e
    BY <1>4, <2>1, <2>4
  <2> QED BY <2>1, <2>2, <2>3, <2>5 DEF q
<1> QED BY <1>1, <1>2, <1>3, <1>4, <1>5 DEF r

(* A piece of a steady sequence is steady.                                 *)
LEMMA PieceOfSteady ==
    ASSUME NEW s \in Seq(Sample), NEW b, Steady(s), AllFrom(s, b),
           NEW m \in 1 .. Len(s), NEW n \in m .. Len(s)
    PROVE  LET p == SubSeq(s, m, n)
           IN  /\ p \in Seq(Sample) /\ Len(p) = n - m + 1 /\ p[1] = s[m]
               /\ p[Len(p)] = s[n] /\ Steady(p) /\ AllFrom(p, b)
<1> DEFINE p == SubSeq(s, m, n)
<1>0. Len(s) \in Nat
  OBVIOUS
<1>1. \A i \in m .. n : s[i] \in Sample
  <2> TAKE i \in m .. n
  <2>1. i \in 1 .. Len(s)
    BY <1>0
  <2> QED BY <2>1, ElementOfSeq
<1>2. /\ p \in Seq(Sample) /\ Len(p) = n - m + 1
      /\ \A i \in 1 .. n - m + 1 : p[i] = s[m + i - 1]
  <2>1. m \in Int /\ n \in Int /\ m <= n
    BY <1>0
  <2> QED BY <1>1, <2>1, SubSeqProperties
<1> HIDE DEF p
<1>3. p[1] = s[m] /\ p[Len(p)] = s[n]
  <2>1. 1 \in 1 .. n - m + 1 /\ n - m + 1 \in 1 .. n - m + 1
        /\ m + 1 - 1 = m /\ m + (n - m + 1) - 1 = n
    BY <1>0
  <2> QED BY <1>2, <2>1
<1>4. Steady(p)
  <2> SUFFICES ASSUME NEW i \in 1 .. Len(p) - 1 PROVE p[i + 1].t = p[i].t + 1
    BY DEF Steady
  <2>1. /\ i \in 1 .. n - m + 1 /\ i + 1 \in 1 .. n - m + 1
        /\ m + i - 1 \in 1 .. Len(s) - 1 /\ (m + i - 1) + 1 = m + (i + 1) - 1
    BY <1>0, <1>2
  <2>2. s[(m + i - 1) + 1].t = s[m + i - 1].t + 1
    BY <2>1 DEF Steady
  <2> QED BY <1>2, <2>1, <2>2
<1>5. AllFrom(p, b)
  <2> SUFFICES ASSUME NEW i \in 1 .. Len(p) PROVE p[i].boot = b
    BY DEF AllFrom
  <2>1. i \in 1 .. n - m + 1 /\ m + i - 1 \in 1 .. Len(s)
    BY <1>0, <1>2
  <2> QED BY <1>2, <2>1 DEF AllFrom
<1> QED BY <1>2, <1>3, <1>4, <1>5 DEF p

-----------------------------------------------------------------------------
(* The chunks of a frozen history put together again.                      *)

UpTo(L, m) == IF L < m THEN L ELSE m
Piece(F, i) == SubSeq(F, i * Chunk + 1, UpTo(Len(F), (i + 1) * Chunk))
Gathered(F, n) == SubSeq(F, 1, UpTo(Len(F), n * Chunk))

(* The next chunk continues what the chunks before it hold.                *)
LEMMA PieceContinues ==
    ASSUME NEW F \in Seq(Sample), NEW n \in Nat
    PROVE  Gathered(F, n) \o Piece(F, n) = Gathered(F, n + 1)
<1> DEFINE a == n * Chunk
           b == (n + 1) * Chunk
           L == Len(F)
<1>1. Chunk \in Nat
  BY CaptureAssumption
<1>2. a \in Nat /\ b = a + Chunk /\ L \in Nat
  BY <1>1
<1>3. /\ Gathered(F, n) = SubSeq(F, 1, UpTo(L, a))
      /\ Piece(F, n) = SubSeq(F, a + 1, UpTo(L, b))
      /\ Gathered(F, n + 1) = SubSeq(F, 1, UpTo(L, b))
  BY DEF Gathered, Piece
<1> HIDE DEF a, b
<1>4. CASE L < a
  <2>1. UpTo(L, a) = L /\ UpTo(L, b) = L
    BY <1>1, <1>2, <1>4 DEF UpTo
  <2>2. SubSeq(F, a + 1, L) = <<>>
    <3>1. a + 1 \in Int /\ L \in Int /\ L < a + 1
      BY <1>2, <1>4
    <3> QED BY <3>1, SubSeqEmpty
  <2>3. SubSeq(F, 1, L) = F
    BY SubSeqFull
  <2>4. F \o <<>> = F
    BY ConcatEmptySeq
  <2> QED BY <1>3, <2>1, <2>2, <2>3, <2>4
<1>5. CASE ~(L < a)
  <2> DEFINE e == UpTo(L, b)
  <2>1. UpTo(L, a) = a
    BY <1>2, <1>5 DEF UpTo
  <2>2. a \in 0 .. L /\ e \in a .. L /\ 1 \in 1 .. L + 1 /\ a \in 1 - 1 .. L
    BY <1>1, <1>2, <1>5 DEF UpTo
  <2> HIDE DEF e
  <2>3. SubSeq(F, 1, a) \o SubSeq(F, a + 1, e) = SubSeq(F, 1, e)
    BY <2>2, ConcatAdjacentSubSeq
  <2> QED BY <1>3, <2>1, <2>3 DEF e
<1> QED BY <1>4, <1>5

(* FlattenSeq as an equation.                                              *)
Flattens(f, D) ==
    f = [i \in 1 .. Len(D) |-> IF i = 1 THEN D[i] ELSE f[i - 1] \o D[i]]

(* FlattenSeq of a list that is not empty is the last of its partial lists. *)
LEMMA FlattenIsLast ==
    ASSUME NEW D, NEW f, Len(D) # 0, Flattens(f, D)
    PROVE  \E g : Flattens(g, D) /\ FlattenSeq(D) = g[Len(D)]
<1> DEFINE g == CHOOSE h : Flattens(h, D)
<1>1. Flattens(g, D)
  OBVIOUS
<1>2. FlattenSeq(D) = g[Len(D)]
  BY DEF FlattenSeq, Flattens
<1> HIDE DEF g
<1> QED BY <1>1, <1>2

(* Pieces put together are the beginning of the history, as long as there  *)
(* are pieces.                                                             *)
LEMMA FlattenGathers ==
    ASSUME NEW F \in Seq(Sample), NEW D \in Seq(Seq(Sample)), Len(D) # 0,
           \A j \in 1 .. Len(D) : D[j] = Piece(F, j - 1)
    PROVE  FlattenSeq(D) = Gathered(F, Len(D))
<1>0. Len(D) \in Nat /\ Len(F) \in Nat /\ Chunk \in Nat
  BY LenProperties, CaptureAssumption
<1> DEFINE f == [i \in 1 .. Len(D) |-> Gathered(F, i)]
<1>1. \A i \in 1 .. Len(D) :
        Gathered(F, i) = IF i = 1 THEN D[i] ELSE Gathered(F, i - 1) \o D[i]
  <2> SUFFICES ASSUME NEW i \in 1 .. Len(D)
               PROVE  Gathered(F, i) = IF i = 1 THEN D[i] ELSE Gathered(F, i - 1) \o D[i]
    OBVIOUS
  <2>1. i - 1 \in Nat /\ (i - 1) + 1 = i
    BY <1>0
  <2>2. Gathered(F, i - 1) \o Piece(F, i - 1) = Gathered(F, i)
    BY <2>1, PieceContinues
  <2>3. CASE i = 1
    <3>1. 0 * Chunk = 0 /\ 0 + 1 = 1 /\ (0 + 1) * Chunk = 1 * Chunk
      BY <1>0
    <3>2. Piece(F, 0) = Gathered(F, 1)
      BY <3>1 DEF Piece, Gathered
    <3>3. i - 1 = 0
      BY <2>3
    <3> QED BY <2>3, <3>2, <3>3
  <2> QED BY <2>2, <2>3
<1>2. Flattens(f, D)
  <2>1. \A i \in 1 .. Len(D) :
          Gathered(F, i) = IF i = 1 THEN D[i] ELSE f[i - 1] \o D[i]
    <3> SUFFICES ASSUME NEW i \in 1 .. Len(D)
                 PROVE  Gathered(F, i) = IF i = 1 THEN D[i] ELSE f[i - 1] \o D[i]
      OBVIOUS
    <3>1. CASE i = 1
      BY <1>1, <3>1
    <3>2. CASE i # 1
      <4>1. i - 1 \in 1 .. Len(D)
        BY <1>0, <3>2
      <4>2. f[i - 1] = Gathered(F, i - 1)
        BY <4>1
      <4> HIDE DEF f
      <4> QED BY <1>1, <3>2, <4>2
    <3> QED BY <3>1, <3>2
  <2> QED BY <2>1 DEF Flattens
<1>3. PICK g : Flattens(g, D) /\ FlattenSeq(D) = g[Len(D)]
  <2> HIDE DEF f
  <2> QED BY <1>2, FlattenIsLast
<1> DEFINE S == {n \in Nat : n + 1 <= Len(D) => g[n + 1] = Gathered(F, n + 1)}
<1>4. \A i \in 1 .. Len(D) : g[i] = IF i = 1 THEN D[i] ELSE g[i - 1] \o D[i]
  BY <1>3 DEF Flattens
<1>5. 0 \in S
  <2>1. 1 \in 1 .. Len(D) /\ 0 + 1 = 1
    BY <1>0
  <2>2. g[1] = Gathered(F, 1)
    BY <1>1, <1>4, <2>1
  <2> QED BY <2>1, <2>2
<1>6. \A n \in S : n + 1 \in S
  <2> SUFFICES ASSUME NEW n \in Nat, n + 1 <= Len(D) => g[n + 1] = Gathered(F, n + 1),
                      n + 1 + 1 <= Len(D)
               PROVE  g[n + 1 + 1] = Gathered(F, n + 1 + 1)
    OBVIOUS
  <2>1. /\ n + 1 + 1 \in 1 .. Len(D) /\ n + 1 + 1 # 1 /\ (n + 1 + 1) - 1 = n + 1
        /\ n + 1 <= Len(D)
    BY <1>0
  <2>2. g[n + 1] = Gathered(F, n + 1)
    BY <2>1
  <2>3. g[n + 1 + 1] = g[n + 1] \o D[n + 1 + 1]
    BY <1>4, <2>1
  <2>4. Gathered(F, n + 1 + 1) = Gathered(F, n + 1) \o D[n + 1 + 1]
    BY <1>1, <2>1
  <2> QED BY <2>2, <2>3, <2>4
<1>7. S = Nat
  <2>1. S \in SUBSET Nat
    OBVIOUS
  <2> HIDE DEF S
  <2> QED BY <1>5, <1>6, <2>1, EveryNatural
<1> QED
  <2>1. Len(D) - 1 \in Nat /\ (Len(D) - 1) + 1 = Len(D)
    BY <1>0
  <2>2. Len(D) - 1 \in S
    <3> HIDE DEF S
    <3> QED BY <1>7, <2>1
  <2>3. g[Len(D)] = Gathered(F, Len(D))
    BY <1>0, <2>1, <2>2
  <2> QED BY <1>3, <2>3

(* When all the samples of a frozen history have arrived, they are the     *)
(* history.                                                                *)
LEMMA FlattenPieces ==
    ASSUME NEW F \in Seq(Sample), NEW D \in Seq(Seq(Sample)),
           \A j \in 1 .. Len(D) : D[j] = Piece(F, j - 1),
           Len(FlattenSeq(D)) = Len(F)
    PROVE  FlattenSeq(D) = F
<1>0. Len(D) \in Nat /\ Len(F) \in Nat /\ Chunk \in Nat
  BY LenProperties, CaptureAssumption
<1>1. CASE Len(D) = 0
  <2>1. FlattenSeq(D) = D /\ D = <<>>
    BY <1>1 DEF FlattenSeq
  <2>2. Len(F) = 0
    BY <1>1, <2>1
  <2>3. F = <<>>
    BY <2>2
  <2> QED BY <2>1, <2>3
<1>2. CASE Len(D) # 0
  <2>1. FlattenSeq(D) = Gathered(F, Len(D))
    BY <1>2, FlattenGathers
  <2>2. UpTo(Len(F), Len(D) * Chunk) = Len(F)
    <3> DEFINE m == UpTo(Len(F), Len(D) * Chunk)
    <3>1. m \in 0 .. Len(F)
      <4>1. Len(D) * Chunk \in Nat
        BY <1>0
      <4> QED BY <1>0, <4>1 DEF UpTo
    <3> HIDE DEF m
    <3>2. Len(SubSeq(F, 1, m)) = m
      BY <1>0, <3>1
    <3>3. Gathered(F, Len(D)) = SubSeq(F, 1, m)
      BY DEF Gathered, m
    <3> QED BY <2>1, <3>2, <3>3 DEF m
  <2>3. SubSeq(F, 1, Len(F)) = F
    BY SubSeqFull
  <2> QED BY <2>1, <2>2, <2>3 DEF Gathered
<1> QED BY <1>1, <1>2

-----------------------------------------------------------------------------
(* What is picked out of a sequence (PickupDetector): the partial picks    *)
(* exist and are sequences, and to pick an interval is to cut it out.      *)

(* Picked as an equation.                                                  *)
Picks(f, s, I) ==
    f = [n \in 0 .. Len(s) |->
           IF n = 0 THEN <<>>
           ELSE IF n \in I THEN Append(f[n - 1], s[n]) ELSE f[n - 1]]

(* One more pick.                                                          *)
PickStep(s, I, n, before) == IF n \in I THEN Append(before, s[n]) ELSE before

(* Picked is the last of its partial picks.                                *)
LEMMA PickedIsLast ==
    ASSUME NEW s, NEW I, NEW f, Picks(f, s, I)
    PROVE  \E g : Picks(g, s, I) /\ Picked(s, I) = g[Len(s)]
<1> DEFINE g == CHOOSE h : Picks(h, s, I)
<1>1. Picks(g, s, I)
  OBVIOUS
<1>2. Picked(s, I) = g[Len(s)]
  BY DEF Picked, Picks
<1> HIDE DEF g
<1> QED BY <1>1, <1>2

(* There are partial picks of every sequence.                              *)
LEMMA PicksExist ==
    ASSUME NEW S, NEW s \in Seq(S), NEW I
    PROVE  \E f : Picks(f, s, I)
<1>0. Len(s) \in Nat /\ \A i \in 1 .. Len(s) : s[i] \in S
  BY LenProperties, ElementOfSeq
<1> DEFINE Upto(n, f) ==
             /\ f \in [0 .. n -> Seq(S)] /\ f[0] = <<>>
             /\ \A k \in 1 .. n : f[k] = PickStep(s, I, k, f[k - 1])
           N == {n \in Nat : n <= Len(s) => \E f : Upto(n, f)}
<1>1. 0 \in N
  <2> DEFINE empty == <<>>
  <2>1. empty \in Seq(S)
    BY EmptySeq
  <2> HIDE DEF empty
  <2>2. [k \in 0 .. 0 |-> empty] \in [0 .. 0 -> Seq(S)] /\ [k \in 0 .. 0 |-> empty][0] = empty
    BY <2>1
  <2>3. Upto(0, [k \in 0 .. 0 |-> empty])
    BY <2>2 DEF empty
  <2> QED BY <2>3
<1>2. \A n \in N : n + 1 \in N
  <2> SUFFICES ASSUME NEW n \in Nat, n <= Len(s) => \E f : Upto(n, f), n + 1 <= Len(s)
               PROVE  \E f : Upto(n + 1, f)
    <3> HIDE DEF Upto
    <3> QED OBVIOUS
  <2>1. n <= Len(s) /\ n + 1 \in 1 .. Len(s)
    BY <1>0
  <2>2. PICK f : Upto(n, f)
    BY <2>1
  <2> DEFINE new == PickStep(s, I, n + 1, f[n])
             h == [k \in 0 .. n + 1 |-> IF k = n + 1 THEN new ELSE f[k]]
  <2>3. n \in 0 .. n
    OBVIOUS
  <2>4. f[n] \in Seq(S) /\ s[n + 1] \in S
    BY <1>0, <2>1, <2>2, <2>3
  <2>5. new \in Seq(S)
    BY <2>4, AppendProperties DEF PickStep
  <2> HIDE DEF new
  <2>6. \A k \in 0 .. n + 1 : k # n + 1 => k \in 0 .. n
    OBVIOUS
  <2>7. h \in [0 .. n + 1 -> Seq(S)]
    BY <2>2, <2>5, <2>6
  <2>8. h[0] = <<>> /\ h[n + 1] = new /\ \A k \in 0 .. n : h[k] = f[k]
    <3>1. 0 \in 0 .. n + 1 /\ 0 # n + 1 /\ n + 1 \in 0 .. n + 1
      OBVIOUS
    <3>2. \A k \in 0 .. n : k \in 0 .. n + 1 /\ k # n + 1
      OBVIOUS
    <3> QED BY <2>2, <3>1, <3>2
  <2> HIDE DEF h
  <2>9. \A k \in 1 .. n + 1 : h[k] = PickStep(s, I, k, h[k - 1])
    <3> SUFFICES ASSUME NEW k \in 1 .. n + 1 PROVE h[k] = PickStep(s, I, k, h[k - 1])
      OBVIOUS
    <3>1. CASE k = n + 1
      <4>1. k - 1 = n /\ h[n] = f[n]
        BY <2>3, <2>8, <3>1
      <4> QED BY <2>8, <3>1, <4>1 DEF new
    <3>2. CASE k # n + 1
      <4>1. k \in 1 .. n /\ k \in 0 .. n /\ k - 1 \in 0 .. n
        BY <3>2
      <4> QED BY <2>2, <2>8, <4>1
    <3> QED BY <3>1, <3>2
  <2> QED BY <2>7, <2>8, <2>9
<1>3. Len(s) \in N
  <2>1. N \in SUBSET Nat
    OBVIOUS
  <2> HIDE DEF N
  <2> QED BY <1>0, <1>1, <1>2, <2>1, EveryNatural
<1>4. PICK f : Upto(Len(s), f)
  BY <1>0, <1>3
<1>5. \A n \in 0 .. Len(s) : n # 0 => n \in 1 .. Len(s)
  BY <1>0
<1>6. f = [n \in 0 .. Len(s) |-> IF n = 0 THEN <<>> ELSE PickStep(s, I, n, f[n - 1])]
  BY <1>0, <1>4, <1>5
<1> QED BY <1>6 DEF Picks, PickStep

(* What is picked is of the same set.                                      *)
LEMMA PickedType ==
    ASSUME NEW S, NEW s \in Seq(S), NEW I
    PROVE  Picked(s, I) \in Seq(S)
<1>0. Len(s) \in Nat /\ \A i \in 1 .. Len(s) : s[i] \in S
  BY LenProperties, ElementOfSeq
<1>1. PICK g : Picks(g, s, I) /\ Picked(s, I) = g[Len(s)]
  <2>1. PICK f : Picks(f, s, I)
    BY PicksExist
  <2> QED BY <2>1, PickedIsLast
<1>2. \A n \in 0 .. Len(s) : g[n] = IF n = 0 THEN <<>> ELSE PickStep(s, I, n, g[n - 1])
  BY <1>1 DEF Picks, PickStep
<1> DEFINE N == {n \in Nat : n <= Len(s) => g[n] \in Seq(S)}
<1>3. 0 \in N
  <2>1. 0 \in 0 .. Len(s)
    BY <1>0
  <2> QED BY <1>2, <2>1, EmptySeq
<1>4. \A n \in N : n + 1 \in N
  <2> SUFFICES ASSUME NEW n \in Nat, n <= Len(s) => g[n] \in Seq(S), n + 1 <= Len(s)
               PROVE  g[n + 1] \in Seq(S)
    OBVIOUS
  <2>1. /\ n <= Len(s) /\ n + 1 \in 1 .. Len(s) /\ n + 1 \in 0 .. Len(s)
        /\ n + 1 # 0 /\ (n + 1) - 1 = n
    BY <1>0
  <2>2. g[n + 1] = PickStep(s, I, n + 1, g[n])
    BY <1>2, <2>1
  <2>3. g[n] \in Seq(S) /\ s[n + 1] \in S
    BY <1>0, <2>1
  <2>4. Append(g[n], s[n + 1]) \in Seq(S)
    BY <2>3, AppendProperties
  <2> QED BY <2>2, <2>3, <2>4 DEF PickStep
<1>5. Len(s) \in N
  <2>1. N \in SUBSET Nat
    OBVIOUS
  <2> HIDE DEF N
  <2> QED BY <1>0, <1>3, <1>4, <2>1, EveryNatural
<1> QED BY <1>0, <1>1, <1>5

(* What has been picked of the first n members when lo .. hi is picked.    *)
Chosen(s, lo, hi, n) == SubSeq(s, lo, UpTo(n, hi))

(* The next member prolongs the interval, comes before or after it.        *)
LEMMA ChosenGrows ==
    ASSUME NEW S, NEW s \in Seq(S), NEW lo \in Nat, NEW hi \in Nat, NEW n \in 1 .. Len(s),
           1 <= lo, lo - 1 <= hi, hi <= Len(s)
    PROVE  Chosen(s, lo, hi, n) = IF lo <= n /\ n <= hi
                                  THEN Append(Chosen(s, lo, hi, n - 1), s[n])
                                  ELSE Chosen(s, lo, hi, n - 1)
<1>0. Len(s) \in Nat /\ s[n] \in S /\ lo \in Nat /\ hi \in Int /\ n \in Nat /\ lo >= 1
  <2>1. Len(s) \in Nat
    BY LenProperties
  <2> QED BY <2>1, ElementOfSeq
<1>2. CASE lo <= n /\ n <= hi
  <2>1. UpTo(n, hi) = n /\ UpTo(n - 1, hi) = n - 1
    BY <1>0, <1>2 DEF UpTo
  <2>2. SubSeq(s, lo, n) = SubSeq(s, lo, n - 1) \o <<s[n]>>
    <3>1. n \in lo .. Len(s)
      BY <1>0, <1>2
    <3>2. lo \in 1 .. Len(s)
      BY <1>0, <3>1
    <3> QED BY <3>1, <3>2, SubSeqRecursiveSecond
  <2>3. SubSeq(s, lo, n - 1) \in Seq(S)
    <3>1. \A i \in lo .. n - 1 : s[i] \in S
      <4> TAKE i \in lo .. n - 1
      <4>1. i \in 1 .. Len(s)
        BY <1>0
      <4> QED BY <4>1, ElementOfSeq
    <3>2. lo \in Int /\ n - 1 \in Int
      BY <1>0
    <3> QED BY <3>1, <3>2, SubSeqProperties
  <2>4. Append(SubSeq(s, lo, n - 1), s[n]) = SubSeq(s, lo, n - 1) \o <<s[n]>>
    BY <1>0, <2>3, AppendIsConcat
  <2> QED BY <1>2, <2>1, <2>2, <2>4 DEF Chosen
<1>3. CASE n < lo
  <2>1. UpTo(n, hi) = n /\ UpTo(n - 1, hi) = n - 1
    BY <1>0, <1>3 DEF UpTo
  <2>2. n \in Int /\ n - 1 \in Int /\ lo \in Int /\ n - 1 < lo
    BY <1>0, <1>3
  <2>3. SubSeq(s, lo, n) = <<>> /\ SubSeq(s, lo, n - 1) = <<>>
    BY <1>3, <2>2, SubSeqEmpty
  <2>4. ~(lo <= n)
    BY <1>3, <2>2
  <2> QED BY <2>1, <2>3, <2>4 DEF Chosen
<1>4. CASE hi < n
  <2>1. UpTo(n, hi) = hi /\ UpTo(n - 1, hi) = hi /\ ~(n <= hi)
    BY <1>0, <1>4 DEF UpTo
  <2> QED BY <2>1 DEF Chosen
<1> QED BY <1>0, <1>2, <1>3, <1>4

(* Picking an interval cuts it out.                                        *)
LEMMA PickedIsSpan ==
    ASSUME NEW S, NEW s \in Seq(S), NEW I, NEW lo \in Nat, NEW hi \in Nat,
           1 <= lo, lo - 1 <= hi, hi <= Len(s),
           \A n \in 1 .. Len(s) : n \in I <=> lo <= n /\ n <= hi
    PROVE  Picked(s, I) = SubSeq(s, lo, hi)
<1>0. Len(s) \in Nat /\ lo \in Nat /\ lo >= 1 /\ hi \in Int /\ hi >= lo - 1 /\ hi <= Len(s)
  <2>1. Len(s) \in Nat
    BY LenProperties
  <2> QED BY <2>1
<1>1. Chosen(s, lo, hi, 0) = <<>>
  <2>1. UpTo(0, hi) = 0 /\ lo \in Int /\ 0 \in Int /\ 0 < lo
    BY <1>0 DEF UpTo
  <2> QED BY <2>1, SubSeqEmpty DEF Chosen
<1>2. PICK g : Picks(g, s, I) /\ Picked(s, I) = g[Len(s)]
  <2>1. PICK f : Picks(f, s, I)
    BY PicksExist
  <2> QED BY <2>1, PickedIsLast
<1>3. \A m \in 1 .. Len(s) :
        Chosen(s, lo, hi, m) = IF lo <= m /\ m <= hi
                               THEN Append(Chosen(s, lo, hi, m - 1), s[m])
                               ELSE Chosen(s, lo, hi, m - 1)
  BY ChosenGrows
<1>4. \A n \in 0 .. Len(s) :
        g[n] = IF n = 0 THEN <<>> ELSE IF n \in I THEN Append(g[n - 1], s[n]) ELSE g[n - 1]
  BY <1>2 DEF Picks
<1> DEFINE N == {n \in Nat : n <= Len(s) => g[n] = Chosen(s, lo, hi, n)}
<1>5. 0 \in N
  <2>1. 0 \in 0 .. Len(s)
    BY <1>0
  <2> QED BY <1>1, <1>4, <2>1
<1>6. \A n \in N : n + 1 \in N
  <2> SUFFICES ASSUME NEW n \in Nat, n <= Len(s) => g[n] = Chosen(s, lo, hi, n),
                      n + 1 <= Len(s)
               PROVE  g[n + 1] = Chosen(s, lo, hi, n + 1)
    OBVIOUS
  <2>1. /\ n + 1 \in 1 .. Len(s) /\ n + 1 \in 0 .. Len(s) /\ n + 1 # 0 /\ (n + 1) - 1 = n
        /\ n <= Len(s)
    BY <1>0
  <2>2. g[n] = Chosen(s, lo, hi, n)
    BY <2>1
  <2>3. g[n + 1] = IF n + 1 \in I THEN Append(g[n], s[n + 1]) ELSE g[n]
    BY <1>4, <2>1
  <2>4. Chosen(s, lo, hi, n + 1) = IF lo <= n + 1 /\ n + 1 <= hi
                                   THEN Append(Chosen(s, lo, hi, n), s[n + 1])
                                   ELSE Chosen(s, lo, hi, n)
    BY <1>3, <2>1
  <2>5. n + 1 \in I <=> lo <= n + 1 /\ n + 1 <= hi
    BY <2>1
  <2> QED BY <2>2, <2>3, <2>4, <2>5
<1>7. Len(s) \in N
  <2>1. N \in SUBSET Nat
    OBVIOUS
  <2> HIDE DEF N
  <2> QED BY <1>0, <1>5, <1>6, <2>1, EveryNatural
<1>8. g[Len(s)] = Chosen(s, lo, hi, Len(s))
  BY <1>0, <1>7
<1>9. UpTo(Len(s), hi) = hi
  BY <1>0 DEF UpTo
<1> QED BY <1>2, <1>8, <1>9 DEF Chosen

(* In a steady history the samples of a time span are those of an index    *)
(* span.                                                                   *)
LEMMA SelectedIsSpan ==
    ASSUME Batch \in Seq(Sample), Steady(Batch), NEW lo \in 1 .. Len(Batch),
           NEW hi \in lo .. Len(Batch), From = Batch[1].t + lo - 1, To = Batch[1].t + hi - 1
    PROVE  Selected = SubSeq(Batch, lo, hi)
<1> DEFINE B == Batch
           I == {i \in DOMAIN B : From <= B[i].t /\ B[i].t <= To}
<1>0. Len(B) \in Nat /\ DOMAIN B = 1 .. Len(B)
  BY LenProperties
<1>1. \A n \in 1 .. Len(B) : n \in I <=> lo <= n /\ n <= hi
  <2> SUFFICES ASSUME NEW n \in 1 .. Len(B)
               PROVE  (From <= B[n].t /\ B[n].t <= To) <=> (lo <= n /\ n <= hi)
    BY <1>0
  <2> DEFINE x == B[n].t
             y == B[1].t
  <2>1. x \in Int /\ y \in Int /\ x = y + n - 1
    <3>1. 1 \in 1 .. Len(B)
      BY <1>0
    <3>2. B[n] \in Sample /\ B[1] \in Sample
      BY <3>1, ElementOfSeq
    <3> QED BY <3>2, SteadyTimes DEF Sample
  <2>2. lo \in Int /\ hi \in Int /\ n \in Int
    BY <1>0
  <2>3. From = y + lo - 1 /\ To = y + hi - 1
    OBVIOUS
  <2> HIDE DEF x, y
  <2>4. (From <= x /\ x <= To) <=> (lo <= n /\ n <= hi)
    BY <2>1, <2>2, <2>3
  <2> QED BY <2>4 DEF x, y
<1>2. lo \in Nat /\ hi \in Nat /\ 1 <= lo /\ lo - 1 <= hi /\ hi <= Len(B)
  BY <1>0
<1>3. Selected = Picked(B, I)
  BY DEF Selected
<1> HIDE DEF I
<1>4. Picked(B, I) = SubSeq(B, lo, hi)
  <2>1. B \in Seq(Sample)
    OBVIOUS
  <2> HIDE DEF B
  <2> QED BY <1>1, <1>2, <2>1, PickedIsSpan
<1> QED BY <1>3, <1>4

-----------------------------------------------------------------------------
(* What the variables hold.                                                *)
Places == RequestSteps \cup {"countdown", "acknowledge", "episode", "select", "write"}

StatusRecord == [boot : Nat, seq : Int, up : Int, errors : Int, generation : Int,
                 healthy : BOOLEAN]
MetaRecord == [id : Int, count : Nat, first : Int, last : Int]
ChunkRecord == [id : Int, index : Nat, data : Seq(Sample)]

Ball == [boot : Nat, since : Int, seq : Int, ring : Seq(Sample), motion : Sample,
         frozen : Seq(Sample), id : Int, errors : Int, generation : Int, healthy : BOOLEAN,
         awake : BOOLEAN]

Host == [status : StatusRecord, marker : Sample, meta : MetaRecord,
         chunks : Seq(ChunkRecord), index : Nat, failed : Nat, got : Seq(Sample)]

Line == [kind : {"status"}, label : Labels]
        \cup [kind : {"marker"}, label : Labels, t : Int, boot : Nat]
        \cup [kind : {"window"}, label : Labels, t : Int]
        \cup [kind : {"motion"}, label : Labels, sample : Sample]
        \cup [kind : {"result"}, label : Labels, status : {"PASS", "FAIL"}]

TypeInv ==
    /\ now \in Int /\ ball \in Ball /\ upsets \in Nat /\ drops \in Nat
    /\ mode \in Modes /\ label \in Labels
    /\ at \in Places \cup {"end"} /\ until \in Int /\ tries \in Nat
    /\ host \in Host /\ todo \in Seq(Sample) /\ file \in Seq(Line)
    /\ exit \in {"", "PASS", "FAIL", "killed"} \cup Places

(* The ring and the frozen history are steady and of the running boot; while *)
(* the Ball samples, the ring ends with the last period.                   *)
BallInv ==
    /\ Steady(ball.ring) /\ AllFrom(ball.ring, ball.boot)
    /\ Steady(ball.frozen) /\ AllFrom(ball.frozen, ball.boot)
    /\ Sampling /\ ball.ring # <<>> => ball.ring[Len(ball.ring)].t = now - ball.since
    /\ ball.motion # NoSample => ball.motion.boot = ball.boot
    /\ ball.boot > 0

(* Which requests each of the three modes gets to, and what is still empty *)
(* when it does.                                                           *)
PlaceInv ==
    Working =>
        /\ at \in Places
        /\ at \in {"countdown", "marker", "acknowledge", "episode"} => mode = "armed"
        /\ at \in {"freeze", "chunk", "select"} => mode \in {"armed", "frozen"}
        /\ at = "window" => mode = "window"
        /\ at = "status" => host = NoHost
        /\ at \notin {"window", "write", "final"} => host.got = <<>> /\ todo = <<>>
        /\ at \notin {"chunk", "select", "window", "write", "final"} => host.chunks = <<>>
        /\ at = "final" => todo = <<>>
        /\ at # "status" => host.status.boot <= ball.boot

(* The boot of the first status is still the Ball's.                       *)
SameBoot == Working /\ host.status.boot = ball.boot

(* Then everything the host has is of that boot.                           *)
FileFrom(f, b) ==
    \A i \in DOMAIN f :
        /\ f[i].kind = "motion" => f[i].sample.boot = b
        /\ f[i].kind = "marker" => f[i].boot = b

BootInv ==
    SameBoot =>
        AllFrom(host.got, ball.boot) /\ AllFrom(todo, ball.boot) /\ FileFrom(file, ball.boot)

(* Every chunk that carries the capture's id is a piece of the one history *)
(* that was frozen for it.                                                 *)
Retrieves(F) ==
    /\ Steady(F) /\ AllFrom(F, ball.boot) /\ Len(F) = host.meta.count
    /\ host.meta.id <= ball.id
    /\ ball.id = host.meta.id => ball.frozen = F
    /\ \A j \in 1 .. Len(host.chunks) :
         host.chunks[j].id = host.meta.id => host.chunks[j].data = Piece(F, j - 1)

ChunkInv == SameBoot /\ at \in {"chunk", "select"} => \E F \in Seq(Sample) : Retrieves(F)

(* The lines before the samples, and the samples, in order.                *)
Opening == IF at = "status" THEN 0
           ELSE IF mode = "frozen" \/ at \in {"countdown", "marker"} THEN 1
           ELSE IF at \in {"write", "final"} THEN 3 ELSE 2

Laid(f, n, got, t) ==
    /\ Len(f) = n + Len(got)
    /\ n >= 1 => f[1].kind = "status"
    /\ n >= 2 => f[2].kind = "marker" /\ f[2].t = t
    /\ n >= 3 => f[3].kind = "window"
    /\ \A i \in 1 .. Len(got) : f[n + i].kind = "motion" /\ f[n + i].sample = got[i]

FileInv ==
    Working /\ (mode # "window" \/ at = "status") =>
        Laid(file, Opening, host.got, host.marker.t)

(* What is written and what is left to write are one steady history, in an *)
(* armed capture from the countdown to the end of the episode.             *)
Spans(s, a, b) == s # <<>> /\ s[1].t = a /\ s[Len(s)].t = b

WholeInv ==
    SameBoot /\ mode # "window" /\ at \in {"write", "final"} =>
        /\ Steady(host.got \o todo)
        /\ mode = "armed" => Spans(host.got \o todo, From, To)

HostInv == PlaceInv /\ BootInv /\ ChunkInv /\ FileInv /\ WholeInv

(* A file with a result, of an armed capture: the marker, the window and    *)
(* the samples, and the verdict of the session, which is that of the tool   *)
(* when the samples are counted without a gap.                             *)
HasLine(f, kind) == \E i \in DOMAIN f : f[i].kind = kind

Counted(f) == \A i \in 4 .. Len(f) - 2 : f[i + 1].sample.seq = f[i].sample.seq + 1

Complete(f, how) ==
    /\ Len(f) >= 4 /\ f[1].kind = "status" /\ f[2].kind = "marker" /\ f[3].kind = "window"
    /\ \A i \in 4 .. Len(f) - 1 : f[i].kind = "motion"
    /\ f[Len(f)].kind = "result"
    /\ f[Len(f)].status = "PASS" /\ Len(f) > 4 /\ Counted(f) => how = "PASS"

(* Only armed captures have a marker or a window; a result ends a capture, *)
(* and there is no verdict before the end.                                 *)
ResultInv ==
    /\ HasLine(file, "marker") \/ HasLine(file, "window") => mode = "armed"
    /\ HasLine(file, "result") => ~Working /\ (mode = "armed" => Complete(file, exit))
    /\ Working => verdict = ""

IInv == TypeInv /\ BallInv /\ HostInv /\ PassIsOneBoot /\ HistoryHasNoHole /\ ResultInv

-----------------------------------------------------------------------------
(* The Ball.                                                               *)

(* A step of the Ball keeps its samples in order, and as long as it does   *)
(* not boot, what is frozen changes only with its id.                      *)
BallMoves ==
    /\ now' \in Int /\ ball' \in Ball /\ BallInv' /\ ball.boot <= ball'.boot
    /\ ball'.boot = ball.boot =>
         /\ ball.id <= ball'.id
         /\ ball'.id = ball.id => ball'.frozen = ball.frozen

(* No samples are steady and of any boot.                                  *)
LEMMA NoSamples == /\ <<>> \in Seq(Sample) /\ Steady(<<>>)
                   /\ \A b : AllFrom(<<>>, b)
                   /\ NoSample \in Sample
  BY DEF Steady, AllFrom, NoSample, Sample

(* The Ball may do nothing.                                                *)
LEMMA BallStands ==
    ASSUME TypeInv, BallInv, UNCHANGED <<now, ball>>
    PROVE  BallMoves
<1>1. now' \in Int /\ ball' \in Ball /\ BallInv'
  BY DEF TypeInv, BallInv, Sampling
<1>2. ball.boot \in Nat /\ ball.id \in Int
  BY DEF TypeInv, Ball
<1> QED BY <1>1, <1>2 DEF BallMoves

(* Another sample, valid or not (Tick, SensorError).                       *)
LEMMA BallSamples ==
    ASSUME TypeInv, BallInv, Sampling, NEW ok \in BOOLEAN, now' = now + 1,
           ball' = Sampled(ok)
    PROVE  BallMoves
<1>0. /\ ball \in Ball /\ now \in Int /\ Modulus \in Nat \ {0} /\ Ring \in Nat \ {0}
  BY CaptureAssumption DEF TypeInv
<1> DEFINE s == [boot |-> ball.boot, seq |-> (ball.seq + 1) % Modulus,
                 t |-> now + 1 - ball.since, ok |-> ok]
           r == Append(ball.ring, s)
           ring == IF Len(r) > Ring THEN Tail(r) ELSE r
<1>1. /\ ball.boot \in Nat /\ ball.seq \in Int /\ ball.since \in Int
      /\ ball.errors \in Int /\ ball.ring \in Seq(Sample)
      /\ ball.frozen \in Seq(Sample) /\ ball.id \in Int
  BY <1>0 DEF Ball
<1>2. s \in Sample
  <2>1. (ball.seq + 1) % Modulus \in Int
    BY <1>0, <1>1
  <2>2. now + 1 - ball.since \in Int
    BY <1>0, <1>1
  <2> QED BY <1>1, <2>1, <2>2 DEF Sample
<1>3. s.boot = ball.boot /\ s.t = now + 1 - ball.since /\ s.seq \in Int
  BY <1>2 DEF Sample
<1>4. ball' = [ball EXCEPT !.seq = s.seq, !.motion = s,
                           !.errors = @ + (IF ok THEN 0 ELSE 1), !.ring = ring]
  BY DEF Sampled
<1> HIDE DEF s
<1>5. ball.ring # <<>> => s.t = ball.ring[Len(ball.ring)].t + 1
  <2> SUFFICES ASSUME ball.ring # <<>> PROVE s.t = ball.ring[Len(ball.ring)].t + 1
    OBVIOUS
  <2>1. ball.ring[Len(ball.ring)].t = now - ball.since
    BY DEF BallInv
  <2>2. (now - ball.since) + 1 = now + 1 - ball.since
    BY <1>0, <1>1
  <2> QED BY <1>3, <2>1, <2>2
<1>6. /\ r \in Seq(Sample) /\ Steady(r) /\ AllFrom(r, ball.boot) /\ r # <<>> /\ r[Len(r)] = s
      /\ Len(r) > 1 =>
           /\ Tail(r) \in Seq(Sample) /\ Steady(Tail(r)) /\ AllFrom(Tail(r), ball.boot)
           /\ Tail(r) # <<>> /\ Tail(r)[Len(Tail(r))] = s
  <2>1. Steady(ball.ring) /\ AllFrom(ball.ring, ball.boot)
    BY DEF BallInv
  <2> QED BY <1>1, <1>2, <1>3, <1>5, <2>1, AnotherSample
<1>7. /\ ring \in Seq(Sample) /\ Steady(ring) /\ AllFrom(ring, ball.boot)
      /\ ring # <<>> /\ ring[Len(ring)] = s
  <2>1. Len(r) \in Nat /\ (Len(r) > Ring => Len(r) > 1)
    BY <1>0, <1>6, LenProperties
  <2> HIDE DEF r
  <2> QED BY <1>6, <2>1
<1> HIDE DEF r, ring
<1>8. /\ ball' \in Ball /\ ball'.boot = ball.boot /\ ball'.since = ball.since
      /\ ball'.ring = ring /\ ball'.motion = s /\ ball'.frozen = ball.frozen
      /\ ball'.id = ball.id
  <2>1. ball.errors + (IF ok THEN 0 ELSE 1) \in Int
    BY <1>1
  <2> QED BY <1>0, <1>2, <1>3, <1>4, <1>7, <2>1 DEF Ball
<1>9. BallInv'
  <2>1. ball'.ring[Len(ball'.ring)].t = now' - ball'.since
    <3>1. ball'.ring[Len(ball'.ring)] = s
      BY <1>7, <1>8
    <3>2. now' - ball'.since = now + 1 - ball.since
      BY <1>0, <1>1, <1>8
    <3> QED BY <1>3, <3>1, <3>2
  <2>2. Steady(ball'.frozen) /\ AllFrom(ball'.frozen, ball'.boot) /\ ball'.boot > 0
    BY <1>8 DEF BallInv
  <2>3. Steady(ball'.ring) /\ AllFrom(ball'.ring, ball'.boot) /\ ball'.motion.boot = ball'.boot
    BY <1>3, <1>7, <1>8
  <2> QED BY <2>1, <2>2, <2>3 DEF BallInv
<1> QED BY <1>0, <1>1, <1>8, <1>9 DEF BallMoves

(* Nothing sampled before can be retrieved any more (Wake, Fail, Recover). *)
LEMMA BallForgets ==
    ASSUME TypeInv, BallInv, now' = now, ball' \in Ball, ball'.boot = ball.boot,
           ball'.id = ball.id + 1, ball'.ring = <<>>, ball'.frozen = <<>>,
           ball'.motion = ball.motion
    PROVE  BallMoves
<1>1. ball.boot \in Nat /\ ball.id \in Int /\ now \in Int
  BY DEF TypeInv, Ball
<1>2. BallInv'
  <2>1. ball.motion # NoSample => ball.motion.boot = ball.boot
    BY DEF BallInv
  <2>2. ball.boot > 0
    BY DEF BallInv
  <2> QED BY <2>1, <2>2, NoSamples DEF BallInv
<1>3. ball.id <= ball'.id /\ ball'.id # ball.id
  BY <1>1
<1> QED BY <1>1, <1>2, <1>3 DEF BallMoves

(* A new boot.                                                             *)
LEMMA BallReboots ==
    ASSUME TypeInv, BallInv, now' = now, ball' = Rebooted
    PROVE  BallMoves
<1>1. ball \in Ball /\ now \in Int
  BY DEF TypeInv
<1>2. ball.boot \in Nat
  BY <1>1 DEF Ball
<1>3. /\ ball' \in Ball /\ ball'.boot = ball.boot + 1 /\ ball'.ring = <<>>
      /\ ball'.frozen = <<>> /\ ball'.motion = NoSample
  <2>1. ball.boot + 1 \in Nat
    BY <1>2
  <2> DEFINE none == NoSample
             empty == <<>>
  <2>2. none \in Sample /\ empty \in Seq(Sample)
    BY NoSamples
  <2>3. ball' = [boot |-> ball.boot + 1, since |-> now, seq |-> 0, ring |-> empty,
                 motion |-> none, frozen |-> empty, id |-> 0, errors |-> 0, generation |-> 0,
                 healthy |-> TRUE, awake |-> TRUE]
    BY DEF Rebooted
  <2> HIDE DEF none, empty
  <2>4. ball' \in Ball
    BY <1>1, <2>1, <2>2, <2>3 DEF Ball
  <2>5. /\ ball'.boot = ball.boot + 1 /\ ball'.ring = empty
        /\ ball'.frozen = empty /\ ball'.motion = none
    BY <2>3
  <2> QED BY <2>4, <2>5 DEF none, empty
<1>4. BallInv'
  <2>1. ball'.boot > 0
    BY <1>2, <1>3
  <2> QED BY <1>3, <2>1, NoSamples DEF BallInv
<1>5. ball.boot <= ball'.boot /\ ball'.boot # ball.boot
  BY <1>2, <1>3
<1> QED BY <1>1, <1>3, <1>4, <1>5 DEF BallMoves

(* The ring is frozen, by this host or another.                            *)
LEMMA BallFreezes ==
    ASSUME TypeInv, BallInv, now' = now, ball' = Freeze
    PROVE  BallMoves
<1>1. ball \in Ball /\ now \in Int
  BY DEF TypeInv
<1>2. ball.boot \in Nat /\ ball.id \in Int /\ ball.ring \in Seq(Sample)
  BY <1>1 DEF Ball
<1>3. /\ ball' \in Ball /\ ball'.boot = ball.boot /\ ball'.ring = ball.ring
      /\ ball'.frozen = ball.ring /\ ball'.motion = ball.motion /\ ball'.id = ball.id + 1
      /\ ball'.since = ball.since /\ ball'.awake = ball.awake /\ ball'.healthy = ball.healthy
  <2>1. ball' = [ball EXCEPT !.frozen = ball.ring, !.id = ball.id + 1]
    BY DEF Freeze
  <2>2. ball.id + 1 \in Int
    BY <1>2
  <2>3. ball' \in Ball
    BY <1>1, <1>2, <2>1, <2>2 DEF Ball
  <2> QED BY <1>1, <2>1, <2>3 DEF Ball
<1>4. BallInv'
  BY <1>3 DEF BallInv, Sampling
<1>5. ball.id <= ball'.id /\ ball'.id # ball.id
  BY <1>2, <1>3
<1> QED BY <1>1, <1>2, <1>3, <1>4, <1>5 DEF BallMoves

(* Idle: the ring stays.                                                   *)
LEMMA BallDozes ==
    ASSUME TypeInv, BallInv, now' = now, ball' = [ball EXCEPT !.awake = FALSE]
    PROVE  BallMoves
<1>1. ball \in Ball /\ now \in Int
  BY DEF TypeInv
<1>2. /\ ball' \in Ball /\ ball'.boot = ball.boot /\ ball'.ring = ball.ring
      /\ ball'.frozen = ball.frozen /\ ball'.motion = ball.motion /\ ball'.id = ball.id
      /\ ball'.awake = FALSE
  BY <1>1 DEF Ball
<1>3. BallInv'
  BY <1>2 DEF BallInv, Sampling
<1>4. ball.boot \in Nat /\ ball.id \in Int
  BY <1>1 DEF Ball
<1> QED BY <1>1, <1>2, <1>3, <1>4 DEF BallMoves

(* A Ball that does not sample lets a period pass.                         *)
LEMMA BallRests ==
    ASSUME TypeInv, BallInv, ~Sampling, now' = now + 1, ball' = ball
    PROVE  BallMoves
<1>1. now' \in Int /\ ball' \in Ball /\ BallInv'
  <2>1. now' \in Int /\ ball' \in Ball
    <3>1. now \in Int /\ ball \in Ball
      BY DEF TypeInv
    <3> QED BY <3>1
  <2>2. ~Sampling'
    BY DEF Sampling
  <2>3. BallInv'
    BY <2>2 DEF BallInv
  <2> QED BY <2>1, <2>3
<1>2. ball.boot \in Nat /\ ball.id \in Int
  BY DEF TypeInv, Ball
<1> QED BY <1>1, <1>2 DEF BallMoves

(* What is forgotten.                                                      *)
LEMMA ClearedBall ==
    ASSUME TypeInv
    PROVE  LET b == Cleared(ball)
           IN  /\ b \in Ball /\ b.boot = ball.boot /\ b.id = ball.id + 1
               /\ b.ring = <<>> /\ b.frozen = <<>> /\ b.motion = ball.motion
<1> DEFINE empty == <<>>
           b == Cleared(ball)
<1>1. ball \in Ball /\ empty \in Seq(Sample)
  BY NoSamples DEF TypeInv
<1>2. b = [ball EXCEPT !.ring = empty, !.frozen = empty, !.id = ball.id + 1]
  BY DEF Cleared
<1>3. ball.id + 1 \in Int
  BY <1>1 DEF Ball
<1> HIDE DEF empty, b
<1>4. b \in Ball
  BY <1>1, <1>2, <1>3 DEF Ball
<1>5. /\ b.boot = ball.boot /\ b.id = ball.id + 1
      /\ b.ring = empty /\ b.frozen = empty /\ b.motion = ball.motion
  BY <1>1, <1>2 DEF Ball
<1> QED BY <1>4, <1>5 DEF empty, b

(* Every action moves the Ball in one of these ways.                       *)
LEMMA BallStep ==
    ASSUME TypeInv, BallInv, [Next]_vars
    PROVE  BallMoves
<1>1. CASE Tick
  <2>1. CASE Sampling
    <3>1. TRUE \in BOOLEAN /\ now' = now + 1 /\ ball' = Sampled(TRUE)
      BY <1>1, <2>1 DEF Tick
    <3> QED BY <2>1, <3>1, BallSamples
  <2>2. CASE ~Sampling
    <3>1. now' = now + 1 /\ ball' = ball
      BY <1>1, <2>2 DEF Tick
    <3> QED BY <2>2, <3>1, BallRests
  <2> QED BY <2>1, <2>2
<1>2. CASE SensorError
  <2>1. FALSE \in BOOLEAN /\ Sampling /\ now' = now + 1 /\ ball' = Sampled(FALSE)
    BY <1>2 DEF SensorError
  <2> QED BY <2>1, BallSamples
<1>3. CASE Reboot
  <2>1. now' = now /\ ball' = Rebooted
    BY <1>3 DEF Reboot, Upset
  <2> QED BY <2>1, BallReboots
<1>4. CASE OtherFreeze
  <2>1. now' = now /\ ball' = Freeze
    BY <1>4 DEF OtherFreeze, Upset
  <2> QED BY <2>1, BallFreezes
<1>5. CASE Doze
  <2>1. now' = now /\ ball' = [ball EXCEPT !.awake = FALSE]
    BY <1>5 DEF Doze, Upset
  <2> QED BY <2>1, BallDozes
<1> DEFINE b == Cleared(ball)
<1>6. /\ b \in Ball /\ b.boot = ball.boot /\ b.id = ball.id + 1
      /\ b.ring = <<>> /\ b.frozen = <<>> /\ b.motion = ball.motion
  BY ClearedBall
<1>7. ASSUME now' = now,
             \/ ball' = [b EXCEPT !.awake = TRUE]
             \/ ball' = [b EXCEPT !.healthy = TRUE]
             \/ ball' = [b EXCEPT !.healthy = FALSE, !.generation = @ + 1]
      PROVE  BallMoves
  <2> HIDE DEF b
  <2>1. b.generation + 1 \in Int
    BY <1>6 DEF Ball
  <2>2. /\ ball' \in Ball /\ ball'.boot = ball.boot /\ ball'.id = ball.id + 1
        /\ ball'.ring = <<>> /\ ball'.frozen = <<>> /\ ball'.motion = ball.motion
    <3>1. CASE ball' = [b EXCEPT !.awake = TRUE]
      BY <1>6, <3>1 DEF Ball
    <3>2. CASE ball' = [b EXCEPT !.healthy = TRUE]
      BY <1>6, <3>2 DEF Ball
    <3>3. CASE ball' = [b EXCEPT !.healthy = FALSE, !.generation = @ + 1]
      BY <1>6, <2>1, <3>3 DEF Ball
    <3> QED BY <1>7, <3>1, <3>2, <3>3
  <2> QED BY <1>7, <2>2, BallForgets
<1>8. CASE Wake
  <2>1. now' = now /\ ball' = [b EXCEPT !.awake = TRUE]
    BY <1>8 DEF Wake, Restarted, world
  <2> HIDE DEF b
  <2> QED BY <1>7, <2>1
<1>9. CASE Recover
  <2>1. now' = now /\ ball' = [b EXCEPT !.healthy = TRUE]
    BY <1>9 DEF Recover, Restarted, world
  <2> HIDE DEF b
  <2> QED BY <1>7, <2>1
<1>10. CASE Fail
  <2>1. now' = now /\ ball' = [b EXCEPT !.healthy = FALSE, !.generation = @ + 1]
    BY <1>10 DEF Fail, Upset
  <2> HIDE DEF b
  <2> QED BY <1>7, <2>1
<1>11. ASSUME now' = now, ball' = ball \/ ball' = Freeze PROVE BallMoves
  BY <1>11, BallStands, BallFreezes
<1>12. CASE NoAnswer
  <2>1. now' = now /\ (ball' = ball \/ ball' = Freeze)
    BY <1>12 DEF NoAnswer, Served
  <2> QED BY <1>11, <2>1
<1>13. CASE \/ GetStatus \/ GetMarker \/ FreezeHistory \/ GetChunk \/ GetWindow \/ GetFinal
  <2>1. now' = now /\ (ball' = ball \/ ball' = Freeze)
    BY <1>13 DEF GetStatus, GetMarker, FreezeHistory, GetChunk, GetWindow, GetFinal, Answered,
                 Served, world
  <2> QED BY <1>11, <2>1
<1>14. CASE \/ Countdown \/ Acknowledge \/ EpisodeOver \/ SelectWindow \/ WriteSample
            \/ Written \/ Kill \/ Evaluate \/ UNCHANGED vars
  <2>1. now' = now /\ ball' = ball
    BY <1>14 DEF Countdown, Acknowledge, EpisodeOver, SelectWindow, WriteSample, Written, Kill,
                 Evaluate, vars, world
  <2> QED BY <1>11, <2>1
<1> QED BY <1>1, <1>2, <1>3, <1>4, <1>5, <1>8, <1>9, <1>10, <1>12, <1>13, <1>14 DEF Next

-----------------------------------------------------------------------------
(* Types.                                                                  *)

(* The host has nothing at first, and nothing any more when it ends.       *)
LEMMA NoHostType ==
    /\ NoHost \in Host /\ NoHost.got = <<>> /\ NoHost.chunks = <<>>
    /\ NoHost.status.boot = 0
<1> DEFINE empty == <<>>
<1>1. /\ NoStatus \in StatusRecord /\ NoMeta \in MetaRecord /\ NoStatus.boot = 0
  BY DEF NoStatus, NoMeta, StatusRecord, MetaRecord
<1>2. /\ NoSample \in Sample /\ empty \in Seq(Sample) /\ empty \in Seq(ChunkRecord)
  BY NoSamples
<1>3. NoHost = [status |-> NoStatus, marker |-> NoSample, meta |-> NoMeta, chunks |-> empty,
                index |-> 0, failed |-> 0, got |-> empty]
  BY DEF NoHost
<1> HIDE DEF empty
<1>4. NoHost \in Host
  BY <1>1, <1>2, <1>3 DEF Host
<1>5. NoHost.got = empty /\ NoHost.chunks = empty /\ NoHost.status = NoStatus
  BY <1>3
<1> QED BY <1>1, <1>4, <1>5 DEF empty

(* The host's part of the types.                                           *)
HostTypes ==
    /\ at \in Places \cup {"end"} /\ until \in Int
    /\ host \in Host /\ todo \in Seq(Sample)
    /\ exit \in {"", "PASS", "FAIL", "killed"} \cup Places

(* The types of what an ending leaves.                                     *)
LEMMA StopTypes ==
    ASSUME NEW how \in {"PASS", "FAIL", "killed"} \cup Places, Stop(how)
    PROVE  HostTypes'
<1>1. /\ at' = "end" /\ until' = 0 /\ host' = NoHost /\ todo' = <<>> /\ exit' = how
  BY DEF Stop
<1>2. host' \in Host /\ todo' \in Seq(Sample) /\ until' \in Int
  BY <1>1, NoHostType, NoSamples
<1>3. at' \in Places \cup {"end"} /\ exit' \in {"", "PASS", "FAIL", "killed"} \cup Places
  BY <1>1
<1> QED BY <1>2, <1>3 DEF HostTypes

(* The line that a step writes.                                            *)
LEMMA WriteTypes ==
    ASSUME TypeInv, NEW line \in Line, Write(line)
    PROVE  /\ file' \in Seq(Line) /\ Len(file') = Len(file) + 1 /\ Len(file) \in Nat
           /\ file'[Len(file) + 1] = line
           /\ \A i \in 1 .. Len(file) : file'[i] = file[i]
           /\ DOMAIN file = 1 .. Len(file) /\ DOMAIN file' = 1 .. Len(file) + 1
<1>1. file \in Seq(Line) /\ file' = Append(file, line)
  BY DEF TypeInv, Write
<1>2. /\ file' \in Seq(Line) /\ Len(file') = Len(file) + 1 /\ Len(file) \in Nat
      /\ file'[Len(file) + 1] = line
      /\ \A i \in 1 .. Len(file) : file'[i] = file[i]
  BY <1>1, AppendProperties, LenProperties
<1>3. DOMAIN file = 1 .. Len(file) /\ DOMAIN file' = 1 .. Len(file')
  BY <1>1, <1>2, LenProperties
<1> QED BY <1>2, <1>3

(* The lines there are.                                                    *)
LEMMA LineTypes ==
    ASSUME TypeInv
    PROVE  /\ [kind |-> "status", label |-> label] \in Line
           /\ \A t \in Int, b \in Nat :
                [kind |-> "marker", label |-> label, t |-> t, boot |-> b] \in Line
           /\ \A t \in Int : [kind |-> "window", label |-> label, t |-> t] \in Line
           /\ \A s \in Sample : [kind |-> "motion", label |-> label, sample |-> s] \in Line
           /\ \A r \in {"PASS", "FAIL"} :
                [kind |-> "result", label |-> label, status |-> r] \in Line
<1>1. label \in Labels
  BY DEF TypeInv
<1>2. [kind |-> "status", label |-> label] \in Line
  BY <1>1 DEF Line
<1>3. \A t \in Int, b \in Nat :
                [kind |-> "marker", label |-> label, t |-> t, boot |-> b] \in Line
  BY <1>1 DEF Line
<1>4. \A t \in Int : [kind |-> "window", label |-> label, t |-> t] \in Line
  BY <1>1 DEF Line
<1>5. \A s \in Sample : [kind |-> "motion", label |-> label, sample |-> s] \in Line
  BY <1>1 DEF Line
<1>6. \A r \in {"PASS", "FAIL"} :
                [kind |-> "result", label |-> label, status |-> r] \in Line
  BY <1>1 DEF Line
<1> QED BY <1>2, <1>3, <1>4, <1>5, <1>6

(* The status and the metadata the Ball answers with.                      *)
LEMMA StatusType ==
    ASSUME TypeInv
    PROVE  Status \in StatusRecord /\ Status.boot = ball.boot
<1>1. /\ ball.boot \in Nat /\ ball.seq \in Int /\ now - ball.since \in Int
      /\ ball.errors \in Int /\ ball.generation \in Int /\ ball.healthy \in BOOLEAN
  <2>1. ball \in Ball /\ now \in Int
    BY DEF TypeInv
  <2>2. /\ ball.boot \in Nat /\ ball.seq \in Int /\ ball.since \in Int
        /\ ball.errors \in Int /\ ball.generation \in Int /\ ball.healthy \in BOOLEAN
    BY <2>1 DEF Ball
  <2> QED BY <2>1, <2>2
<1> QED BY <1>1 DEF Status, StatusRecord

(* The metadata it answers with.                                           *)
LEMMA MetaType ==
    ASSUME TypeInv
    PROVE  Meta \in MetaRecord /\ Meta.id = ball.id + 1 /\ Meta.count = Len(ball.ring)
<1>1. ball.id + 1 \in Int /\ ball.ring \in Seq(Sample)
  <2>1. ball \in Ball
    BY DEF TypeInv
  <2>2. ball.id \in Int /\ ball.ring \in Seq(Sample)
    BY <2>1 DEF Ball
  <2> QED BY <2>2
<1>2. Len(ball.ring) \in Nat
  BY <1>1, LenProperties
<1> DEFINE first == IF ball.ring = <<>> THEN 0 ELSE Head(ball.ring).seq
           last == IF ball.ring = <<>> THEN 0 ELSE Last(ball.ring).seq
<1>3. first \in Int /\ last \in Int
  <2>1. CASE ball.ring = <<>>
    BY <2>1
  <2>2. CASE ball.ring # <<>>
    <3>1. Len(ball.ring) \in 1 .. Len(ball.ring)
      BY <1>1, <1>2, <2>2
    <3>2. Head(ball.ring) \in Sample /\ ball.ring[Len(ball.ring)] \in Sample
      BY <1>1, <2>2, <3>1, HeadTailProperties, ElementOfSeq
    <3> QED BY <2>2, <3>2 DEF Last, Sample
  <2> QED BY <2>1, <2>2
<1>4. Meta = [id |-> ball.id + 1, count |-> Len(ball.ring), first |-> first, last |-> last]
  BY DEF Meta
<1> HIDE DEF first, last
<1> QED BY <1>1, <1>2, <1>3, <1>4 DEF MetaRecord

-----------------------------------------------------------------------------
(* Whatever the chunks hold, they and the selection are samples.           *)

(* What is selected are samples.                                           *)
LEMMA SelectedType ==
    ASSUME Batch \in Seq(Sample)
    PROVE  Selected \in Seq(Sample)
  BY PickedType DEF Selected

(* There are partial lists of every list of chunks.                        *)
LEMMA FlattensExist ==
    ASSUME NEW D \in Seq(Seq(Sample))
    PROVE  \E f : Flattens(f, D)
<1>0. Len(D) \in Nat /\ \A i \in 1 .. Len(D) : D[i] \in Seq(Sample)
  BY LenProperties, ElementOfSeq
<1> DEFINE Upto(n, f) ==
             /\ f \in [1 .. n -> Seq(Sample)]
             /\ \A k \in 1 .. n : f[k] = IF k = 1 THEN D[k] ELSE f[k - 1] \o D[k]
           Has(n) == \E f : Upto(n, f)
           S == {n \in Nat : n <= Len(D) => Has(n)}
<1>1. 0 \in S
  <2>1. Upto(0, [k \in 1 .. 0 |-> 0])
    OBVIOUS
  <2> QED BY <2>1
<1>2. \A n \in S : n + 1 \in S
  <2> SUFFICES ASSUME NEW n \in Nat, n <= Len(D) => Has(n), n + 1 <= Len(D)
               PROVE  Has(n + 1)
    <3> HIDE DEF Has
    <3> QED OBVIOUS
  <2>1. n <= Len(D) /\ n + 1 \in 1 .. Len(D)
    BY <1>0
  <2>2. PICK f : Upto(n, f)
    BY <2>1
  <2> DEFINE new == IF n + 1 = 1 THEN D[n + 1] ELSE f[n] \o D[n + 1]
             h == [k \in 1 .. n + 1 |-> IF k = n + 1 THEN new ELSE f[k]]
  <2>3. D[n + 1] \in Seq(Sample)
    BY <1>0, <2>1
  <2>4. new \in Seq(Sample)
    <3>1. CASE n + 1 = 1
      BY <2>3, <3>1
    <3>2. CASE n + 1 # 1
      <4>1. n \in 1 .. n
        BY <3>2
      <4>2. f[n] \in Seq(Sample)
        BY <2>2, <4>1
      <4>3. f[n] \o D[n + 1] \in Seq(Sample)
        BY <2>3, <4>2, ConcatProperties
      <4> QED BY <3>2, <4>3
    <3> QED BY <3>1, <3>2
  <2>5. \A k \in 1 .. n + 1 : k # n + 1 => k \in 1 .. n
    OBVIOUS
  <2> HIDE DEF new
  <2>6. h \in [1 .. n + 1 -> Seq(Sample)]
    BY <2>2, <2>4, <2>5
  <2>7. h[n + 1] = new /\ \A k \in 1 .. n : h[k] = f[k]
    <3>1. n + 1 \in 1 .. n + 1
      OBVIOUS
    <3>2. \A k \in 1 .. n : k \in 1 .. n + 1 /\ k # n + 1
      OBVIOUS
    <3> QED BY <3>1, <3>2
  <2> HIDE DEF h
  <2>8. \A k \in 1 .. n + 1 : h[k] = IF k = 1 THEN D[k] ELSE h[k - 1] \o D[k]
    <3> SUFFICES ASSUME NEW k \in 1 .. n + 1
                 PROVE  h[k] = IF k = 1 THEN D[k] ELSE h[k - 1] \o D[k]
      OBVIOUS
    <3>1. CASE k = n + 1
      <4>1. k - 1 = n /\ (k # 1 => n \in 1 .. n)
        BY <3>1
      <4>2. k # 1 => h[n] = f[n]
        BY <2>7, <4>1
      <4> QED BY <2>7, <3>1, <4>1, <4>2 DEF new
    <3>2. CASE k # n + 1
      <4>1. k \in 1 .. n /\ (k # 1 => k - 1 \in 1 .. n)
        BY <3>2
      <4> QED BY <2>2, <2>7, <4>1
    <3> QED BY <3>1, <3>2
  <2> QED BY <2>6, <2>8
<1>3. Len(D) \in S
  <2>1. S \in SUBSET Nat
    OBVIOUS
  <2> HIDE DEF S
  <2> QED BY <1>0, <1>1, <1>2, <2>1, EveryNatural
<1>4. PICK f : Upto(Len(D), f)
  BY <1>0, <1>3
<1>5. f = [i \in 1 .. Len(D) |-> IF i = 1 THEN D[i] ELSE f[i - 1] \o D[i]]
  BY <1>4
<1> QED BY <1>5 DEF Flattens

(* What is put together are samples.                                       *)
LEMMA FlattenType ==
    ASSUME NEW D \in Seq(Seq(Sample))
    PROVE  FlattenSeq(D) \in Seq(Sample)
<1>0. Len(D) \in Nat /\ \A i \in 1 .. Len(D) : D[i] \in Seq(Sample)
  BY LenProperties, ElementOfSeq
<1>1. CASE Len(D) = 0
  <2>1. FlattenSeq(D) = D /\ D = <<>>
    BY <1>1 DEF FlattenSeq
  <2> QED BY <2>1, NoSamples
<1>2. CASE Len(D) # 0
  <2>1. PICK g : Flattens(g, D) /\ FlattenSeq(D) = g[Len(D)]
    <3>1. PICK f : Flattens(f, D)
      BY FlattensExist
    <3> QED BY <1>2, <3>1, FlattenIsLast
  <2>2. \A i \in 1 .. Len(D) : g[i] = IF i = 1 THEN D[i] ELSE g[i - 1] \o D[i]
    BY <2>1 DEF Flattens
  <2> DEFINE S == {n \in Nat : n + 1 <= Len(D) => g[n + 1] \in Seq(Sample)}
  <2>3. 0 \in S
    <3>1. 1 \in 1 .. Len(D) /\ 0 + 1 = 1
      BY <1>0, <1>2
    <3>2. g[1] = D[1]
      BY <2>2, <3>1
    <3> QED BY <1>0, <3>1, <3>2
  <2>4. \A n \in S : n + 1 \in S
    <3> SUFFICES ASSUME NEW n \in Nat, n + 1 <= Len(D) => g[n + 1] \in Seq(Sample),
                        n + 1 + 1 <= Len(D)
                 PROVE  g[n + 1 + 1] \in Seq(Sample)
      OBVIOUS
    <3>1. /\ n + 1 + 1 \in 1 .. Len(D) /\ n + 1 + 1 # 1 /\ (n + 1 + 1) - 1 = n + 1
          /\ n + 1 <= Len(D)
      BY <1>0
    <3>2. g[n + 1 + 1] = g[n + 1] \o D[n + 1 + 1]
      BY <2>2, <3>1
    <3>3. g[n + 1] \in Seq(Sample) /\ D[n + 1 + 1] \in Seq(Sample)
      BY <1>0, <3>1
    <3> QED BY <3>2, <3>3, ConcatProperties
  <2>5. Len(D) - 1 \in Nat /\ (Len(D) - 1) + 1 = Len(D)
    BY <1>0, <1>2
  <2>6. Len(D) - 1 \in S
    <3>1. S \in SUBSET Nat
      OBVIOUS
    <3> HIDE DEF S
    <3> QED BY <2>3, <2>4, <2>5, <3>1, EveryNatural
  <2> QED BY <1>0, <2>1, <2>5, <2>6
<1> QED BY <1>1, <1>2

(* The data of the chunks.                                                 *)
Data == [i \in DOMAIN host.chunks |-> host.chunks[i].data]

(* The batch is made of samples.                                           *)
LEMMA BatchType ==
    ASSUME TypeInv
    PROVE  /\ Data \in Seq(Seq(Sample)) /\ Len(Data) = Len(host.chunks)
           /\ \A j \in 1 .. Len(host.chunks) : Data[j] = host.chunks[j].data
           /\ Batch = FlattenSeq(Data) /\ Batch \in Seq(Sample)
<1>1. host.chunks \in Seq(ChunkRecord)
  <2>1. host \in Host
    BY DEF TypeInv
  <2> QED BY <2>1 DEF Host
<1> DEFINE n == Len(host.chunks)
<1>2. n \in Nat /\ DOMAIN host.chunks = 1 .. n /\ \A j \in 1 .. n : host.chunks[j] \in ChunkRecord
  BY <1>1, LenProperties, ElementOfSeq
<1>3. Data = [j \in 1 .. n |-> host.chunks[j].data]
  BY <1>2 DEF Data
<1>4. \A j \in 1 .. n : host.chunks[j].data \in Seq(Sample)
  BY <1>2 DEF ChunkRecord
<1> HIDE DEF n
<1>5. Data \in [1 .. n -> Seq(Sample)]
  BY <1>3, <1>4
<1>6. Data \in Seq(Seq(Sample)) /\ Len(Data) = n
  BY <1>2, <1>5
<1>7. \A j \in 1 .. n : Data[j] = host.chunks[j].data
  BY <1>3
<1>8. Batch = FlattenSeq(Data)
  BY DEF Batch, Data
<1> QED BY <1>6, <1>7, <1>8, FlattenType DEF n

(* A piece of samples is samples.                                          *)
LEMMA SpanType ==
    ASSUME NEW F \in Seq(Sample), NEW m \in Nat, NEW n \in Int, m >= 1, n <= Len(F)
    PROVE  SubSeq(F, m, n) \in Seq(Sample)
<1>1. Len(F) \in Nat
  BY LenProperties
<1>2. \A i \in m .. n : F[i] \in Sample
  <2> TAKE i \in m .. n
  <2>1. i \in 1 .. Len(F)
    BY <1>1
  <2> QED BY <2>1, ElementOfSeq
<1>3. m \in Int
  OBVIOUS
<1> QED BY <1>2, <1>3, SubSeqProperties

(* The answer to a request for a chunk.                                    *)
LEMMA ChunkType ==
    ASSUME TypeInv, NEW i \in Nat
    PROVE  /\ ChunkAt(i) \in ChunkRecord /\ ChunkAt(i).id = ball.id
           /\ ChunkAt(i).data = Piece(ball.frozen, i)
<1>1. ball.id \in Int /\ ball.frozen \in Seq(Sample)
  BY DEF TypeInv, Ball
<1>2. ChunkAt(i) = [id |-> ball.id, index |-> i, data |-> Piece(ball.frozen, i)]
  BY DEF ChunkAt, Piece, UpTo
<1>3. Piece(ball.frozen, i) \in Seq(Sample)
  <2> DEFINE a == i * Chunk
             b == (i + 1) * Chunk
  <2>1. a \in Nat /\ b \in Nat
    BY CaptureAssumption
  <2>2. Len(ball.frozen) \in Nat
    BY <1>1, LenProperties
  <2>3. Piece(ball.frozen, i) = SubSeq(ball.frozen, a + 1, UpTo(Len(ball.frozen), b))
    BY DEF Piece
  <2> HIDE DEF a, b
  <2>4. /\ a + 1 \in Nat /\ a + 1 >= 1 /\ UpTo(Len(ball.frozen), b) \in Int
        /\ UpTo(Len(ball.frozen), b) <= Len(ball.frozen)
    BY <2>1, <2>2 DEF UpTo
  <2> QED BY <1>1, <2>3, <2>4, SpanType
<1> QED BY <1>1, <1>2, <1>3 DEF ChunkRecord

(* The answer to a request for the newest samples.                         *)
LEMMA NewestType ==
    ASSUME TypeInv, AllFrom(ball.ring, ball.boot)
    PROVE  Newest \in Seq(Sample) /\ AllFrom(Newest, ball.boot)
<1>1. ball.ring \in Seq(Sample)
  BY DEF TypeInv, Ball
<1>2. Len(ball.ring) \in Nat /\ Chunk \in Nat
  BY <1>1, CaptureAssumption, LenProperties
<1> DEFINE m == IF Len(ball.ring) > Chunk THEN Len(ball.ring) - Chunk + 1 ELSE 1
           n == Len(ball.ring)
           p == SubSeq(ball.ring, m, n)
<1>3. m \in Nat /\ m >= 1 /\ m \in Int /\ n \in Int /\ n <= Len(ball.ring)
  BY <1>2
<1>4. Newest = p
  BY DEF Newest
<1> HIDE DEF m, n
<1>5. p \in Seq(Sample)
  BY <1>1, <1>3, SpanType
<1>6. AllFrom(p, ball.boot)
  <2>1. \A i \in m .. n : ball.ring[i] \in Sample
    <3> TAKE i \in m .. n
    <3>1. i \in 1 .. Len(ball.ring)
      BY <1>2, <1>3
    <3> QED BY <1>1, <3>1, ElementOfSeq
  <2>2. /\ Len(p) = IF m <= n THEN n - m + 1 ELSE 0
        /\ \A i \in 1 .. n - m + 1 : p[i] = ball.ring[m + i - 1]
    BY <1>3, <2>1, SubSeqProperties
  <2> SUFFICES ASSUME NEW i \in 1 .. Len(p) PROVE p[i].boot = ball.boot
    BY DEF AllFrom
  <2>3. i \in 1 .. n - m + 1 /\ m + i - 1 \in 1 .. Len(ball.ring)
    BY <1>2, <1>3, <2>2
  <2> QED BY <2>2, <2>3 DEF AllFrom
<1> QED BY <1>4, <1>5, <1>6

(* The countdown and the episode take time.                                *)
LEMMA Durations == PreRoll \in Int /\ Episode \in Int /\ PreRoll > 0 /\ Episode > 0
<1>1. PreRoll \in Nat \ {0} /\ Episode \in Nat \ {0}
  BY CaptureAssumption
<1> QED BY <1>1

(* Each field of what the host has.                                        *)
LEMMA HostFields ==
    ASSUME TypeInv
    PROVE  /\ host.status \in StatusRecord /\ host.marker \in Sample
           /\ host.meta \in MetaRecord /\ host.chunks \in Seq(ChunkRecord)
           /\ host.index \in Nat /\ host.failed \in Nat /\ host.got \in Seq(Sample)
  BY DEF TypeInv, Host

(* Types: what the steps of the host leave.                                *)
LEMMA HostTypeStep ==
    ASSUME TypeInv, AllFrom(ball.ring, ball.boot), [Next]_vars
    PROVE  HostTypes'
<1>0. /\ at \in Places \cup {"end"} /\ until \in Int
      /\ host \in Host /\ todo \in Seq(Sample)
      /\ exit \in {"", "PASS", "FAIL", "killed"} \cup Places /\ now \in Int
  BY DEF TypeInv
<1>1. HostTypes
  BY <1>0 DEF HostTypes
<1>2. ASSUME Working, at \in Places, Stop(at) PROVE HostTypes'
  BY <1>2, StopTypes
<1>3. CASE \/ Tick \/ SensorError \/ Reboot \/ OtherFreeze \/ Doze \/ Wake \/ Fail \/ Recover
           \/ Evaluate \/ UNCHANGED vars
  <2>1. UNCHANGED <<at, until, host, todo, exit>>
    BY <1>3 DEF Tick, SensorError, Reboot, OtherFreeze, Doze, Wake, Fail, Recover, Evaluate,
                Upset, HostWaits, vars
  <2> QED BY <1>1, <2>1 DEF HostTypes
<1>4. CASE NoAnswer
  <2>1. Working /\ at \in Places
    BY <1>4 DEF NoAnswer, Places
  <2>2. \/ UNCHANGED <<at, until, host, todo, exit>>
        \/ /\ host' = [host EXCEPT !.failed = @ + 1, !.index = @ + 1]
           /\ at' = "write" /\ UNCHANGED <<until, todo, exit>>
        \/ Stop(at)
    BY <1>4 DEF NoAnswer
  <2>3. CASE UNCHANGED <<at, until, host, todo, exit>>
    BY <1>1, <2>3 DEF HostTypes
  <2>4. CASE /\ host' = [host EXCEPT !.failed = @ + 1, !.index = @ + 1]
             /\ at' = "write" /\ UNCHANGED <<until, todo, exit>>
    <3>1. host.failed + 1 \in Nat /\ host.index + 1 \in Nat
      BY HostFields
    <3>2. host' \in Host
      BY <1>0, <2>4, <3>1 DEF Host
    <3> QED BY <1>0, <2>4, <3>2 DEF HostTypes, Places
  <2> QED BY <1>2, <2>1, <2>2, <2>3, <2>4
<1>5. CASE GetStatus
  <2>1. Working /\ at = "status" /\ at \in Places
    BY <1>5 DEF GetStatus, Answered, Places, RequestSteps
  <2>2. CASE Status.healthy
    <3>1. /\ host' = [host EXCEPT !.status = Status]
          /\ at' \in {"countdown", "freeze", "window"} /\ until' = now + PreRoll
          /\ UNCHANGED <<todo, exit>>
      BY <1>5, <2>2 DEF GetStatus
    <3>2. until' \in Int
      <4>1. PreRoll \in Int /\ now \in Int /\ until' = now + PreRoll
        BY <1>0, <3>1, Durations
      <4> QED BY <4>1
    <3>3. host' \in Host
      BY <1>0, <3>1, StatusType DEF Host
    <3> QED BY <1>0, <3>1, <3>2, <3>3 DEF HostTypes, Places, RequestSteps
  <2>3. CASE ~Status.healthy
    <3>1. Stop(at)
      BY <1>5, <2>3 DEF GetStatus
    <3> QED BY <1>2, <2>1, <3>1
  <2> QED BY <2>2, <2>3
<1>6. CASE Countdown \/ EpisodeOver \/ Written
  <2>1. at' \in {"marker", "freeze", "window", "final"} /\ UNCHANGED <<until, host, todo, exit>>
    BY <1>6 DEF Countdown, EpisodeOver, Written
  <2> QED BY <1>0, <2>1 DEF HostTypes, Places, RequestSteps
<1>7. CASE GetMarker
  <2>1. Working /\ at = "marker" /\ at \in Places
    BY <1>7 DEF GetMarker, Answered, Places, RequestSteps
  <2>2. CASE ball.motion = NoSample
    <3>1. Stop(at)
      BY <1>7, <2>2 DEF GetMarker
    <3> QED BY <1>2, <2>1, <3>1
  <2>3. CASE ball.motion # NoSample
    <3>1. /\ host' = [host EXCEPT !.marker = ball.motion] /\ at' = "acknowledge"
          /\ UNCHANGED <<until, todo, exit>>
      BY <1>7, <2>3 DEF GetMarker
    <3>2. ball.motion \in Sample
      BY DEF TypeInv, Ball
    <3>3. host' \in Host
      BY <1>0, <3>1, <3>2 DEF Host
    <3> QED BY <1>0, <3>1, <3>3 DEF HostTypes, Places
  <2> QED BY <2>2, <2>3
<1>8. CASE Acknowledge
  <2>1. Working /\ at = "acknowledge" /\ at \in Places
    BY <1>8 DEF Acknowledge, Places
  <2>2. CASE Stop(at)
    BY <1>2, <2>1, <2>2
  <2>3. CASE at' = "episode" /\ until' = now + Episode /\ UNCHANGED <<host, todo, exit>>
    <3>1. until' \in Int
      <4>1. Episode \in Int /\ now \in Int /\ until' = now + Episode
        BY <1>0, <2>3, Durations
      <4> QED BY <4>1
    <3> QED BY <1>0, <2>3, <3>1 DEF HostTypes, Places
  <2> QED BY <1>8, <2>2, <2>3 DEF Acknowledge
<1>9. CASE FreezeHistory
  <2>1. Working /\ at = "freeze" /\ at \in Places
    BY <1>9 DEF FreezeHistory, Answered, Places, RequestSteps
  <2>2. CASE MetaValid(Meta)
    <3>1. /\ host' = [host EXCEPT !.meta = Meta] /\ at' \in {"select", "chunk"}
          /\ UNCHANGED <<until, todo, exit>>
      BY <1>9, <2>2 DEF FreezeHistory
    <3>2. host' \in Host
      BY <1>0, <3>1, MetaType DEF Host
    <3> QED BY <1>0, <3>1, <3>2 DEF HostTypes, Places, RequestSteps
  <2>3. CASE ~MetaValid(Meta)
    <3>1. Stop(at)
      BY <1>9, <2>3 DEF FreezeHistory
    <3> QED BY <1>2, <2>1, <3>1
  <2> QED BY <2>2, <2>3
<1>10. CASE GetChunk
  <2> DEFINE n == Len(host.chunks)
  <2>1. /\ host' = [host EXCEPT !.chunks = Append(@, ChunkAt(n))]
        /\ at' \in {"select", "chunk"} /\ UNCHANGED <<until, todo, exit>>
    BY <1>10 DEF GetChunk
  <2>2. host.chunks \in Seq(ChunkRecord) /\ n \in Nat
    BY HostFields, LenProperties
  <2>3. ChunkAt(n) \in ChunkRecord
    BY <2>2, ChunkType
  <2>4. Append(host.chunks, ChunkAt(n)) \in Seq(ChunkRecord)
    BY <2>2, <2>3, AppendProperties
  <2>5. host' \in Host
    BY <1>0, <2>1, <2>4 DEF Host
  <2> QED BY <1>0, <2>1, <2>5 DEF HostTypes, Places, RequestSteps
<1>11. CASE SelectWindow
  <2>1. Working /\ at = "select" /\ at \in Places
    BY <1>11 DEF SelectWindow, Places
  <2>2. \/ /\ todo' \in {Selected, Batch} /\ at' = "write" /\ UNCHANGED <<until, host, exit>>
        \/ Stop(at)
    BY <1>11 DEF SelectWindow
  <2>3. CASE /\ todo' \in {Selected, Batch} /\ at' = "write" /\ UNCHANGED <<until, host, exit>>
    <3>1. todo' \in Seq(Sample)
      BY <2>3, BatchType, SelectedType
    <3> QED BY <1>0, <2>3, <3>1 DEF HostTypes, Places
  <2> QED BY <1>2, <2>1, <2>2, <2>3
<1>12. CASE GetWindow
  <2>1. Working /\ at = "window" /\ at \in Places
    BY <1>12 DEF GetWindow, Answered, Places, RequestSteps
  <2>2. CASE Contiguous(Newest)
    <3>1. /\ host' = [host EXCEPT !.failed = 0, !.index = @ + 1]
          /\ todo' = Newest /\ at' = "write" /\ UNCHANGED <<until, exit>>
      BY <1>12, <2>2 DEF GetWindow
    <3>2. host.index + 1 \in Nat
      BY HostFields
    <3>3. host' \in Host
      BY <1>0, <3>1, <3>2 DEF Host
    <3> QED BY <1>0, <3>1, <3>3, NewestType DEF HostTypes, Places
  <2>3. CASE ~Contiguous(Newest)
    <3>1. Stop(at)
      BY <1>12, <2>3 DEF GetWindow
    <3> QED BY <1>2, <2>1, <3>1
  <2> QED BY <2>2, <2>3
<1>13. CASE WriteSample
  <2>1. /\ todo # <<>> /\ todo' = Tail(todo) /\ UNCHANGED <<at, until, exit>>
        /\ host' = host \/ host' = [host EXCEPT !.got = Append(@, Head(todo))]
    BY <1>13 DEF WriteSample
  <2>2. Head(todo) \in Sample /\ Tail(todo) \in Seq(Sample)
    BY <1>0, <2>1, HeadTailProperties
  <2>3. host.got \in Seq(Sample)
    BY HostFields
  <2>4. Append(host.got, Head(todo)) \in Seq(Sample)
    BY <2>2, <2>3, AppendProperties
  <2>5. host' \in Host
    BY <1>0, <2>1, <2>4 DEF Host
  <2> QED BY <1>0, <2>1, <2>2, <2>5 DEF HostTypes
<1>14. CASE GetFinal
  <2>1. Stop("PASS") \/ Stop("FAIL")
    BY <1>14 DEF GetFinal
  <2> QED BY <2>1, StopTypes
<1>15. CASE Kill
  <2>1. Stop("killed")
    BY <1>15 DEF Kill
  <2> QED BY <2>1, StopTypes
<1> QED BY <1>3, <1>4, <1>5, <1>6, <1>7, <1>8, <1>9, <1>10, <1>11, <1>12, <1>13, <1>14,
          <1>15 DEF Next

(* Every step writes at most one line, and it is a line.                   *)
LEMMA FileTypeStep ==
    ASSUME TypeInv, [Next]_vars
    PROVE  file' \in Seq(Line)
<1>0. file \in Seq(Line)
  BY DEF TypeInv
<1>1. CASE GetStatus
  <2>1. Write([kind |-> "status", label |-> label]) \/ file' = file
    BY <1>1 DEF GetStatus
  <2> QED BY <1>0, <2>1, LineTypes, WriteTypes
<1>2. CASE GetMarker
  <2> DEFINE line == [kind |-> "marker", label |-> label, t |-> ball.motion.t,
                      boot |-> ball.motion.boot]
  <2>1. Write(line) \/ file' = file
    BY <1>2 DEF GetMarker
  <2>2. ball.motion.t \in Int /\ ball.motion.boot \in Nat
    <3>1. ball.motion \in Sample
      BY DEF TypeInv, Ball
    <3> QED BY <3>1 DEF Sample
  <2>3. line \in Line
    BY <2>2, LineTypes
  <2> HIDE DEF line
  <2> QED BY <1>0, <2>1, <2>3, WriteTypes
<1>3. CASE SelectWindow
  <2> DEFINE line == [kind |-> "window", label |-> label, t |-> host.marker.t]
  <2>1. Write(line) \/ file' = file
    BY <1>3 DEF SelectWindow
  <2>2. host.marker.t \in Int
    BY HostFields DEF Sample
  <2>3. line \in Line
    BY <2>2, LineTypes
  <2> HIDE DEF line
  <2> QED BY <1>0, <2>1, <2>3, WriteTypes
<1>4. CASE WriteSample
  <2> DEFINE line == [kind |-> "motion", label |-> label, sample |-> Head(todo)]
  <2>1. todo # <<>> /\ (Write(line) \/ file' = file)
    BY <1>4 DEF WriteSample
  <2>2. Head(todo) \in Sample
    BY <2>1, HeadTailProperties DEF TypeInv
  <2>3. line \in Line
    BY <2>2, LineTypes
  <2> HIDE DEF line
  <2> QED BY <1>0, <2>1, <2>3, WriteTypes
<1>5. CASE GetFinal
  <2> DEFINE r == IF Issues = {} THEN "PASS" ELSE "FAIL"
             line == [kind |-> "result", label |-> label, status |-> r]
  <2>1. Write(line)
    BY <1>5 DEF GetFinal
  <2>2. line \in Line
    <3>1. r \in {"PASS", "FAIL"}
      OBVIOUS
    <3> HIDE DEF r
    <3> QED BY <3>1, LineTypes
  <2> HIDE DEF line
  <2> QED BY <1>0, <2>1, <2>2, WriteTypes
<1>6. CASE \/ Tick \/ SensorError \/ Reboot \/ OtherFreeze \/ Doze \/ Wake \/ Fail \/ Recover
           \/ Evaluate \/ UNCHANGED vars \/ NoAnswer \/ Countdown \/ Acknowledge \/ EpisodeOver
           \/ FreezeHistory \/ GetChunk \/ GetWindow \/ Written \/ Kill
  <2>1. file' = file
    BY <1>6 DEF Tick, SensorError, Reboot, OtherFreeze, Doze, Wake, Fail, Recover, Evaluate,
                Upset, HostWaits, vars, NoAnswer, Countdown, Acknowledge, EpisodeOver,
                FreezeHistory, GetChunk, GetWindow, Written, Kill
  <2> QED BY <1>0, <2>1
<1> QED BY <1>1, <1>2, <1>3, <1>4, <1>5, <1>6 DEF Next

(* Types: the counters and the options.                                    *)
LEMMA CounterStep ==
    ASSUME TypeInv, [Next]_vars
    PROVE  /\ upsets' \in Nat /\ drops' \in Nat /\ tries' \in Nat
           /\ mode' = mode /\ label' = label
<1>0. upsets \in Nat /\ drops \in Nat /\ tries \in Nat
  BY DEF TypeInv
<1>1. upsets + 1 \in Nat /\ drops + 1 \in Nat /\ tries + 1 \in Nat
  BY <1>0
<1>2. CASE \/ Tick \/ SensorError \/ Reboot \/ OtherFreeze \/ Doze \/ Wake \/ Fail \/ Recover
           \/ Evaluate \/ UNCHANGED vars
  <2>1. upsets' \in {upsets, upsets + 1} /\ UNCHANGED <<drops, tries, mode, label>>
    BY <1>2 DEF Tick, SensorError, Reboot, OtherFreeze, Doze, Wake, Fail, Recover, Evaluate,
                Upset, HostWaits, vars, world, options
  <2> QED BY <1>0, <1>1, <2>1
<1>3. CASE NoAnswer
  <2>1. /\ upsets' = upsets /\ drops' = drops + 1 /\ tries' \in {0, tries + 1}
        /\ UNCHANGED <<mode, label>>
    BY <1>3 DEF NoAnswer, options
  <2> QED BY <1>0, <1>1, <2>1
<1>4. CASE \/ GetStatus \/ GetMarker \/ FreezeHistory \/ GetChunk \/ GetWindow \/ GetFinal
           \/ Kill
  <2>1. upsets' = upsets /\ drops' = drops /\ tries' = 0 /\ UNCHANGED <<mode, label>>
    BY <1>4 DEF GetStatus, GetMarker, FreezeHistory, GetChunk, GetWindow, GetFinal, Kill,
                Answered, world, options
  <2> QED BY <1>0, <2>1
<1>5. CASE \/ Countdown \/ Acknowledge \/ EpisodeOver \/ SelectWindow \/ WriteSample \/ Written
  <2>1. UNCHANGED <<upsets, drops, tries, mode, label>>
    BY <1>5 DEF Countdown, Acknowledge, EpisodeOver, SelectWindow, WriteSample, Written, world,
                options
  <2> QED BY <1>0, <2>1
<1> QED BY <1>2, <1>3, <1>4, <1>5 DEF Next

(* Types are kept.                                                         *)
LEMMA TypeStep ==
    ASSUME TypeInv, BallInv, BallMoves, [Next]_vars
    PROVE  TypeInv'
<1>1. AllFrom(ball.ring, ball.boot)
  BY DEF BallInv
<1>2. HostTypes'
  BY <1>1, HostTypeStep
<1>3. now' \in Int /\ ball' \in Ball
  BY DEF BallMoves
<1>4. mode \in Modes /\ label \in Labels
  BY DEF TypeInv
<1> QED BY <1>2, <1>3, <1>4, FileTypeStep, CounterStep DEF TypeInv, HostTypes

-----------------------------------------------------------------------------
(* The host.                                                               *)

(* A host whose first status is of the boot that runs after a step got it  *)
(* in this boot, which was the same before.                                *)
LEMMA BootBefore ==
    ASSUME TypeInv, BallInv, PlaceInv, BallMoves, Working, host'.status = host.status, SameBoot'
    PROVE  SameBoot /\ ball'.boot = ball.boot
<1>1. /\ ball.boot \in Nat /\ ball'.boot \in Nat /\ host.status.boot \in Nat
  <2>1. ball \in Ball /\ ball' \in Ball
    BY DEF TypeInv, BallMoves
  <2>2. host.status \in StatusRecord
    BY HostFields
  <2> QED BY <2>1, <2>2 DEF Ball, StatusRecord
<1>2. ball.boot <= ball'.boot /\ ball.boot > 0 /\ host.status.boot = ball'.boot
  BY DEF BallMoves, BallInv, SameBoot
<1>3. at # "status"
  <2> SUFFICES ASSUME at = "status" PROVE FALSE
    OBVIOUS
  <2>1. host.status.boot = 0
    BY NoHostType DEF PlaceInv
  <2> QED BY <1>1, <1>2, <2>1
<1>4. host.status.boot <= ball.boot
  BY <1>3 DEF PlaceInv
<1>5. host.status.boot = ball.boot
  BY <1>1, <1>2, <1>4
<1> QED BY <1>2, <1>5 DEF SameBoot

(* What the host retrieves goes on being pieces of one history.            *)
LEMMA RetrievesOn ==
    ASSUME TypeInv, BallMoves, ball'.boot = ball.boot, NEW F \in Seq(Sample), Retrieves(F),
           host'.meta = host.meta,
           \A j \in 1 .. Len(host'.chunks) :
              host'.chunks[j].id = host'.meta.id => host'.chunks[j].data = Piece(F, j - 1)
    PROVE  Retrieves(F)'
<1>1. ball.id \in Int /\ ball'.id \in Int /\ host.meta.id \in Int
  <2>1. ball \in Ball /\ ball' \in Ball /\ host.meta \in MetaRecord
    BY HostFields DEF TypeInv, BallMoves
  <2> QED BY <2>1 DEF Ball, MetaRecord
<1>2. ball.id <= ball'.id /\ (ball'.id = ball.id => ball'.frozen = ball.frozen)
  BY DEF BallMoves
<1>3. /\ Steady(F) /\ AllFrom(F, ball.boot) /\ Len(F) = host.meta.count
      /\ host.meta.id <= ball.id /\ (ball.id = host.meta.id => ball.frozen = F)
  BY DEF Retrieves
<1>4. host.meta.id <= ball'.id /\ (ball'.id = host.meta.id => ball'.id = ball.id)
  BY <1>1, <1>2, <1>3
<1>5. ball'.id = host'.meta.id => ball'.frozen = F
  BY <1>2, <1>3, <1>4
<1> QED BY <1>3, <1>4, <1>5 DEF Retrieves

(* A tool that has ended has nothing to keep.                              *)
LEMMA EndedHost ==
    ASSUME ~Working'
    PROVE  HostInv'
  BY DEF HostInv, PlaceInv, BootInv, ChunkInv, FileInv, WholeInv, SameBoot

(* When the host waits, what it has stays in order whatever the Ball does. *)
LEMMA QuietStep ==
    ASSUME TypeInv, BallInv, HostInv, BallMoves,
           UNCHANGED <<at, mode, host, todo, file, exit>>
    PROVE  HostInv'
<1>0. PlaceInv /\ BootInv /\ ChunkInv /\ FileInv /\ WholeInv
  BY DEF HostInv
<1>1. CASE ~Working
  <2>1. ~Working'
    BY <1>1 DEF Working
  <2> QED BY <2>1, EndedHost
<1>2. CASE Working
  <2>1. SameBoot' => SameBoot /\ ball'.boot = ball.boot
    BY <1>0, <1>2, BootBefore
  <2>2. PlaceInv'
    <3>1. at # "status" => host.status.boot <= ball'.boot
      <4>1. ball.boot \in Nat /\ ball'.boot \in Nat /\ host.status.boot \in Nat
        <5>1. ball \in Ball /\ ball' \in Ball
          BY DEF TypeInv, BallMoves
        <5>2. host.status \in StatusRecord
          BY HostFields
        <5> QED BY <5>1, <5>2 DEF Ball, StatusRecord
      <4>2. ball.boot <= ball'.boot /\ (at # "status" => host.status.boot <= ball.boot)
        BY <1>0, <1>2 DEF BallMoves, PlaceInv
      <4> QED BY <4>1, <4>2
    <3> QED BY <1>0, <1>2, <3>1 DEF PlaceInv
  <2>3. BootInv'
    BY <1>0, <2>1 DEF BootInv
  <2>4. ChunkInv'
    <3> SUFFICES ASSUME SameBoot', at \in {"chunk", "select"}
                 PROVE  \E F \in Seq(Sample) : Retrieves(F)'
      BY DEF ChunkInv
    <3>1. SameBoot /\ ball'.boot = ball.boot
      BY <2>1
    <3>2. PICK F \in Seq(Sample) : Retrieves(F)
      BY <1>0, <3>1 DEF ChunkInv
    <3>3. \A j \in 1 .. Len(host'.chunks) :
            host'.chunks[j].id = host'.meta.id => host'.chunks[j].data = Piece(F, j - 1)
      BY <3>2 DEF Retrieves
    <3> QED BY <3>1, <3>2, <3>3, RetrievesOn
  <2>5. FileInv'
    BY <1>0, <1>2 DEF FileInv, Laid, Opening, Working
  <2>6. WholeInv'
    BY <1>0, <2>1 DEF WholeInv, Spans, From, To
  <2> QED BY <2>2, <2>3, <2>4, <2>5, <2>6 DEF HostInv
<1> QED BY <1>1, <1>2

(* Another line keeps the boots of the file.                               *)
LEMMA FileFromMore ==
    ASSUME TypeInv, NEW line \in Line, Write(line), NEW b, FileFrom(file, b),
           line.kind = "motion" => line.sample.boot = b,
           line.kind = "marker" => line.boot = b
    PROVE  FileFrom(file', b)
<1>1. /\ Len(file) \in Nat /\ DOMAIN file = 1 .. Len(file)
      /\ DOMAIN file' = 1 .. Len(file) + 1 /\ file'[Len(file) + 1] = line
      /\ \A i \in 1 .. Len(file) : file'[i] = file[i]
  BY WriteTypes
<1>0. \A k \in DOMAIN file :
        /\ file[k].kind = "motion" => file[k].sample.boot = b
        /\ file[k].kind = "marker" => file[k].boot = b
  BY DEF FileFrom
<1> SUFFICES ASSUME NEW i \in DOMAIN file'
             PROVE  /\ file'[i].kind = "motion" => file'[i].sample.boot = b
                    /\ file'[i].kind = "marker" => file'[i].boot = b
  BY DEF FileFrom
<1>2. i \in 1 .. Len(file) \/ i = Len(file) + 1
  BY <1>1
<1>3. CASE i \in 1 .. Len(file)
  <2>1. i \in DOMAIN file /\ file'[i] = file[i]
    BY <1>1, <1>3
  <2>2. /\ file[i].kind = "motion" => file[i].sample.boot = b
        /\ file[i].kind = "marker" => file[i].boot = b
    BY <1>0, <2>1
  <2> QED BY <2>1, <2>2
<1>4. CASE i = Len(file) + 1
  BY <1>1, <1>4
<1> QED BY <1>2, <1>3, <1>4

(* No status is of a later boot than the Ball's.                           *)
LEMMA NewerBoot ==
    ASSUME TypeInv, BallMoves, NEW b \in Nat, b <= ball.boot
    PROVE  b <= ball'.boot
<1>1. ball.boot \in Nat /\ ball'.boot \in Nat
  BY DEF TypeInv, BallMoves, Ball
<1>2. ball.boot <= ball'.boot
  BY DEF BallMoves
<1> QED BY <1>1, <1>2

(* The first status: nothing but its line has been written.                *)
LEMMA StatusStep ==
    ASSUME TypeInv, BallInv, HostInv, BallMoves, GetStatus
    PROVE  HostInv'
<1>1. Working /\ at = "status" /\ mode' = mode /\ mode \in {"armed", "frozen", "window"}
  <2>1. mode \in Modes
    BY DEF TypeInv
  <2> QED BY <2>1, CaptureAssumption DEF GetStatus, Answered, options
<1>2. /\ host = NoHost /\ todo = <<>> /\ host.got = <<>> /\ host.chunks = <<>>
      /\ Laid(file, 0, <<>>, host.marker.t)
  BY <1>1, NoHostType DEF HostInv, PlaceInv, FileInv, Opening
<1>3. CASE ~Status.healthy
  <2>1. ~Working'
    BY <1>1, <1>3 DEF GetStatus, Stop, Working
  <2> QED BY <2>1, EndedHost
<1>4. CASE Status.healthy
  <2> DEFINE line == [kind |-> "status", label |-> label]
  <2>1. /\ host' = [host EXCEPT !.status = Status] /\ Write(line) /\ UNCHANGED <<todo, exit>>
        /\ at' = (CASE mode = "armed" -> "countdown" [] mode = "frozen" -> "freeze"
                    [] OTHER -> "window")
    BY <1>4 DEF GetStatus
  <2>2. /\ host'.status.boot = ball.boot /\ host'.got = <<>> /\ host'.chunks = <<>>
        /\ todo' = <<>>
    <3>1. host \in Host
      BY DEF TypeInv
    <3> QED BY <1>2, <2>1, <3>1, StatusType DEF Host
  <2>3. /\ mode = "armed" => at' = "countdown"
        /\ mode = "frozen" => at' = "freeze"
        /\ mode = "window" => at' = "window"
    BY <2>1
  <2>4. line \in Line /\ line.kind = "status"
    BY LineTypes
  <2> HIDE DEF line
  <2>5. Len(file') = 1 /\ file'[1] = line /\ DOMAIN file' = 1 .. 1
    <3>1. Len(file) = 0
      BY <1>2 DEF Laid
    <3>2. /\ Len(file') = Len(file) + 1 /\ file'[Len(file) + 1] = line
          /\ DOMAIN file' = 1 .. Len(file) + 1
      BY <2>1, <2>4, WriteTypes
    <3> QED BY <3>1, <3>2
  <2>6. PlaceInv'
    <3>1. ball.boot \in Nat /\ ball.boot <= ball.boot
      <4>1. ball \in Ball
        BY DEF TypeInv
      <4>2. ball.boot \in Nat
        BY <4>1 DEF Ball
      <4> QED BY <4>2
    <3>2. host'.status.boot <= ball'.boot
      BY <2>2, <3>1, NewerBoot
    <3> QED BY <1>1, <2>2, <2>3, <3>2 DEF PlaceInv, Places, RequestSteps
  <2>7. BootInv'
    <3>1. FileFrom(file', ball'.boot)
      BY <2>4, <2>5 DEF FileFrom
    <3> QED BY <2>2, <3>1, NoSamples DEF BootInv
  <2>8. ChunkInv' /\ WholeInv'
    BY <1>1, <2>3 DEF ChunkInv, WholeInv
  <2>9. FileInv'
    <3>1. CASE mode = "window"
      BY <1>1, <2>3, <3>1 DEF FileInv
    <3>2. CASE mode # "window"
      <4>1. Opening' = 1
        BY <1>1, <2>3, <3>2 DEF Opening
      <4>2. Laid(file', 1, <<>>, host'.marker.t)
        BY <2>4, <2>5 DEF Laid
      <4> QED BY <2>2, <4>1, <4>2 DEF FileInv
    <3> QED BY <3>1, <3>2
  <2> QED BY <2>6, <2>7, <2>8, <2>9 DEF HostInv
<1> QED BY <1>3, <1>4

(* Steps that only take the host to the next place: what it has stays.     *)
LEMMA MoveOn ==
    ASSUME TypeInv, BallInv, HostInv, BallMoves, Working, at # "status",
           UNCHANGED <<mode, host, todo, file, exit>>, at' \in Places,
           at' \notin {"status", "write", "chunk", "select"},
           at' \in {"countdown", "marker", "acknowledge", "episode"} => mode = "armed",
           at' \in {"freeze", "chunk", "select"} => mode \in {"armed", "frozen"},
           at' = "window" => mode = "window",
           at' \notin {"window", "final"} =>
              host.got = <<>> /\ todo = <<>> /\ host.chunks = <<>>,
           at' = "final" => todo = <<>>,
           mode # "window" => Opening' = Opening,
           at' = "final" => at = "write"
    PROVE  HostInv'
<1>0. PlaceInv /\ BootInv /\ ChunkInv /\ FileInv /\ WholeInv
  BY DEF HostInv
<1>1. SameBoot' => SameBoot /\ ball'.boot = ball.boot
  BY <1>0, BootBefore
<1>2. PlaceInv'
  <2>1. host.status.boot <= ball'.boot
    <3>1. host.status.boot \in Nat /\ host.status.boot <= ball.boot
      BY <1>0, HostFields DEF StatusRecord, PlaceInv
    <3> QED BY <3>1, NewerBoot
  <2> QED BY <2>1 DEF PlaceInv
<1>3. BootInv'
  BY <1>0, <1>1 DEF BootInv
<1>4. ChunkInv'
  BY DEF ChunkInv
<1>5. FileInv'
  BY <1>0 DEF FileInv, Laid
<1>6. WholeInv'
  BY <1>0, <1>1 DEF WholeInv, Spans, From, To
<1> QED BY <1>2, <1>3, <1>4, <1>5, <1>6 DEF HostInv

(* The steps that only move the host on.                                   *)
LEMMA MoveSteps ==
    ASSUME TypeInv, BallInv, HostInv, BallMoves, Countdown \/ Acknowledge \/ EpisodeOver \/ Written
    PROVE  HostInv'
<1>0. PlaceInv /\ mode' = mode
  BY DEF HostInv, Countdown, Acknowledge, EpisodeOver, Written, options
<1>1. CASE Countdown
  <2>1. Working /\ at = "countdown" /\ at' = "marker" /\ UNCHANGED <<host, todo, file, exit>>
    BY <1>1 DEF Countdown
  <2>2. /\ at # "status" /\ mode = "armed" /\ host.got = <<>> /\ todo = <<>>
        /\ host.chunks = <<>> /\ Opening' = Opening /\ at' \in Places
    BY <1>0, <2>1 DEF PlaceInv, Opening, Places, RequestSteps
  <2> QED BY <1>0, <2>1, <2>2, MoveOn
<1>2. CASE Acknowledge
  <2>1. Working /\ at = "acknowledge" /\ UNCHANGED file
    BY <1>2 DEF Acknowledge
  <2>2. CASE at' = "episode" /\ UNCHANGED <<host, todo, exit>>
    <3>1. /\ at # "status" /\ mode = "armed" /\ host.got = <<>> /\ todo = <<>>
          /\ host.chunks = <<>> /\ Opening' = Opening /\ at' \in Places
      BY <1>0, <2>1, <2>2 DEF PlaceInv, Opening, Places, RequestSteps
    <3> QED BY <1>0, <2>1, <2>2, <3>1, MoveOn
  <2>3. CASE Stop(at)
    <3>1. ~Working'
      BY <2>1, <2>3 DEF Stop, Working
    <3> QED BY <3>1, EndedHost
  <2> QED BY <1>2, <2>2, <2>3 DEF Acknowledge
<1>3. CASE EpisodeOver
  <2>1. Working /\ at = "episode" /\ at' = "freeze" /\ UNCHANGED <<host, todo, file, exit>>
    BY <1>3 DEF EpisodeOver
  <2>2. /\ at # "status" /\ mode = "armed" /\ host.got = <<>> /\ todo = <<>>
        /\ host.chunks = <<>> /\ Opening' = Opening /\ at' \in Places
    BY <1>0, <2>1 DEF PlaceInv, Opening, Places, RequestSteps
  <2> QED BY <1>0, <2>1, <2>2, MoveOn
<1>4. CASE Written
  <2>1. /\ Working /\ at = "write" /\ todo = <<>> /\ UNCHANGED <<host, todo, file, exit>>
        /\ (at' = "window" /\ mode = "window") \/ at' = "final"
    BY <1>4 DEF Written
  <2>3. CASE at' = "final"
    <3>1. Opening' = Opening /\ at' \in Places /\ at # "status"
      BY <1>0, <2>1, <2>3 DEF Opening, Places, RequestSteps
    <3> QED BY <1>0, <2>1, <2>3, <3>1, MoveOn
  <2>4. CASE at' = "window"
    <3>1. mode = "window" /\ at' \in Places /\ at # "status"
      BY <2>1, <2>4 DEF Places, RequestSteps
    <3> QED BY <1>0, <2>1, <2>4, <3>1, MoveOn
  <2> QED BY <2>1, <2>3, <2>4
<1> QED BY <1>1, <1>2, <1>3, <1>4

(* The marker is the newest sample of the boot that runs.                  *)
LEMMA MarkerStep ==
    ASSUME TypeInv, BallInv, HostInv, BallMoves, GetMarker
    PROVE  HostInv'
<1>0. PlaceInv /\ BootInv /\ FileInv
  BY DEF HostInv
<1>1. Working /\ at = "marker" /\ mode' = mode /\ mode = "armed"
  BY <1>0 DEF GetMarker, Answered, options, PlaceInv
<1>2. /\ todo = <<>> /\ host.got = <<>> /\ host.chunks = <<>>
      /\ Laid(file, 1, <<>>, host.marker.t) /\ host.status.boot <= ball.boot
  BY <1>0, <1>1 DEF PlaceInv, FileInv, Opening
<1>3. CASE ball.motion = NoSample
  <2>1. ~Working'
    BY <1>1, <1>3 DEF GetMarker, Stop, Working
  <2> QED BY <2>1, EndedHost
<1>4. CASE ball.motion # NoSample
  <2> DEFINE line == [kind |-> "marker", label |-> label, t |-> ball.motion.t,
                      boot |-> ball.motion.boot]
  <2>1. /\ host' = [host EXCEPT !.marker = ball.motion] /\ Write(line)
        /\ at' = "acknowledge" /\ UNCHANGED <<todo, exit>>
    BY <1>4 DEF GetMarker
  <2>2. /\ host'.status = host.status /\ host'.got = <<>> /\ host'.chunks = <<>>
        /\ host'.marker = ball.motion
    <3>1. host \in Host
      BY DEF TypeInv
    <3> QED BY <1>2, <2>1, <3>1 DEF Host
  <2>3. line \in Line
    <3>1. ball.motion \in Sample
      BY DEF TypeInv, Ball
    <3>2. ball.motion.t \in Int /\ ball.motion.boot \in Nat
      BY <3>1 DEF Sample
    <3> QED BY <3>2, LineTypes
  <2>4. line.kind = "marker" /\ line.t = ball.motion.t /\ line.boot = ball.motion.boot
    OBVIOUS
  <2> HIDE DEF line
  <2>5. ball.motion.boot = ball.boot
    BY <1>4 DEF BallInv
  <2>6. Len(file') = 2 /\ file'[1] = file[1] /\ file'[2] = line /\ file[1].kind = "status"
    <3>1. Len(file) = 1 /\ file[1].kind = "status"
      BY <1>2 DEF Laid
    <3>2. /\ Len(file') = Len(file) + 1 /\ file'[Len(file) + 1] = line
          /\ \A i \in 1 .. Len(file) : file'[i] = file[i]
      BY <2>1, <2>3, WriteTypes
    <3> QED BY <3>1, <3>2
  <2>7. SameBoot' => SameBoot /\ ball'.boot = ball.boot
    BY <1>0, <1>1, <2>2, BootBefore
  <2>8. PlaceInv'
    <3>1. host'.status.boot <= ball'.boot
      <4>1. host.status.boot \in Nat
        BY HostFields DEF StatusRecord
      <4> QED BY <1>2, <2>2, <4>1, NewerBoot
    <3> QED BY <1>1, <1>2, <2>1, <2>2, <3>1 DEF PlaceInv, Places, RequestSteps
  <2>9. BootInv'
    <3> SUFFICES ASSUME SameBoot' PROVE FileFrom(file', ball'.boot)
      BY <1>2, <2>1, <2>2, NoSamples DEF BootInv
    <3>1. FileFrom(file, ball.boot) /\ ball'.boot = ball.boot
      BY <1>0, <2>7 DEF BootInv
    <3>2. FileFrom(file', ball.boot)
      BY <2>1, <2>3, <2>4, <2>5, <3>1, FileFromMore
    <3> QED BY <3>1, <3>2
  <2>10. ChunkInv' /\ WholeInv'
    BY <2>1 DEF ChunkInv, WholeInv
  <2>11. FileInv'
    <3>1. Opening' = 2
      BY <1>1, <2>1 DEF Opening
    <3>2. Laid(file', 2, <<>>, host'.marker.t)
      BY <2>2, <2>4, <2>6 DEF Laid
    <3> QED BY <2>2, <3>1, <3>2 DEF FileInv
  <2> QED BY <2>8, <2>9, <2>10, <2>11 DEF HostInv
<1> QED BY <1>3, <1>4

(* The history is frozen: every chunk is still to come.                    *)
LEMMA FreezeStep ==
    ASSUME TypeInv, BallInv, HostInv, BallMoves, FreezeHistory
    PROVE  HostInv'
<1>0. PlaceInv /\ BootInv /\ FileInv
  BY DEF HostInv
<1>1. /\ Working /\ at = "freeze" /\ mode' = mode /\ mode \in {"armed", "frozen"}
      /\ ball' = Freeze
  BY <1>0 DEF FreezeHistory, Answered, options, PlaceInv, Served
<1>2. /\ todo = <<>> /\ host.got = <<>> /\ host.chunks = <<>>
      /\ host.status.boot <= ball.boot
  BY <1>0, <1>1 DEF PlaceInv
<1>3. CASE ~MetaValid(Meta)
  <2>1. ~Working'
    BY <1>1, <1>3 DEF FreezeHistory, Stop, Working
  <2> QED BY <2>1, EndedHost
<1>4. CASE MetaValid(Meta)
  <2>1. /\ host' = [host EXCEPT !.meta = Meta] /\ at' \in {"select", "chunk"}
        /\ UNCHANGED <<todo, file, exit>>
    BY <1>4 DEF FreezeHistory
  <2>2. /\ host'.status = host.status /\ host'.got = <<>> /\ host'.chunks = <<>>
        /\ host'.meta = Meta /\ host'.marker = host.marker
    <3>1. host \in Host
      BY DEF TypeInv
    <3> QED BY <1>2, <2>1, <3>1 DEF Host
  <2>3. SameBoot' => SameBoot /\ ball'.boot = ball.boot
    BY <1>0, <1>1, <2>2, BootBefore
  <2>4. PlaceInv'
    <3>1. host'.status.boot <= ball'.boot
      <4>1. host.status.boot \in Nat
        BY HostFields DEF StatusRecord
      <4> QED BY <1>2, <2>2, <4>1, NewerBoot
    <3> QED BY <1>1, <1>2, <2>1, <2>2, <3>1 DEF PlaceInv, Places, RequestSteps
  <2>5. BootInv'
    BY <1>0, <1>2, <2>1, <2>2, <2>3 DEF BootInv
  <2>6. ChunkInv'
    <3>1. /\ ball'.boot = ball.boot /\ ball'.id = ball.id + 1 /\ ball'.frozen = ball.ring
          /\ ball.ring \in Seq(Sample) /\ ball.id \in Int
      <4>1. ball \in Ball
        BY DEF TypeInv
      <4> QED BY <1>1, <4>1 DEF Freeze, Ball
    <3>2. Steady(ball.ring) /\ AllFrom(ball.ring, ball'.boot)
      BY <3>1 DEF BallInv
    <3>3. Meta.id = ball.id + 1 /\ Meta.count = Len(ball.ring)
      BY MetaType
    <3>4. host'.meta.id = ball'.id /\ Len(ball.ring) = host'.meta.count /\ host'.meta.id <= ball'.id
      BY <2>2, <3>1, <3>3
    <3> DEFINE F == ball.ring
    <3>5. \A j \in 1 .. Len(host'.chunks) :
            host'.chunks[j].id = host'.meta.id => host'.chunks[j].data = Piece(F, j - 1)
      BY <2>2
    <3>6. \E G \in Seq(Sample) :
             /\ Steady(G) /\ AllFrom(G, ball'.boot) /\ Len(G) = host'.meta.count
             /\ host'.meta.id <= ball'.id
             /\ ball'.id = host'.meta.id => ball'.frozen = G
             /\ \A j \in 1 .. Len(host'.chunks) :
                  host'.chunks[j].id = host'.meta.id => host'.chunks[j].data = Piece(G, j - 1)
      BY <3>1, <3>2, <3>4, <3>5
    <3> QED BY <3>6 DEF ChunkInv, Retrieves
  <2>7. WholeInv'
    BY <2>1 DEF WholeInv
  <2>8. FileInv'
    <3>1. Opening' = Opening /\ mode # "window"
      BY <1>1, <2>1 DEF Opening
    <3> QED BY <1>0, <1>1, <1>2, <2>1, <2>2, <3>1 DEF FileInv, Laid
  <2> QED BY <2>4, <2>5, <2>6, <2>7, <2>8 DEF HostInv
<1> QED BY <1>3, <1>4

(* A chunk with the capture's id is of the history that was frozen for it. *)
LEMMA ChunkStep ==
    ASSUME TypeInv, BallInv, HostInv, BallMoves, GetChunk
    PROVE  HostInv'
<1>0. PlaceInv /\ BootInv /\ FileInv /\ ChunkInv
  BY DEF HostInv
<1> DEFINE n == Len(host.chunks)
<1>1. /\ Working /\ at = "chunk" /\ mode' = mode /\ mode \in {"armed", "frozen"}
      /\ ball' = ball /\ at' \in {"chunk", "select"}
      /\ host' = [host EXCEPT !.chunks = Append(@, ChunkAt(n))]
      /\ UNCHANGED <<todo, file, exit>>
  BY <1>0 DEF GetChunk, Answered, options, PlaceInv, Served
<1>2. /\ todo = <<>> /\ host.got = <<>> /\ host.status.boot <= ball.boot
  BY <1>0, <1>1 DEF PlaceInv
<1>3. /\ host'.status = host.status /\ host'.got = <<>> /\ host'.meta = host.meta
      /\ host'.chunks = Append(host.chunks, ChunkAt(n)) /\ host'.marker = host.marker
  <2>1. host \in Host
    BY DEF TypeInv
  <2> QED BY <1>1, <1>2, <2>1 DEF Host
<1>4. n \in Nat /\ host.chunks \in Seq(ChunkRecord)
  BY HostFields, LenProperties
<1>5. ChunkAt(n) \in ChunkRecord /\ ChunkAt(n).id = ball.id
      /\ ChunkAt(n).data = Piece(ball.frozen, n)
  BY <1>4, ChunkType
<1>6. /\ Len(host'.chunks) = n + 1 /\ host'.chunks[n + 1] = ChunkAt(n)
      /\ \A j \in 1 .. n : host'.chunks[j] = host.chunks[j]
  BY <1>3, <1>4, <1>5, AppendProperties
<1> HIDE DEF n
<1>7. SameBoot' => SameBoot /\ ball'.boot = ball.boot
  BY <1>0, <1>1, <1>3, BootBefore
<1>8. PlaceInv'
  <2>1. host'.status.boot <= ball'.boot
    BY <1>1, <1>2, <1>3
  <2> QED BY <1>1, <1>2, <1>3, <2>1 DEF PlaceInv, Places, RequestSteps
<1>9. BootInv'
  BY <1>0, <1>1, <1>2, <1>3, <1>7 DEF BootInv
<1>10. ChunkInv'
  <2> SUFFICES ASSUME SameBoot' PROVE \E F \in Seq(Sample) : Retrieves(F)'
    BY DEF ChunkInv
  <2>1. PICK F \in Seq(Sample) : Retrieves(F)
    BY <1>0, <1>1, <1>7 DEF ChunkInv
  <2>2. \A j \in 1 .. Len(host'.chunks) :
          host'.chunks[j].id = host'.meta.id => host'.chunks[j].data = Piece(F, j - 1)
    <3> SUFFICES ASSUME NEW j \in 1 .. n + 1, host'.chunks[j].id = host'.meta.id
                 PROVE  host'.chunks[j].data = Piece(F, j - 1)
      BY <1>6
    <3>1. CASE j = n + 1
      <4>1. ball.id = host.meta.id
        BY <1>3, <1>5, <1>6, <3>1
      <4>2. ball.frozen = F
        BY <2>1, <4>1 DEF Retrieves
      <4>3. j - 1 = n
        BY <1>4, <3>1
      <4> QED BY <1>5, <1>6, <3>1, <4>2, <4>3
    <3>2. CASE j # n + 1
      <4>1. j \in 1 .. n
        BY <1>4, <3>2
      <4>2. host.chunks[j].id = host.meta.id /\ host'.chunks[j] = host.chunks[j]
        BY <1>3, <1>6, <4>1
      <4>3. host.chunks[j].data = Piece(F, j - 1)
        BY <2>1, <4>1, <4>2 DEF Retrieves, n
      <4> QED BY <4>2, <4>3
    <3> QED BY <3>1, <3>2
  <2>3. Retrieves(F)'
    BY <1>3, <1>7, <2>1, <2>2, RetrievesOn
  <2> QED BY <2>3
<1>11. WholeInv'
  BY <1>1 DEF WholeInv
<1>12. FileInv'
  <2>1. Opening' = Opening /\ mode # "window"
    BY <1>1 DEF Opening
  <2> QED BY <1>0, <1>1, <1>2, <1>3, <2>1 DEF FileInv, Laid
<1> QED BY <1>8, <1>9, <1>10, <1>11, <1>12 DEF HostInv

(* The window loop: the newest samples, or a request that was lost.        *)
LEMMA WindowStep ==
    ASSUME TypeInv, BallInv, HostInv, BallMoves, Working, at = "window", mode' = mode,
           NEW f, NEW i, host' = [host EXCEPT !.failed = f, !.index = i],
           todo' \in {todo, Newest}, at' = "write", UNCHANGED <<file, exit>>
    PROVE  HostInv'
<1>0. PlaceInv /\ BootInv /\ FileInv
  BY DEF HostInv
<1>1. mode = "window" /\ host.status.boot <= ball.boot
  BY <1>0 DEF PlaceInv
<1>2. host'.status = host.status /\ host'.got = host.got
  <2>1. host \in Host
    BY DEF TypeInv
  <2> QED BY <2>1 DEF Host
<1>3. SameBoot' => SameBoot /\ ball'.boot = ball.boot
  BY <1>0, <1>2, BootBefore
<1>4. PlaceInv'
  <2>1. host'.status.boot <= ball'.boot
    <3>1. host.status.boot \in Nat
      BY HostFields DEF StatusRecord
    <3> QED BY <1>1, <1>2, <3>1, NewerBoot
  <2> QED BY <2>1 DEF PlaceInv, Places
<1>5. BootInv'
  <2> SUFFICES ASSUME SameBoot'
               PROVE  /\ AllFrom(host.got, ball.boot) /\ AllFrom(todo', ball.boot)
                      /\ FileFrom(file, ball.boot)
    BY <1>2, <1>3 DEF BootInv
  <2>1. /\ AllFrom(host.got, ball.boot) /\ AllFrom(todo, ball.boot)
        /\ FileFrom(file, ball.boot)
    BY <1>0, <1>3 DEF BootInv
  <2>2. AllFrom(Newest, ball.boot)
    BY NewestType DEF BallInv
  <2> QED BY <2>1, <2>2
<1>6. ChunkInv' /\ WholeInv' /\ FileInv'
  BY <1>1 DEF ChunkInv, WholeInv, FileInv
<1> QED BY <1>4, <1>5, <1>6 DEF HostInv

(* A sample is written or, in the window loop, left out.                   *)
LEMMA HeadOff ==
    ASSUME NEW s \in Seq(Sample), NEW r \in Seq(Sample), r # <<>>
    PROVE  Append(s, Head(r)) \o Tail(r) = s \o r
<1> DEFINE l == Append(s, Head(r)) \o Tail(r)
<1>1. /\ Head(r) \in Sample /\ Tail(r) \in Seq(Sample) /\ Len(Tail(r)) = Len(r) - 1
      /\ \A i \in 1 .. Len(Tail(r)) : Tail(r)[i] = r[i + 1]
      /\ Head(r) = r[1] /\ Len(r) \in Nat \ {0} /\ Len(s) \in Nat
  BY HeadTailProperties, LenProperties, EmptySeq
<1>2. /\ Append(s, Head(r)) \in Seq(Sample) /\ Len(Append(s, Head(r))) = Len(s) + 1
      /\ \A i \in 1 .. Len(s) : Append(s, Head(r))[i] = s[i]
      /\ Append(s, Head(r))[Len(s) + 1] = r[1]
  BY <1>1, AppendProperties
<1>3. /\ l \in Seq(Sample) /\ Len(l) = (Len(s) + 1) + (Len(r) - 1)
      /\ \A i \in 1 .. (Len(s) + 1) + (Len(r) - 1) :
           l[i] = IF i <= Len(s) + 1 THEN Append(s, Head(r))[i] ELSE Tail(r)[i - (Len(s) + 1)]
  BY <1>1, <1>2, ConcatProperties
<1>4. /\ s \o r \in Seq(Sample) /\ Len(s \o r) = Len(s) + Len(r)
      /\ \A i \in 1 .. Len(s) + Len(r) : (s \o r)[i] = IF i <= Len(s) THEN s[i] ELSE r[i - Len(s)]
  BY ConcatProperties
<1> HIDE DEF l
<1>5. Len(l) = Len(s \o r) /\ Len(l) = Len(s) + Len(r)
  BY <1>1, <1>3, <1>4
<1>6. \A i \in 1 .. Len(l) : l[i] = (s \o r)[i]
  <2> SUFFICES ASSUME NEW i \in 1 .. Len(s) + Len(r) PROVE l[i] = (s \o r)[i]
    BY <1>5
  <2>0. i \in 1 .. (Len(s) + 1) + (Len(r) - 1)
    BY <1>1
  <2>1. CASE i <= Len(s)
    <3>1. i \in 1 .. Len(s) /\ i <= Len(s) + 1
      BY <1>1, <2>1
    <3> QED BY <1>2, <1>3, <1>4, <2>0, <2>1, <3>1
  <2>2. CASE i = Len(s) + 1
    <3>1. i <= Len(s) + 1 /\ ~(i <= Len(s)) /\ i - Len(s) = 1
      BY <1>1, <2>2
    <3>2. l[i] = r[1]
      BY <1>2, <1>3, <2>0, <2>2, <3>1
    <3>3. (s \o r)[i] = r[1]
      BY <1>4, <3>1
    <3> QED BY <3>2, <3>3
  <2>3. CASE i > Len(s) + 1
    <3>1. /\ ~(i <= Len(s) + 1) /\ ~(i <= Len(s)) /\ i - (Len(s) + 1) \in 1 .. Len(r) - 1
          /\ i - (Len(s) + 1) + 1 = i - Len(s)
      BY <1>1, <2>3
    <3>2. l[i] = Tail(r)[i - (Len(s) + 1)]
      BY <1>3, <2>0, <3>1
    <3>3. Tail(r)[i - (Len(s) + 1)] = r[i - Len(s)]
      BY <1>1, <3>1
    <3>4. (s \o r)[i] = r[i - Len(s)]
      BY <1>4, <3>1
    <3> QED BY <3>2, <3>3, <3>4
  <2>4. i <= Len(s) \/ i = Len(s) + 1 \/ i > Len(s) + 1
    BY <1>1
  <2> QED BY <2>1, <2>2, <2>3, <2>4
<1>7. l = s \o r
  BY <1>3, <1>4, <1>5, <1>6, SeqEqual
<1> QED BY <1>7 DEF l

(* Taking the first of some samples of a boot to others of that boot.      *)
LEMMA AllFromMoves ==
    ASSUME NEW s \in Seq(Sample), NEW r \in Seq(Sample), NEW b, r # <<>>, AllFrom(s, b),
           AllFrom(r, b)
    PROVE  AllFrom(Append(s, Head(r)), b) /\ AllFrom(Tail(r), b) /\ Head(r).boot = b
<1>1. /\ Head(r) \in Sample /\ Tail(r) \in Seq(Sample) /\ Len(Tail(r)) = Len(r) - 1
      /\ \A i \in 1 .. Len(Tail(r)) : Tail(r)[i] = r[i + 1]
      /\ Head(r) = r[1] /\ Len(r) \in Nat \ {0} /\ Len(s) \in Nat
  BY HeadTailProperties, LenProperties, EmptySeq
<1>2. Head(r).boot = b
  <2>1. 1 \in 1 .. Len(r)
    BY <1>1
  <2> QED BY <1>1, <2>1 DEF AllFrom
<1>3. AllFrom(Append(s, Head(r)), b)
  <2> DEFINE q == Append(s, Head(r))
  <2>1. Len(q) = Len(s) + 1 /\ q[Len(s) + 1] = Head(r) /\ \A i \in 1 .. Len(s) : q[i] = s[i]
    BY <1>1, AppendProperties
  <2> HIDE DEF q
  <2> SUFFICES ASSUME NEW i \in 1 .. Len(s) + 1 PROVE q[i].boot = b
    BY <2>1 DEF AllFrom, q
  <2>2. CASE i = Len(s) + 1
    BY <1>2, <2>1, <2>2
  <2>3. CASE i # Len(s) + 1
    <3>1. i \in 1 .. Len(s)
      BY <1>1, <2>3
    <3> QED BY <2>1, <3>1 DEF AllFrom
  <2> QED BY <2>2, <2>3
<1>4. AllFrom(Tail(r), b)
  <2> SUFFICES ASSUME NEW i \in 1 .. Len(Tail(r)) PROVE Tail(r)[i].boot = b
    BY DEF AllFrom
  <2>1. i + 1 \in 1 .. Len(r)
    BY <1>1
  <2> QED BY <1>1, <2>1 DEF AllFrom
<1> QED BY <1>2, <1>3, <1>4

(* One more motion line for one more sample.                               *)
LEMMA LaidMore ==
    ASSUME TypeInv, NEW n \in Nat, NEW g \in Seq(Sample), NEW s \in Sample,
           NEW line \in Line, line.kind = "motion", line.sample = s,
           NEW t, Laid(file, n, g, t), Write(line)
    PROVE  Laid(file', n, Append(g, s), t)
<1>1. /\ Len(file') = Len(file) + 1 /\ Len(file) \in Nat /\ file'[Len(file) + 1] = line
      /\ \A i \in 1 .. Len(file) : file'[i] = file[i]
  BY WriteTypes
<1> DEFINE q == Append(g, s)
<1>2. /\ Len(q) = Len(g) + 1 /\ q[Len(g) + 1] = s /\ Len(g) \in Nat
      /\ \A i \in 1 .. Len(g) : q[i] = g[i]
  BY AppendProperties, LenProperties
<1> HIDE DEF q
<1>3. /\ Len(file) = n + Len(g)
      /\ n >= 1 => file[1].kind = "status"
      /\ n >= 2 => file[2].kind = "marker" /\ file[2].t = t
      /\ n >= 3 => file[3].kind = "window"
      /\ \A i \in 1 .. Len(g) : file[n + i].kind = "motion" /\ file[n + i].sample = g[i]
  BY DEF Laid
<1>4. Len(file') = n + Len(q)
  BY <1>1, <1>2, <1>3
<1>5. \A k \in 1 .. 3 : n >= k => file'[k] = file[k]
  <2> SUFFICES ASSUME NEW k \in 1 .. 3, n >= k PROVE file'[k] = file[k]
    OBVIOUS
  <2>1. k \in 1 .. Len(file)
    BY <1>2, <1>3
  <2> QED BY <1>1, <2>1
<1>6. /\ n >= 1 => file'[1].kind = "status"
      /\ n >= 2 => file'[2].kind = "marker" /\ file'[2].t = t
      /\ n >= 3 => file'[3].kind = "window"
  BY <1>3, <1>5
<1>7. \A i \in 1 .. Len(q) : file'[n + i].kind = "motion" /\ file'[n + i].sample = q[i]
  <2> SUFFICES ASSUME NEW i \in 1 .. Len(g) + 1
               PROVE  file'[n + i].kind = "motion" /\ file'[n + i].sample = q[i]
    BY <1>2
  <2>1. CASE i = Len(g) + 1
    <3>1. n + i = Len(file) + 1
      BY <1>2, <1>3, <2>1
    <3> QED BY <1>1, <1>2, <2>1, <3>1
  <2>2. CASE i # Len(g) + 1
    <3>1. i \in 1 .. Len(g) /\ n + i \in 1 .. Len(file)
      BY <1>2, <1>3, <2>2
    <3> QED BY <1>1, <1>2, <1>3, <3>1
  <2> QED BY <2>1, <2>2
<1> QED BY <1>4, <1>6, <1>7 DEF Laid, q

(* A sample is written or, in the window loop, left out.                   *)
LEMMA WriteStep ==
    ASSUME TypeInv, BallInv, HostInv, BallMoves, WriteSample
    PROVE  HostInv'
<1>0. PlaceInv /\ BootInv /\ FileInv /\ WholeInv
  BY DEF HostInv
<1> DEFINE s == Head(todo)
           line == [kind |-> "motion", label |-> label, sample |-> s]
<1>1. /\ Working /\ at = "write" /\ todo # <<>> /\ mode' = mode /\ todo' = Tail(todo)
      /\ UNCHANGED <<at, exit>>
      /\ \/ /\ host' = [host EXCEPT !.got = Append(@, s)] /\ Write(line)
         \/ mode = "window" /\ UNCHANGED <<host, file>>
  BY DEF WriteSample, options
<1>2. todo \in Seq(Sample) /\ host.got \in Seq(Sample) /\ host \in Host
  BY HostFields DEF TypeInv
<1>3. s \in Sample /\ Tail(todo) \in Seq(Sample)
  BY <1>1, <1>2, HeadTailProperties
<1>4. line \in Line /\ line.kind = "motion" /\ line.sample = s
  BY <1>3, LineTypes
<1> HIDE DEF s, line
<1>5. /\ host'.status = host.status /\ host'.marker = host.marker
      /\ host'.got \in {host.got, Append(host.got, s)}
  BY <1>1, <1>2 DEF Host
<1>6. SameBoot' => SameBoot /\ ball'.boot = ball.boot
  BY <1>0, <1>1, <1>5, BootBefore
<1>7. PlaceInv'
  <2>1. host'.status.boot <= ball'.boot
    <3>1. host.status.boot \in Nat /\ host.status.boot <= ball.boot
      BY <1>0, <1>1, HostFields DEF StatusRecord, PlaceInv
    <3> QED BY <1>5, <3>1, NewerBoot
  <2> QED BY <1>1, <2>1 DEF PlaceInv, Places
<1>8. BootInv'
  <2> SUFFICES ASSUME SameBoot'
               PROVE  /\ AllFrom(host'.got, ball.boot) /\ AllFrom(todo', ball.boot)
                      /\ FileFrom(file', ball.boot)
    BY <1>6 DEF BootInv
  <2>1. /\ AllFrom(host.got, ball.boot) /\ AllFrom(todo, ball.boot)
        /\ FileFrom(file, ball.boot)
    BY <1>0, <1>6 DEF BootInv
  <2>2. AllFrom(Append(host.got, s), ball.boot) /\ AllFrom(Tail(todo), ball.boot)
        /\ s.boot = ball.boot
    BY <1>1, <1>2, <2>1, AllFromMoves DEF s
  <2>3. FileFrom(file', ball.boot)
    <3>1. CASE Write(line)
      BY <1>4, <2>1, <2>2, <3>1, FileFromMore
    <3>2. CASE UNCHANGED file
      BY <2>1, <3>2
    <3> QED BY <1>1, <3>1, <3>2
  <2> QED BY <1>1, <1>5, <2>1, <2>2, <2>3
<1>9. ChunkInv'
  BY <1>1 DEF ChunkInv
<1>10. ASSUME mode # "window"
       PROVE  host'.got = Append(host.got, s) /\ Write(line)
  BY <1>1, <1>2, <1>10 DEF Host
<1>11. FileInv'
  <2> SUFFICES ASSUME mode # "window"
               PROVE  Laid(file', Opening', host'.got, host'.marker.t)
    BY <1>1 DEF FileInv
  <2>1. Opening' = Opening /\ Opening \in Nat
    BY <1>1 DEF Opening
  <2>2. Laid(file, Opening, host.got, host.marker.t)
    BY <1>0, <1>1 DEF FileInv
  <2>3. Laid(file', Opening, Append(host.got, s), host.marker.t)
    BY <1>2, <1>3, <1>4, <1>10, <2>1, <2>2, LaidMore
  <2> QED BY <1>5, <1>10, <2>1, <2>3
<1>12. WholeInv'
  <2> SUFFICES ASSUME SameBoot', mode # "window"
               PROVE  /\ Steady(host'.got \o todo')
                      /\ mode = "armed" => Spans(host'.got \o todo', From', To')
    BY <1>1 DEF WholeInv
  <2>1. host'.got \o todo' = host.got \o todo
    BY <1>1, <1>2, <1>10, HeadOff DEF s
  <2>2. Steady(host.got \o todo) /\ (mode = "armed" => Spans(host.got \o todo, From, To))
    BY <1>0, <1>1, <1>6 DEF WholeInv
  <2>3. From' = From /\ To' = To
    BY <1>5 DEF From, To
  <2> QED BY <2>1, <2>2, <2>3
<1> QED BY <1>7, <1>8, <1>9, <1>11, <1>12 DEF HostInv

(* A history whose chunks all carry the capture's id, and which is as long *)
(* as was announced, is the one that was frozen.                           *)
LEMMA BatchIsHistory ==
    ASSUME TypeInv, HistoryValid, NEW F \in Seq(Sample), Retrieves(F)
    PROVE  Batch = F
<1>1. /\ Data \in Seq(Seq(Sample)) /\ Len(Data) = Len(host.chunks)
      /\ \A j \in 1 .. Len(host.chunks) : Data[j] = host.chunks[j].data
      /\ Batch = FlattenSeq(Data)
  BY BatchType
<1>2. host.chunks \in Seq(ChunkRecord) /\ DOMAIN host.chunks = 1 .. Len(host.chunks)
  BY HostFields, LenProperties
<1>3. \A j \in 1 .. Len(Data) : Data[j] = Piece(F, j - 1)
  <2> SUFFICES ASSUME NEW j \in 1 .. Len(host.chunks) PROVE Data[j] = Piece(F, j - 1)
    BY <1>1
  <2>1. host.chunks[j].id = host.meta.id
    BY <1>2 DEF HistoryValid
  <2>2. host.chunks[j].data = Piece(F, j - 1)
    BY <2>1 DEF Retrieves
  <2> QED BY <1>1, <2>2
<1>4. Len(FlattenSeq(Data)) = Len(F)
  BY <1>1 DEF HistoryValid, Retrieves
<1>5. FlattenSeq(Data) = F
  BY <1>1, <1>3, <1>4, FlattenPieces
<1> QED BY <1>1, <1>5

(* What is selected of a steady history that covers the window is the      *)
(* whole window.                                                           *)
LEMMA SelectedSpans ==
    ASSUME TypeInv, NEW b, Steady(Batch), AllFrom(Batch, b), WindowCovered
    PROVE  /\ Selected \in Seq(Sample) /\ Steady(Selected) /\ AllFrom(Selected, b)
           /\ Spans(Selected, From, To)
<1>1. Batch \in Seq(Sample) /\ Batch # <<>>
  BY BatchType DEF WindowCovered
<1> DEFINE B == Batch
           n == Len(B)
           lo == From - B[1].t + 1
           hi == To - B[1].t + 1
<1>2. /\ n \in Nat \ {0} /\ Head(B) = B[1] /\ Last(B) = B[n]
  BY <1>1, HeadTailProperties, LenProperties, EmptySeq DEF Last
<1>3. 1 \in 1 .. n /\ n \in 1 .. n
  BY <1>2
<1>4. B[1] \in Sample /\ B[n] \in Sample
  BY <1>1, <1>3, ElementOfSeq
<1>5. B[1].t \in Int /\ B[n].t \in Int /\ host.marker.t \in Int
  BY <1>4, HostFields DEF Sample
<1>6. B[n].t = B[1].t + n - 1
  BY <1>1, <1>3, SteadyTimes
<1>7. B[1].t <= From /\ To <= B[n].t
  BY <1>2 DEF WindowCovered
<1>8. From \in Int /\ To \in Int /\ From < To
  BY <1>5, Durations DEF From, To
<1> HIDE DEF B, n
<1>9. lo \in 1 .. n /\ hi \in lo .. n /\ From = B[1].t + lo - 1 /\ To = B[1].t + hi - 1
  BY <1>2, <1>5, <1>6, <1>7, <1>8
<1>10. lo \in 1 .. Len(Batch) /\ hi \in lo .. Len(Batch)
       /\ From = Batch[1].t + lo - 1 /\ To = Batch[1].t + hi - 1
  BY <1>9 DEF B, n
<1>11. B[lo].t = From /\ B[hi].t = To
  <2>1. lo \in 1 .. n /\ hi \in 1 .. n
    BY <1>2, <1>9
  <2>2. B[lo].t = B[1].t + lo - 1 /\ B[hi].t = B[1].t + hi - 1
    BY <1>1, <2>1, SteadyTimes DEF B, n
  <2> QED BY <1>9, <2>2
<1>12. Batch[lo].t = From /\ Batch[hi].t = To
  BY <1>11 DEF B
<1> DEFINE p == SubSeq(Batch, lo, hi)
<1> HIDE DEF lo, hi
<1>13. Selected = p
  BY <1>1, <1>10, SelectedIsSpan
<1>14. /\ p \in Seq(Sample) /\ Len(p) = hi - lo + 1 /\ p[1] = Batch[lo]
       /\ p[Len(p)] = Batch[hi] /\ Steady(p) /\ AllFrom(p, b)
  BY <1>1, <1>10, PieceOfSteady
<1>15. p # <<>>
  <2>1. Len(p) # 0
    <3>1. lo \in Int /\ hi \in Int /\ lo <= hi
      BY <1>2, <1>9
    <3> QED BY <1>14, <3>1
  <2> HIDE DEF p
  <2> QED BY <1>14, <2>1, EmptySeq
<1> HIDE DEF p
<1> QED BY <1>12, <1>13, <1>14, <1>15 DEF Spans

(* What is taken of the history is whole.                                  *)
LEMMA SelectStep ==
    ASSUME TypeInv, BallInv, HostInv, BallMoves, SelectWindow
    PROVE  HostInv'
<1>0. PlaceInv /\ BootInv /\ FileInv /\ ChunkInv
  BY DEF HostInv
<1>1. /\ Working /\ at = "select" /\ mode' = mode /\ mode \in {"armed", "frozen"}
  BY <1>0 DEF SelectWindow, options, PlaceInv
<1>2. /\ todo = <<>> /\ host.got = <<>> /\ host.status.boot <= ball.boot
      /\ Laid(file, Opening, <<>>, host.marker.t)
  BY <1>0, <1>1 DEF PlaceInv, FileInv
<1> DEFINE line == [kind |-> "window", label |-> label, t |-> host.marker.t]
           taken == IF mode = "armed" THEN Selected ELSE Batch
<1>3. CASE Stop(at)
  <2>1. ~Working'
    BY <1>1, <1>3 DEF Stop, Working
  <2> QED BY <2>1, EndedHost
<1>4. CASE ~Stop(at)
  <2>1. /\ HistoryValid /\ (mode = "armed" => WindowCovered)
        /\ todo' = taken /\ at' = "write" /\ UNCHANGED <<host, exit>>
        /\ IF mode = "armed" THEN Write(line) ELSE UNCHANGED file
    BY <1>4 DEF SelectWindow
  <2>2. line \in Line /\ line.kind = "window"
    <3>1. host.marker.t \in Int
      BY HostFields DEF Sample
    <3> QED BY <3>1, LineTypes
  <2> HIDE DEF line, taken
  <2>3. SameBoot' => SameBoot /\ ball'.boot = ball.boot
    BY <1>0, <1>1, <2>1, BootBefore
  <2>4. ASSUME SameBoot'
        PROVE  /\ taken \in Seq(Sample) /\ Steady(taken) /\ AllFrom(taken, ball.boot)
               /\ mode = "armed" => Spans(taken, From, To)
    <3>1. PICK F \in Seq(Sample) : Retrieves(F)
      BY <1>0, <1>1, <2>3, <2>4 DEF ChunkInv
    <3>2. Batch = F
      BY <2>1, <3>1, BatchIsHistory
    <3>3. Batch \in Seq(Sample) /\ Steady(Batch) /\ AllFrom(Batch, ball.boot)
      BY <3>1, <3>2 DEF Retrieves
    <3>4. CASE mode = "armed"
      BY <2>1, <3>3, <3>4, SelectedSpans DEF taken
    <3>5. CASE mode # "armed"
      BY <3>3, <3>5 DEF taken
    <3> QED BY <3>4, <3>5
  <2>5. PlaceInv'
    <3>1. host.status.boot <= ball'.boot
      <4>1. host.status.boot \in Nat
        BY HostFields DEF StatusRecord
      <4> QED BY <1>2, <4>1, NewerBoot
    <3> QED BY <2>1, <3>1 DEF PlaceInv, Places
  <2>6. BootInv'
    <3> SUFFICES ASSUME SameBoot'
                 PROVE  AllFrom(todo', ball.boot) /\ FileFrom(file', ball.boot)
      BY <1>2, <2>1, <2>3, NoSamples DEF BootInv
    <3>1. FileFrom(file, ball.boot)
      BY <1>0, <2>3 DEF BootInv
    <3>2. CASE mode = "armed"
      <4>1. FileFrom(file', ball.boot)
        BY <2>1, <2>2, <3>1, <3>2, FileFromMore
      <4> QED BY <2>1, <2>4, <4>1
    <3>3. CASE mode # "armed"
      BY <2>1, <2>4, <3>1, <3>3
    <3> QED BY <3>2, <3>3
  <2>7. ChunkInv'
    BY <2>1 DEF ChunkInv
  <2>8. WholeInv'
    <3> SUFFICES ASSUME SameBoot'
                 PROVE  /\ Steady(<<>> \o taken)
                        /\ mode = "armed" => Spans(<<>> \o taken, From', To')
      BY <1>1, <1>2, <2>1 DEF WholeInv
    <3>1. From' = From /\ To' = To
      BY <2>1 DEF From, To
    <3>2. <<>> \o taken = taken
      BY <2>4, ConcatEmptySeq
    <3> QED BY <2>4, <3>1, <3>2
  <2>9. FileInv'
    <3> SUFFICES Laid(file', Opening', <<>>, host.marker.t)
      BY <1>1, <1>2, <2>1 DEF FileInv
    <3>1. CASE mode = "armed"
      <4>1. Opening = 2 /\ Opening' = 3
        BY <1>1, <2>1, <3>1 DEF Opening
      <4>2. Len(file) = 2 /\ file[1].kind = "status" /\ file[2].kind = "marker"
            /\ file[2].t = host.marker.t
        BY <1>2, <4>1 DEF Laid
      <4>3. /\ Len(file') = Len(file) + 1 /\ file'[Len(file) + 1] = line
            /\ \A i \in 1 .. Len(file) : file'[i] = file[i]
        BY <2>1, <2>2, <3>1, WriteTypes
      <4>4. Len(file') = 3 /\ file'[3] = line /\ file'[1] = file[1] /\ file'[2] = file[2]
        BY <4>2, <4>3
      <4> QED BY <2>2, <4>1, <4>2, <4>4 DEF Laid
    <3>2. CASE mode # "armed"
      <4>1. Opening' = Opening /\ file' = file
        BY <1>1, <2>1, <3>2 DEF Opening
      <4> QED BY <1>2, <4>1
    <3> QED BY <3>1, <3>2
  <2> QED BY <2>5, <2>6, <2>7, <2>8, <2>9 DEF HostInv
<1> QED BY <1>3, <1>4

(* A request without an answer is repeated, given up, or, in the window    *)
(* loop, passed over.                                                      *)
LEMMA NoAnswerStep ==
    ASSUME TypeInv, BallInv, HostInv, BallMoves, NoAnswer
    PROVE  HostInv'
<1>1. Working /\ at \in RequestSteps /\ mode' = mode /\ file' = file
  BY DEF NoAnswer, options
<1>2. CASE UNCHANGED <<at, host, todo, exit>>
  BY <1>1, <1>2, QuietStep
<1>3. CASE at = "window" /\ host' = [host EXCEPT !.failed = @ + 1, !.index = @ + 1]
           /\ at' = "write" /\ UNCHANGED <<todo, exit>>
  <2> DEFINE f == host.failed + 1
             i == host.index + 1
  <2>1. host' = [host EXCEPT !.failed = f, !.index = i]
    BY <1>3
  <2> HIDE DEF f, i
  <2> QED BY <1>1, <1>3, <2>1, WindowStep
<1>4. CASE Stop(at)
  <2>1. ~Working'
    BY <1>1, <1>4 DEF Stop, Working, RequestSteps
  <2> QED BY <2>1, EndedHost
<1> QED BY <1>2, <1>3, <1>4 DEF NoAnswer

(* The newest samples are taken, or the tool gives up.                     *)
LEMMA GetWindowStep ==
    ASSUME TypeInv, BallInv, HostInv, BallMoves, GetWindow
    PROVE  HostInv'
<1>1. Working /\ at = "window" /\ mode' = mode /\ file' = file
  BY DEF GetWindow, Answered, options
<1>2. CASE Contiguous(Newest)
  <2> DEFINE i == host.index + 1
  <2>1. /\ host' = [host EXCEPT !.failed = 0, !.index = i] /\ todo' = Newest
        /\ at' = "write" /\ exit' = exit
    BY <1>2 DEF GetWindow
  <2> HIDE DEF i
  <2> QED BY <1>1, <2>1, WindowStep
<1>3. CASE Stop(at)
  <2>1. ~Working'
    BY <1>1, <1>3 DEF Stop, Working
  <2> QED BY <2>1, EndedHost
<1> QED BY <1>2, <1>3 DEF GetWindow

(* Every step keeps what the host has in order.                            *)
LEMMA HostStep ==
    ASSUME TypeInv, BallInv, HostInv, BallMoves, [Next]_vars
    PROVE  HostInv'
<1>1. CASE UNCHANGED vars
  <2>1. UNCHANGED <<at, mode, host, todo, file, exit>>
    BY <1>1 DEF vars, options
  <2> QED BY <2>1, QuietStep
<1>2. CASE Tick \/ SensorError \/ Reboot \/ OtherFreeze \/ Doze \/ Wake \/ Fail \/ Recover
  <2>1. UNCHANGED <<at, mode, host, todo, file, exit>>
    BY <1>2 DEF Tick, SensorError, Reboot, OtherFreeze, Doze, Wake, Fail, Recover, Upset,
                HostWaits, options
  <2> QED BY <2>1, QuietStep
<1>3. CASE GetFinal
  <2>1. ~Working'
    BY <1>3 DEF GetFinal, Stop, Working
  <2> QED BY <2>1, EndedHost
<1>4. CASE Kill
  <2>1. ~Working'
    BY <1>4 DEF Kill, Stop, Working
  <2> QED BY <2>1, EndedHost
<1>5. CASE Evaluate
  <2>1. UNCHANGED <<at, mode, host, todo, file, exit>>
    BY <1>5 DEF Evaluate, options
  <2> QED BY <2>1, QuietStep
<1> QED BY <1>1, <1>2, <1>3, <1>4, <1>5, NoAnswerStep, StatusStep, MoveSteps, MarkerStep,
           FreezeStep, ChunkStep, SelectStep, GetWindowStep, WriteStep DEF Next

-----------------------------------------------------------------------------
(* A capture that passes.                                                  *)

(* After the end of a capture only the detector takes a step.              *)
LEMMA EndIsTheEnd ==
    ASSUME [Next]_vars, ~Working
    PROVE  Evaluate \/ UNCHANGED vars
  BY DEF Next, Tick, SensorError, Reboot, OtherFreeze, Doze, Wake, Fail, Recover, Upset,
         NoAnswer, GetStatus, Countdown, GetMarker, Acknowledge, EpisodeOver,
         FreezeHistory, GetChunk, SelectWindow, GetWindow, WriteSample, Written,
         GetFinal, Kill, Answered

(* Only the last status ends a capture with a pass.                        *)
LEMMA OnlyFinalPasses ==
    ASSUME TypeInv, PlaceInv, [Next]_vars, exit' = "PASS"
    PROVE  GetFinal \/ UNCHANGED <<exit, mode, file>>
<1>1. CASE Working
  <2>1. at \in Places /\ exit = ""
    BY <1>1 DEF PlaceInv, Working
  <2>2. at # "PASS" /\ "killed" # "PASS" /\ exit # exit'
    BY <2>1 DEF Places, RequestSteps
  <2>3. ~Stop(at) /\ ~Stop("killed") /\ ~UNCHANGED exit
    BY <2>2 DEF Stop
  <2>4. ~NoAnswer
    BY <2>3 DEF NoAnswer
  <2>5. ~GetStatus /\ ~GetMarker /\ ~FreezeHistory /\ ~GetWindow /\ ~SelectWindow
    <3>1. GetStatus => at = "status"
      BY DEF GetStatus, Answered
    <3>2. GetMarker => at = "marker"
      BY DEF GetMarker, Answered
    <3>3. FreezeHistory => at = "freeze"
      BY DEF FreezeHistory, Answered
    <3>4. GetWindow => at = "window"
      BY DEF GetWindow, Answered
    <3>5. SelectWindow => at = "select"
      BY DEF SelectWindow
    <3> QED BY <2>3, <3>1, <3>2, <3>3, <3>4, <3>5
            DEF GetStatus, GetMarker, FreezeHistory, GetWindow, SelectWindow
  <2>6. ~Countdown /\ ~Acknowledge /\ ~EpisodeOver /\ ~GetChunk /\ ~WriteSample /\ ~Written
        /\ ~Kill /\ ~Evaluate
    BY <1>1, <2>3 DEF Countdown, Acknowledge, EpisodeOver, GetChunk, WriteSample, Written,
                      Kill, Evaluate
  <2>7. /\ ~Tick /\ ~SensorError /\ ~Reboot /\ ~OtherFreeze /\ ~Doze /\ ~Wake /\ ~Fail
        /\ ~Recover
    BY <2>3 DEF Tick, SensorError, Reboot, OtherFreeze, Doze, Wake, Fail, Recover, Upset,
                HostWaits
  <2>8. ~UNCHANGED vars
    BY <2>3 DEF vars
  <2> QED BY <2>4, <2>5, <2>6, <2>7, <2>8 DEF Next
<1>2. CASE ~Working
  <2>1. Evaluate \/ UNCHANGED vars
    BY <1>2, EndIsTheEnd
  <2> QED BY <2>1 DEF Evaluate, vars, options
<1> QED BY <1>1, <1>2

(* Without an issue no boot came between the two statuses, and every       *)
(* sample is valid.                                                        *)
LEMMA NoIssues ==
    ASSUME Issues = {}
    PROVE  /\ Status.boot = host.status.boot
           /\ \A i \in DOMAIN host.got : host.got[i].ok
<1>1. StatusIssues(host.status, Status, host.got) = {} /\ MotionIssues(host.got) = {}
  BY DEF Issues
<1>2. Status.boot # host.status.boot
        => "boot_id_changed" \in StatusIssues(host.status, Status, host.got)
  <2> HIDE DEF Status
  <2> QED BY DEF StatusIssues
<1>3. (\E i \in DOMAIN host.got : ~host.got[i].ok) => "invalid" \in MotionIssues(host.got)
  BY DEF MotionIssues
<1> QED BY <1>1, <1>2, <1>3

(* Steady samples on consecutive lines: their times are an interval.       *)
LEMMA SteadyLines ==
    ASSUME NEW f, NEW n \in Nat, NEW g \in Seq(Sample), Steady(g), g # <<>>,
           \A i \in 1 .. Len(g) : f[n + i].sample = g[i]
    PROVE  LET M == n + 1 .. n + Len(g)
           IN  /\ \A i, j \in M : i < j => f[i].sample.t < f[j].sample.t
               /\ {f[i].sample.t : i \in M} = g[1].t .. g[Len(g)].t
               /\ g[1].t \in Int /\ g[Len(g)].t \in Int
<1> DEFINE M == n + 1 .. n + Len(g)
           a == g[1].t
<1>1. Len(g) \in Nat \ {0}
  BY LenProperties, EmptySeq
<1>2. 1 \in 1 .. Len(g) /\ Len(g) \in 1 .. Len(g)
  BY <1>1
<1>3. a \in Int /\ g[Len(g)].t \in Int
  <2>1. g[1] \in Sample /\ g[Len(g)] \in Sample
    BY <1>2, ElementOfSeq
  <2> QED BY <2>1 DEF Sample
<1>4. \A i \in 1 .. Len(g) : g[i].t = a + i - 1
  BY SteadyTimes
<1> HIDE DEF a
<1>5. \A k \in M : f[k].sample.t = a + (k - n) - 1
  <2> SUFFICES ASSUME NEW k \in M PROVE f[k].sample.t = a + (k - n) - 1
    OBVIOUS
  <2>1. k - n \in 1 .. Len(g) /\ n + (k - n) = k
    BY <1>1
  <2>2. f[n + (k - n)].sample = g[k - n]
    BY <2>1
  <2> QED BY <1>4, <2>1, <2>2
<1>6. g[Len(g)].t = a + Len(g) - 1
  BY <1>2, <1>4
<1> DEFINE l == Len(g)
<1>7. l \in Nat \ {0} /\ g[Len(g)].t = a + l - 1 /\ M = n + 1 .. n + l
  BY <1>1, <1>6
<1> HIDE DEF l, M
<1>8. \A i, j \in M : i < j => f[i].sample.t < f[j].sample.t
  <2> SUFFICES ASSUME NEW i \in M, NEW j \in M, i < j PROVE f[i].sample.t < f[j].sample.t
    OBVIOUS
  <2>1. i \in Int /\ j \in Int
    BY <1>7
  <2>2. a + (i - n) - 1 < a + (j - n) - 1
    BY <1>3, <2>1
  <2> QED BY <1>5, <2>2
<1>9. {f[i].sample.t : i \in M} = a .. a + l - 1
  <2>1. \A k \in M : f[k].sample.t \in a .. a + l - 1
    <3> SUFFICES ASSUME NEW k \in M PROVE a + (k - n) - 1 \in a .. a + l - 1
      BY <1>5
    <3> QED BY <1>3, <1>7
  <2>2. \A t \in a .. a + l - 1 : \E k \in M : f[k].sample.t = t
    <3> SUFFICES ASSUME NEW t \in a .. a + l - 1 PROVE \E k \in M : f[k].sample.t = t
      OBVIOUS
    <3>1. n + (t - a) + 1 \in M /\ a + ((n + (t - a) + 1) - n) - 1 = t
      BY <1>3, <1>7
    <3>2. f[n + (t - a) + 1].sample.t = t
      BY <1>5, <3>1
    <3> QED BY <3>1, <3>2
  <2> QED BY <2>1, <2>2
<1> QED BY <1>3, <1>7, <1>8, <1>9 DEF a, M

(* An interval holds what is between two of its members.                   *)
LEMMA Between ==
    ASSUME NEW x \in Int, NEW y \in Int
    PROVE  \A a, b \in x .. y : a .. b \subseteq x .. y
  OBVIOUS

(* The last line of a passing capture.                                     *)
LEMMA FinalLine ==
    ASSUME TypeInv, GetFinal, exit' = "PASS"
    PROVE  /\ Working /\ at = "final" /\ mode' = mode /\ Issues = {} /\ host.got # <<>>
           /\ \E line \in Line : line.kind = "result" /\ Write(line)
<1>1. Working /\ at = "final" /\ mode' = mode
  BY DEF GetFinal, Answered, options
<1>2. Issues = {} /\ host.got # <<>>
  BY DEF GetFinal, Stop
<1> DEFINE line == [kind |-> "result", label |-> label, status |-> "PASS"]
<1>3. line \in Line /\ line.kind = "result"
  BY LineTypes
<1>4. Write(line)
  BY <1>2 DEF GetFinal
<1> QED BY <1>1, <1>2, <1>3, <1>4

(* A capture that passes is of one boot.                                   *)
LEMMA FinalBoot ==
    ASSUME TypeInv, BootInv, GetFinal, exit' = "PASS"
    PROVE  PassIsOneBoot' /\ SameBoot
<1>1. /\ Working /\ Issues = {} /\ \E line \in Line : line.kind = "result" /\ Write(line)
  BY FinalLine
<1>2. PICK line \in Line : line.kind = "result" /\ Write(line)
  BY <1>1
<1>3. SameBoot
  BY <1>1, NoIssues, StatusType DEF SameBoot
<1>4. FileFrom(file, ball.boot)
  BY <1>3 DEF BootInv
<1>5. FileFrom(file', ball.boot)
  BY <1>2, <1>4, FileFromMore
<1>6. PassIsOneBoot'
  BY <1>5 DEF PassIsOneBoot, FileFrom, Motions, Markers, Lines
<1> QED BY <1>3, <1>6

(* The motion lines of a passing history are what was got, on the lines    *)
(* after the opening; its marker, if any, is on the second.                *)
LEMMA FinalLines ==
    ASSUME TypeInv, FileInv, GetFinal, exit' = "PASS", mode # "window"
    PROVE  \E n \in Nat :
             /\ Motions' = n + 1 .. n + Len(host.got)
             /\ \A i \in 1 .. Len(host.got) : file'[n + i].sample = host.got[i]
             /\ mode = "armed" => /\ Markers' = {2}
                                  /\ file'[2].t = host.marker.t
<1>1. /\ Working /\ at = "final" /\ \E line \in Line : line.kind = "result" /\ Write(line)
  BY FinalLine
<1>2. PICK line \in Line : line.kind = "result" /\ Write(line)
  BY <1>1
<1>3. /\ Len(file') = Len(file) + 1 /\ Len(file) \in Nat /\ file'[Len(file) + 1] = line
      /\ \A i \in 1 .. Len(file) : file'[i] = file[i]
      /\ DOMAIN file' = 1 .. Len(file) + 1
  BY <1>2, WriteTypes
<1>4. mode \in {"armed", "frozen"}
  <2>1. mode \in Modes
    BY DEF TypeInv
  <2> QED BY <2>1, CaptureAssumption
<1> DEFINE n == Opening
           l == Len(host.got)
<1>5. n = (IF mode = "armed" THEN 3 ELSE 1) /\ n \in Nat /\ n >= 1
  BY <1>1, <1>4 DEF Opening
<1>6. l \in Nat
  BY HostFields, LenProperties
<1>7. Laid(file, n, host.got, host.marker.t)
  BY <1>1 DEF FileInv
<1> HIDE DEF n
<1>8. /\ Len(file) = n + l /\ file[1].kind = "status"
      /\ mode = "armed" => /\ file[2].kind = "marker" /\ file[2].t = host.marker.t
                           /\ file[3].kind = "window"
      /\ \A i \in 1 .. l : file[n + i].kind = "motion" /\ file[n + i].sample = host.got[i]
  <2>1. n >= 1 /\ (mode = "armed" => n >= 2 /\ n >= 3)
    BY <1>5
  <2>2. /\ Len(file) = n + l
        /\ n >= 1 => file[1].kind = "status"
        /\ n >= 2 => file[2].kind = "marker" /\ file[2].t = host.marker.t
        /\ n >= 3 => file[3].kind = "window"
        /\ \A i \in 1 .. l : file[n + i].kind = "motion" /\ file[n + i].sample = host.got[i]
    BY <1>7 DEF Laid
  <2> QED BY <2>1, <2>2
<1> HIDE DEF l
<1>9. \A k \in 1 .. n + l : file'[k] = file[k]
  BY <1>3, <1>8
<1>10. DOMAIN file' = 1 .. n + l + 1 /\ file'[n + l + 1].kind = "result"
  BY <1>2, <1>3, <1>8
<1>11. \A i \in 1 .. l : file'[n + i].kind = "motion" /\ file'[n + i].sample = host.got[i]
  <2> SUFFICES ASSUME NEW i \in 1 .. l PROVE file'[n + i] = file[n + i]
    BY <1>8
  <2>1. n + i \in 1 .. n + l
    BY <1>5, <1>6
  <2> QED BY <1>9, <2>1
<1>12. /\ file'[1].kind = "status"
       /\ mode = "armed" => /\ file'[2].kind = "marker" /\ file'[2].t = host.marker.t
                            /\ file'[3].kind = "window"
  <2>1. 1 \in 1 .. n + l
    BY <1>5, <1>6
  <2>2. mode = "armed" => 2 \in 1 .. n + l /\ 3 \in 1 .. n + l
    BY <1>5, <1>6
  <2> QED BY <1>8, <1>9, <2>1, <2>2
<1>13. \A k \in DOMAIN file' : k \in 1 .. n \/ k \in n + 1 .. n + l \/ k = n + l + 1
  BY <1>5, <1>6, <1>10
<1>14. \A k \in n + 1 .. n + l : k \in DOMAIN file' /\ file'[k].kind = "motion"
  <2> SUFFICES ASSUME NEW k \in n + 1 .. n + l
               PROVE  k \in DOMAIN file' /\ file'[k].kind = "motion"
    OBVIOUS
  <2>1. k \in 1 .. n + l + 1 /\ k - n \in 1 .. l /\ n + (k - n) = k
    BY <1>5, <1>6
  <2>2. file'[n + (k - n)].kind = "motion"
    BY <1>11, <2>1
  <2> QED BY <1>10, <2>1, <2>2
<1>15. \A k \in 1 .. n :
         file'[k].kind = IF k = 1 THEN "status" ELSE IF k = 2 THEN "marker" ELSE "window"
  <2> SUFFICES ASSUME NEW k \in 1 .. n
               PROVE  file'[k].kind = IF k = 1 THEN "status"
                                      ELSE IF k = 2 THEN "marker" ELSE "window"
    OBVIOUS
  <2>1. k = 1 \/ (mode = "armed" /\ (k = 2 \/ k = 3))
    BY <1>5
  <2> QED BY <1>12, <2>1
<1>16. {k \in DOMAIN file' : file'[k].kind = "motion"} = n + 1 .. n + l
  <2>1. \A k \in DOMAIN file' : file'[k].kind = "motion" => k \in n + 1 .. n + l
    BY <1>10, <1>13, <1>15
  <2> QED BY <1>14, <2>1
<1>17. ASSUME mode = "armed"
       PROVE  {k \in DOMAIN file' : file'[k].kind = "marker"} = {2}
  <2>1. \A k \in DOMAIN file' : file'[k].kind = "marker" => k = 2
    BY <1>10, <1>13, <1>14, <1>15
  <2>2. 2 \in DOMAIN file' /\ file'[2].kind = "marker"
    BY <1>5, <1>6, <1>10, <1>12, <1>17
  <2> QED BY <2>1, <2>2
<1>18. Motions' = n + 1 .. n + l /\ (mode = "armed" => Markers' = {2})
  BY <1>16, <1>17 DEF Motions, Markers, Lines
<1> QED BY <1>5, <1>11, <1>12, <1>18 DEF l

(* A history that passes has no hole.                                      *)
LEMMA FinalHistory ==
    ASSUME TypeInv, PlaceInv, FileInv, WholeInv, SameBoot, GetFinal, exit' = "PASS"
    PROVE  HistoryHasNoHole'
<1>1. /\ Working /\ at = "final" /\ mode' = mode /\ Issues = {} /\ host.got # <<>>
  BY FinalLine
<1> SUFFICES ASSUME mode # "window"
             PROVE  /\ \A i \in Motions' : file'[i].sample.ok
                    /\ \A i, j \in Motions' : i < j => file'[i].sample.t < file'[j].sample.t
                    /\ \A a, b \in Times' : a .. b \subseteq Times'
                    /\ mode = "armed" =>
                         /\ Markers' # {}
                         /\ \A k \in Markers' :
                              Times' = file'[k].t - PreRoll .. file'[k].t + Episode
  BY <1>1 DEF HistoryHasNoHole
<1> DEFINE g == host.got
<1>2. g \in Seq(Sample) /\ todo = <<>> /\ g # <<>> /\ DOMAIN g = 1 .. Len(g)
  BY <1>1, HostFields, LenProperties DEF PlaceInv
<1>3. Steady(g) /\ (mode = "armed" => Spans(g, From, To))
  <2>1. g \o todo = g
    BY <1>2, ConcatEmptySeq
  <2> QED BY <1>1, <2>1 DEF WholeInv
<1>4. \A i \in 1 .. Len(g) : g[i].ok
  BY <1>1, <1>2, NoIssues
<1>5. PICK n \in Nat :
         /\ Motions' = n + 1 .. n + Len(g)
         /\ \A i \in 1 .. Len(g) : file'[n + i].sample = g[i]
         /\ mode = "armed" => Markers' = {2} /\ file'[2].t = host.marker.t
  BY FinalLines
<1> HIDE DEF g
<1> DEFINE M == n + 1 .. n + Len(g)
           f == file'
<1>6. /\ \A i, j \in M : i < j => f[i].sample.t < f[j].sample.t
      /\ {f[i].sample.t : i \in M} = g[1].t .. g[Len(g)].t
      /\ g[1].t \in Int /\ g[Len(g)].t \in Int
  <2>1. \A i \in 1 .. Len(g) : f[n + i].sample = g[i]
    BY <1>5
  <2>2. n \in Nat /\ g \in Seq(Sample) /\ Steady(g) /\ g # <<>>
    BY <1>2, <1>3, <1>5
  <2> HIDE DEF f
  <2> QED BY <2>1, <2>2, SteadyLines
<1>7. \A i \in M : file'[i].sample.ok
  <2> SUFFICES ASSUME NEW i \in M PROVE file'[i].sample.ok
    OBVIOUS
  <2>1. Len(g) \in Nat
    BY <1>2, LenProperties
  <2>2. i - n \in 1 .. Len(g) /\ n + (i - n) = i
    BY <2>1
  <2>3. file'[n + (i - n)].sample = g[i - n]
    BY <1>5, <2>2
  <2> QED BY <1>4, <2>2, <2>3
<1>8. Motions' = M
  BY <1>5
<1> HIDE DEF M
<1>9. Times' = g[1].t .. g[Len(g)].t
  BY <1>6, <1>8 DEF Times
<1>10. \A a, b \in Times' : a .. b \subseteq Times'
  BY <1>6, <1>9, Between
<1>11. ASSUME mode = "armed"
       PROVE  /\ Markers' # {}
              /\ \A k \in Markers' :
                   Times' = file'[k].t - PreRoll .. file'[k].t + Episode
  <2>1. g[1].t = host.marker.t - PreRoll /\ g[Len(g)].t = host.marker.t + Episode
    BY <1>3, <1>11 DEF Spans, From, To
  <2> QED BY <1>5, <1>9, <1>11, <2>1
<1> QED BY <1>6, <1>7, <1>8, <1>10, <1>11

(* Every step keeps what was proved of a passing capture.                  *)
LEMMA PassStep ==
    ASSUME TypeInv, HostInv, PassIsOneBoot, HistoryHasNoHole, [Next]_vars
    PROVE  PassIsOneBoot' /\ HistoryHasNoHole'
<1>0. PlaceInv /\ BootInv /\ FileInv /\ WholeInv
  BY DEF HostInv
<1>1. CASE exit' # "PASS"
  BY <1>1 DEF PassIsOneBoot, HistoryHasNoHole
<1>2. CASE exit' = "PASS" /\ GetFinal
  BY <1>0, <1>2, FinalBoot, FinalHistory
<1>3. CASE exit' = "PASS" /\ UNCHANGED <<exit, mode, file>>
  <2>1. PassIsOneBoot'
    BY <1>3 DEF PassIsOneBoot, Motions, Markers, Lines
  <2>2. HistoryHasNoHole'
    BY <1>3 DEF HistoryHasNoHole, Times, Motions, Markers, Lines
  <2> QED BY <2>1, <2>2
<1> QED BY <1>0, <1>1, <1>2, <1>3, OnlyFinalPasses

-----------------------------------------------------------------------------
(* What the detector makes of it.                                          *)

(* A step of a capture leaves the file, or writes one line: a marker or a  *)
(* window only in an armed capture, the result last.                       *)
LEMMA OneLine ==
    ASSUME TypeInv, PlaceInv, [Next]_vars
    PROVE  /\ mode' = mode
           /\ \/ UNCHANGED file
              \/ \E line \in Line : /\ Write(line)
                                    /\ line.kind \in {"marker", "window"} => mode = "armed"
                                    /\ line.kind = "result" => GetFinal
<1> DEFINE Goal == /\ mode' = mode
                   /\ \/ UNCHANGED file
                      \/ \E line \in Line : /\ Write(line)
                                            /\ line.kind \in {"marker", "window"}
                                                 => mode = "armed"
                                            /\ line.kind = "result" => GetFinal
<1>1. CASE UNCHANGED vars
  BY <1>1 DEF vars, options
<1>2. CASE Tick \/ SensorError \/ Reboot \/ OtherFreeze \/ Doze \/ Wake \/ Fail \/ Recover
  BY <1>2 DEF Tick, SensorError, Reboot, OtherFreeze, Doze, Wake, Fail, Recover, Upset,
              HostWaits, options
<1>3. CASE NoAnswer \/ Countdown \/ Acknowledge \/ EpisodeOver \/ Written \/ Kill \/ Evaluate
  BY <1>3 DEF NoAnswer, Countdown, Acknowledge, EpisodeOver, Written, Kill, Evaluate, options
<1>4. CASE FreezeHistory \/ GetChunk \/ GetWindow
  BY <1>4 DEF FreezeHistory, GetChunk, GetWindow, Answered, options
<1>5. CASE GetStatus
  <2> DEFINE line == [kind |-> "status", label |-> label]
  <2>1. line \in Line /\ line.kind = "status"
    BY LineTypes
  <2>2. mode' = mode /\ (UNCHANGED file \/ Write(line))
    BY <1>5 DEF GetStatus, Answered, options
  <2> HIDE DEF line
  <2> QED BY <2>1, <2>2
<1>6. CASE GetMarker
  <2> DEFINE line == [kind |-> "marker", label |-> label, t |-> ball.motion.t,
                      boot |-> ball.motion.boot]
  <2>1. ball.motion.t \in Int /\ ball.motion.boot \in Nat
    BY DEF TypeInv, Ball, Sample
  <2>2. line \in Line /\ line.kind = "marker"
    BY <2>1, LineTypes
  <2>3. Working /\ at = "marker"
    BY <1>6 DEF GetMarker, Answered
  <2>4. mode = "armed"
    BY <2>3 DEF PlaceInv
  <2>5. mode' = mode /\ (UNCHANGED file \/ Write(line))
    BY <1>6 DEF GetMarker, Answered, options
  <2> HIDE DEF line
  <2> QED BY <2>2, <2>4, <2>5
<1>7. CASE SelectWindow
  <2> DEFINE line == [kind |-> "window", label |-> label, t |-> host.marker.t]
  <2>1. host.marker.t \in Int
    BY DEF TypeInv, Host, Sample
  <2>2. line \in Line /\ line.kind = "window"
    BY <2>1, LineTypes
  <2>3. mode' = mode /\ (UNCHANGED file \/ (mode = "armed" /\ Write(line)))
    BY <1>7 DEF SelectWindow, options
  <2> HIDE DEF line
  <2> QED BY <2>2, <2>3
<1>8. CASE WriteSample
  <2> DEFINE line == [kind |-> "motion", label |-> label, sample |-> Head(todo)]
  <2>1. todo # <<>> /\ todo \in Seq(Sample)
    BY <1>8 DEF WriteSample, TypeInv
  <2>2. Head(todo) \in Sample
    BY <2>1, HeadTailProperties
  <2>3. line \in Line /\ line.kind = "motion"
    BY <2>2, LineTypes
  <2>4. mode' = mode /\ (UNCHANGED file \/ Write(line))
    BY <1>8 DEF WriteSample, options
  <2> HIDE DEF line
  <2> QED BY <2>3, <2>4
<1>9. CASE GetFinal
  <2> DEFINE line == [kind |-> "result", label |-> label,
                      status |-> IF Issues = {} THEN "PASS" ELSE "FAIL"]
  <2>1. line \in Line /\ line.kind = "result"
    <3> DEFINE r == IF Issues = {} THEN "PASS" ELSE "FAIL"
    <3>1. r \in {"PASS", "FAIL"}
      OBVIOUS
    <3> HIDE DEF r
    <3> QED BY <3>1, LineTypes DEF r
  <2>2. mode' = mode /\ Write(line)
    BY <1>9 DEF GetFinal, Answered, options
  <2> HIDE DEF line
  <2> QED BY <1>9, <2>1, <2>2
<1> QED BY <1>1, <1>2, <1>3, <1>4, <1>5, <1>6, <1>7, <1>8, <1>9 DEF Next

(* Another line has its kind, and the lines before it keep theirs.         *)
LEMMA LineMore ==
    ASSUME TypeInv, NEW line \in Line, Write(line), NEW kind
    PROVE  HasLine(file', kind) <=> HasLine(file, kind) \/ line.kind = kind
<1>1. /\ Len(file) \in Nat /\ file'[Len(file) + 1] = line
      /\ \A i \in 1 .. Len(file) : file'[i] = file[i]
      /\ DOMAIN file = 1 .. Len(file) /\ DOMAIN file' = 1 .. Len(file) + 1
  BY WriteTypes
<1>2. \A i \in 1 .. Len(file) + 1 : i \in 1 .. Len(file) \/ i = Len(file) + 1
  BY <1>1
<1>3. \A i \in 1 .. Len(file) : i \in 1 .. Len(file) + 1
  BY <1>1
<1>4. Len(file) + 1 \in 1 .. Len(file) + 1
  BY <1>1
<1> QED BY <1>1, <1>2, <1>3, <1>4 DEF HasLine

(* The result completes the file of an armed capture.                      *)
LEMMA FinalComplete ==
    ASSUME TypeInv, FileInv, GetFinal, mode = "armed"
    PROVE  Complete(file', exit')
<1> DEFINE line == [kind |-> "result", label |-> label,
                    status |-> IF Issues = {} THEN "PASS" ELSE "FAIL"]
           f == file'
           g == host.got
           l == Len(g)
<1>1. Working /\ at = "final" /\ Write(line)
  BY DEF GetFinal, Answered
<1>2. exit' = IF Issues = {} /\ g # <<>> /\ Gapless(g) THEN "PASS" ELSE "FAIL"
  BY DEF GetFinal, Stop
<1>3. line \in Line /\ line.kind = "result" /\ (line.status = "PASS" => Issues = {})
  <2> DEFINE r == IF Issues = {} THEN "PASS" ELSE "FAIL"
  <2>1. r \in {"PASS", "FAIL"} /\ (r = "PASS" => Issues = {})
    OBVIOUS
  <2> HIDE DEF r
  <2> QED BY <2>1, LineTypes DEF r
<1> HIDE DEF line
<1>4. /\ Len(f) = Len(file) + 1 /\ Len(file) \in Nat /\ f[Len(file) + 1] = line
      /\ \A i \in 1 .. Len(file) : f[i] = file[i]
  BY <1>1, <1>3, WriteTypes
<1> HIDE DEF f
<1>5. g \in Seq(Sample) /\ l \in Nat
  BY HostFields, LenProperties
<1>6. Opening = 3
  BY <1>1 DEF Opening
<1>7. Laid(file, 3, g, host.marker.t)
  BY <1>1, <1>6 DEF FileInv
<1>8. /\ Len(file) = 3 + l
      /\ file[1].kind = "status" /\ file[2].kind = "marker" /\ file[3].kind = "window"
      /\ \A i \in 1 .. l : file[3 + i].kind = "motion" /\ file[3 + i].sample = g[i]
  BY <1>7 DEF Laid
<1> HIDE DEF g
<1> HIDE DEF l
<1>9. /\ Len(f) = 4 + l /\ f[4 + l] = line
      /\ \A i \in 1 .. 3 + l : f[i] = file[i]
  <2>1. Len(file) + 1 = 4 + l
    BY <1>5, <1>8
  <2> QED BY <1>4, <1>8, <2>1
<1>10. /\ Len(f) >= 4 /\ f[1].kind = "status" /\ f[2].kind = "marker"
       /\ f[3].kind = "window" /\ f[Len(f)] = line
  <2>1. 1 \in 1 .. 3 + l /\ 2 \in 1 .. 3 + l /\ 3 \in 1 .. 3 + l /\ 4 + l >= 4
    BY <1>5
  <2> QED BY <1>8, <1>9, <2>1
<1>11. \A i \in 1 .. l : f[3 + i].kind = "motion" /\ f[3 + i].sample = g[i]
  <2> SUFFICES ASSUME NEW i \in 1 .. l PROVE f[3 + i] = file[3 + i]
    BY <1>8
  <2>1. 3 + i \in 1 .. 3 + l
    BY <1>5
  <2> QED BY <1>9, <2>1
<1>12. \A i \in 4 .. Len(f) - 1 : f[i].kind = "motion"
  <2> SUFFICES ASSUME NEW i \in 4 .. Len(f) - 1 PROVE f[i].kind = "motion"
    OBVIOUS
  <2>1. i - 3 \in 1 .. l /\ 3 + (i - 3) = i
    BY <1>5, <1>9
  <2>2. f[3 + (i - 3)].kind = "motion"
    BY <1>11, <2>1
  <2> QED BY <2>1, <2>2
<1>13. ASSUME line.status = "PASS", Len(f) > 4, Counted(f)
       PROVE  exit' = "PASS"
  <2>1. \A i \in 1 .. l - 1 : g[i + 1].seq = g[i].seq + 1
    <3> SUFFICES ASSUME NEW i \in 1 .. l - 1 PROVE g[i + 1].seq = g[i].seq + 1
      OBVIOUS
    <3>1. /\ 3 + i \in 4 .. Len(f) - 2 /\ (3 + i) + 1 = 3 + (i + 1)
          /\ i \in 1 .. l /\ i + 1 \in 1 .. l
      BY <1>5, <1>9
    <3>2. f[(3 + i) + 1].sample.seq = f[3 + i].sample.seq + 1
      BY <1>13, <3>1 DEF Counted
    <3>3. f[3 + i].sample = g[i] /\ f[3 + (i + 1)].sample = g[i + 1]
      BY <1>11, <3>1
    <3> QED BY <3>1, <3>2, <3>3
  <2>2. Gapless(g)
    BY <1>5, <2>1, CountedGapless DEF l
  <2>3. g # <<>>
    <3>1. l > 0
      BY <1>5, <1>9, <1>13
    <3>2. Len(<<>>) = 0
      OBVIOUS
    <3> QED BY <3>1, <3>2 DEF l
  <2>4. Issues = {}
    BY <1>3, <1>13
  <2> QED BY <1>2, <2>2, <2>3, <2>4
<1> QED BY <1>3, <1>10, <1>12, <1>13 DEF Complete, f

(* Before the end there is no verdict, and only the detector gives one.    *)
LEMMA NoVerdict ==
    ASSUME [Next]_vars
    PROVE  Evaluate \/ UNCHANGED verdict
  BY DEF Next, Tick, SensorError, Reboot, OtherFreeze, Doze, Wake, Fail, Recover, Upset,
         HostWaits, NoAnswer, GetStatus, Countdown, GetMarker, Acknowledge, EpisodeOver,
         FreezeHistory, GetChunk, SelectWindow, GetWindow, WriteSample, Written,
         GetFinal, Kill, Answered, vars

(* Every step keeps results where they belong.                             *)
LEMMA ResultStep ==
    ASSUME TypeInv, HostInv, ResultInv, [Next]_vars
    PROVE  ResultInv'
<1>0. PlaceInv /\ FileInv
  BY DEF HostInv
<1>1. mode' = mode
  BY <1>0, OneLine
<1>2. HasLine(file', "marker") \/ HasLine(file', "window") => mode' = "armed"
  <2>1. CASE UNCHANGED file
    BY <1>1, <2>1 DEF ResultInv
  <2>2. CASE ~UNCHANGED file
    <3>1. PICK line \in Line : Write(line) /\ (line.kind \in {"marker", "window"} => mode = "armed")
      BY <1>0, <2>2, OneLine
    <3>2. \A kind : HasLine(file', kind) <=> HasLine(file, kind) \/ line.kind = kind
      BY <3>1, LineMore
    <3> QED BY <1>1, <3>1, <3>2 DEF ResultInv
  <2> QED BY <2>1, <2>2
<1>3. ASSUME HasLine(file', "result")
      PROVE  ~Working' /\ (mode' = "armed" => Complete(file', exit'))
  <2>1. CASE GetFinal
    <3>1. ~Working'
      BY <2>1 DEF GetFinal, Stop, Working
    <3> QED BY <1>0, <1>1, <2>1, <3>1, FinalComplete
  <2>2. CASE ~GetFinal
    <3>1. HasLine(file, "result")
      <4>1. CASE UNCHANGED file
        BY <1>3, <4>1
      <4>2. CASE ~UNCHANGED file
        <5>1. PICK line \in Line : Write(line) /\ line.kind # "result"
          BY <1>0, <2>2, <4>2, OneLine
        <5> QED BY <1>3, <5>1, LineMore
      <4> QED BY <4>1, <4>2
    <3>2. ~Working /\ (mode = "armed" => Complete(file, exit))
      BY <3>1 DEF ResultInv
    <3>3. UNCHANGED <<file, exit>>
      BY <3>2, EndIsTheEnd DEF Evaluate, vars
    <3> QED BY <1>1, <3>2, <3>3 DEF Working
  <2> QED BY <2>1, <2>2
<1>4. Working' => verdict' = ""
  <2>1. CASE Working
    <3>1. ~Evaluate
      BY <2>1 DEF Evaluate
    <3> QED BY <2>1, <3>1, NoVerdict DEF ResultInv
  <2>2. CASE ~Working
    <3>1. UNCHANGED exit
      BY <2>2, EndIsTheEnd DEF Evaluate, vars
    <3> QED BY <2>2, <3>1 DEF Working
  <2> QED BY <2>1, <2>2
<1> QED BY <1>2, <1>3, <1>4 DEF ResultInv

(* Reading a file: a kind whose lines are consecutive is cut out, a kind   *)
(* without a line is empty, and a kind of one line is that line.           *)
LEMMA KindIsSpan ==
    ASSUME NEW f \in Seq(Line), NEW kind, NEW lo \in Nat, NEW hi \in Nat,
           1 <= lo, lo - 1 <= hi, hi <= Len(f),
           \A n \in 1 .. Len(f) : f[n].kind = kind <=> lo <= n /\ n <= hi
    PROVE  OfKind(f, kind) = SubSeq(f, lo, hi)
<1> DEFINE I == Lines(f, kind)
<1>1. DOMAIN f = 1 .. Len(f)
  BY LenProperties
<1>2. \A n \in 1 .. Len(f) : n \in I <=> lo <= n /\ n <= hi
  BY <1>1 DEF Lines
<1>3. OfKind(f, kind) = Picked(f, I)
  BY DEF OfKind
<1> HIDE DEF I
<1> QED BY <1>2, <1>3, PickedIsSpan

LEMMA NoneOfKind ==
    ASSUME NEW f \in Seq(Line), NEW kind, ~HasLine(f, kind)
    PROVE  OfKind(f, kind) = <<>>
<1>1. DOMAIN f = 1 .. Len(f) /\ Len(f) \in Nat
  BY LenProperties
<1>2. \A n \in 1 .. Len(f) : f[n].kind = kind <=> 1 <= n /\ n <= 0
  <2>1. \A n \in 1 .. Len(f) : ~(n <= 0)
    BY <1>1
  <2> QED BY <1>1, <2>1 DEF HasLine
<1>3. 1 \in Nat /\ 0 \in Nat /\ 1 <= 1 /\ 1 - 1 <= 0 /\ 0 <= Len(f)
  BY <1>1
<1>4. OfKind(f, kind) = SubSeq(f, 1, 0)
  BY <1>2, <1>3, KindIsSpan
<1>5. SubSeq(f, 1, 0) = <<>>
  BY SubSeqEmpty
<1> QED BY <1>4, <1>5

LEMMA OneOfKind ==
    ASSUME NEW f \in Seq(Line), NEW kind, NEW k \in 1 .. Len(f),
           \A n \in 1 .. Len(f) : f[n].kind = kind <=> n = k
    PROVE  Len(OfKind(f, kind)) = 1 /\ OfKind(f, kind)[1] = f[k]
<1>1. Len(f) \in Nat
  BY LenProperties
<1>2. \A n \in 1 .. Len(f) : f[n].kind = kind <=> k <= n /\ n <= k
  BY <1>1
<1>3. k \in Nat /\ 1 <= k /\ k - 1 <= k /\ k <= Len(f)
  BY <1>1
<1>4. OfKind(f, kind) = SubSeq(f, k, k)
  BY <1>2, <1>3, KindIsSpan
<1>5. k \in Int /\ k - k + 1 = 1 /\ k + 1 - 1 = k /\ 1 \in 1 .. 1
  BY <1>3
<1>6. \A i \in k .. k : f[i] \in Line
  BY <1>3, ElementOfSeq
<1>7. /\ Len(SubSeq(f, k, k)) = k - k + 1
      /\ \A i \in 1 .. k - k + 1 : SubSeq(f, k, k)[i] = f[k + i - 1]
  BY <1>5, <1>6, SubSeqProperties
<1> QED BY <1>4, <1>5, <1>7

(* What the detector reads in the file of an armed capture with a result.  *)
LEMMA CompleteRead ==
    ASSUME NEW f \in Seq(Line), NEW how, Complete(f, how)
    PROVE  /\ Len(OfKind(f, "marker")) = 1 /\ OfKind(f, "marker")[1] = f[2]
           /\ OfKind(f, "result") # <<>>
           /\ Last(OfKind(f, "result")) = f[Len(f)]
           /\ LET m == OfKind(f, "motion")
              IN  /\ DOMAIN m = 1 .. Len(f) - 4
                  /\ \A i \in DOMAIN m : m[i] = f[3 + i]
<1> DEFINE L == Len(f)
<1>1. L \in Nat /\ L >= 4
  BY LenProperties DEF Complete
<1>2. /\ f[1].kind = "status" /\ f[2].kind = "marker" /\ f[3].kind = "window"
      /\ \A i \in 4 .. L - 1 : f[i].kind = "motion"
      /\ f[L].kind = "result"
  BY DEF Complete
<1> HIDE DEF L
<1>3. \A n \in 1 .. L : n = 1 \/ n = 2 \/ n = 3 \/ n = L \/ n \in 4 .. L - 1
  BY <1>1
<1>4. \A n \in 1 .. L : /\ f[n].kind = "marker" <=> n = 2
                        /\ f[n].kind = "result" <=> n = L
  <2> SUFFICES ASSUME NEW n \in 1 .. L
               PROVE  (f[n].kind = "marker" <=> n = 2) /\ (f[n].kind = "result" <=> n = L)
    OBVIOUS
  <2>1. L # 1 /\ L # 2 /\ L # 3 /\ (n \in 4 .. L - 1 => n # 2 /\ n # L)
    BY <1>1
  <2> QED BY <1>2, <1>3, <2>1
<1>5. \A n \in 1 .. L : f[n].kind = "motion" <=> 4 <= n /\ n <= L - 1
  <2> SUFFICES ASSUME NEW n \in 1 .. L PROVE f[n].kind = "motion" <=> 4 <= n /\ n <= L - 1
    OBVIOUS
  <2>1. /\ n \in 4 .. L - 1 <=> 4 <= n /\ n <= L - 1
        /\ n \in 4 .. L - 1 \/ n \in {1, 2, 3, L}
    BY <1>1, <1>3
  <2>2. n \in {1, 2, 3, L} => f[n].kind # "motion"
    BY <1>2
  <2>3. 1 \notin 4 .. L - 1 /\ 2 \notin 4 .. L - 1 /\ 3 \notin 4 .. L - 1 /\ L \notin 4 .. L - 1
    BY <1>1
  <2> QED BY <1>2, <2>1, <2>2, <2>3
<1>6. Len(OfKind(f, "marker")) = 1 /\ OfKind(f, "marker")[1] = f[2]
  <2>1. 2 \in 1 .. Len(f)
    BY <1>1 DEF L
  <2>2. \A n \in 1 .. Len(f) : f[n].kind = "marker" <=> n = 2
    BY <1>4 DEF L
  <2> QED BY <2>1, <2>2, OneOfKind
<1>7. OfKind(f, "result") # <<>> /\ Last(OfKind(f, "result")) = f[L]
  <2>1. L \in 1 .. L
    BY <1>1
  <2>2. Len(OfKind(f, "result")) = 1 /\ OfKind(f, "result")[1] = f[L]
    BY <1>4, <2>1, OneOfKind DEF L
  <2> DEFINE q == OfKind(f, "result")
  <2>3. Len(q) = 1 /\ q[1] = f[L]
    BY <2>2
  <2> HIDE DEF q
  <2>4. q # <<>>
    <3>1. q = <<>> => Len(q) = 0
      OBVIOUS
    <3>2. Len(q) = 1
      BY <2>3
    <3> QED BY <3>1, <3>2
  <2>5. Last(q) = f[L]
    BY <2>3 DEF Last
  <2> QED BY <2>4, <2>5 DEF q
<1> DEFINE m == OfKind(f, "motion")
           hi == L - 1
<1>8. m = SubSeq(f, 4, hi)
  <2>1. 4 \in Nat /\ hi \in Nat /\ 1 <= 4 /\ 4 - 1 <= hi /\ hi <= Len(f)
    BY <1>1 DEF L
  <2>2. \A n \in 1 .. Len(f) : f[n].kind = "motion" <=> 4 <= n /\ n <= hi
    BY <1>5 DEF L
  <2> HIDE DEF hi
  <2> QED BY <2>1, <2>2, KindIsSpan
<1>9. \A i \in 4 .. hi : f[i] \in Line
  <2> TAKE i \in 4 .. hi
  <2>1. i \in 1 .. Len(f)
    BY <1>1 DEF L
  <2> QED BY <2>1, ElementOfSeq
<1>10. /\ m \in Seq(Line) /\ Len(m) = IF 4 <= hi THEN hi - 4 + 1 ELSE 0
       /\ \A i \in 1 .. hi - 4 + 1 : m[i] = f[4 + i - 1]
  <2>1. 4 \in Int /\ hi \in Int
    BY <1>1
  <2> HIDE DEF hi, m
  <2>2. /\ SubSeq(f, 4, hi) \in Seq(Line)
        /\ Len(SubSeq(f, 4, hi)) = IF 4 <= hi THEN hi - 4 + 1 ELSE 0
        /\ \A i \in 1 .. hi - 4 + 1 : SubSeq(f, 4, hi)[i] = f[4 + i - 1]
    BY <1>9, <2>1, SubSeqProperties
  <2> QED BY <1>8, <2>2
<1>11. Len(m) = L - 4 /\ \A i \in 1 .. L - 4 : m[i] = f[3 + i]
  <2>1. Len(m) = L - 4 /\ hi - 4 + 1 = L - 4
    BY <1>1, <1>10
  <2>2. \A i \in 1 .. L - 4 : 4 + i - 1 = 3 + i
    BY <1>1
  <2> QED BY <1>10, <2>1, <2>2
<1>12. DOMAIN m = 1 .. L - 4
  <2> HIDE DEF m
  <2> QED BY <1>10, <1>11, LenProperties
<1> HIDE DEF m
<1>13. DOMAIN m = 1 .. Len(f) - 4 /\ \A i \in DOMAIN m : m[i] = f[3 + i]
  BY <1>11, <1>12 DEF L
<1> QED BY <1>6, <1>7, <1>13 DEF L, m

(* What a suspicion needs of the capture.                                  *)
LEMMA SuspectFacts ==
    ASSUME NEW c, NEW manifest, NEW d \in EvaluatePickup(c, manifest, Unsupported),
           d.decision = "PICKUP_SUSPECTED"
    PROVE  /\ c.passed /\ c.go # None /\ ~(Len(c.samples) < 2)
           /\ \A i \in 1 .. Len(c.samples) - 1 :
                ~(c.samples[i + 1].seq # c.samples[i].seq + 1)
<1>1. StructuralReasons(c) = {}
  <2>1. CASE StructuralReasons(c) \cup LabelReasons(c, manifest, Unsupported) # {}
    <3> DEFINE R == StructuralReasons(c) \cup LabelReasons(c, manifest, Unsupported)
    <3>1. EvaluatePickup(c, manifest, Unsupported) = {Unknown(R)}
      BY <2>1 DEF EvaluatePickup
    <3> HIDE DEF R
    <3>2. d = [decision |-> "UNKNOWN", reasons |-> R]
      BY <3>1 DEF Unknown
    <3> QED BY <3>2
  <2> QED BY <2>1
<1>2. ~c.passed => "capture_not_pass" \in StructuralReasons(c)
  BY DEF StructuralReasons
<1>3. c.go = None => "missing_device_side_go_marker" \in StructuralReasons(c)
  BY DEF StructuralReasons
<1>4. Len(c.samples) < 2 => "insufficient_samples" \in StructuralReasons(c)
  BY DEF StructuralReasons
<1>5. ~(Len(c.samples) < 2) /\ (\E i \in 1 .. Len(c.samples) - 1 :
                                  c.samples[i + 1].seq # c.samples[i].seq + 1)
        => "sequence_gap_or_reordering" \in StructuralReasons(c)
  BY DEF StructuralReasons
<1> QED BY <1>1, <1>2, <1>3, <1>4, <1>5

(* The countdown covers the baseline, and the episode the search and the   *)
(* longest feature window: three seconds and ten, against one second, half *)
(* a second and a fraction (configs/research/pickup_detector_v0.json).     *)
EpisodeFits == Baseline <= PreRoll /\ SearchStart + GyroAfter - 1 <= Episode

(* A suspicion is of an armed capture that passed, whose file is complete. *)
LEMMA SuspectPassed ==
    ASSUME TypeInv, ResultInv, Evaluate, verdict' = "PICKUP_SUSPECTED"
    PROVE  exit = "PASS" /\ mode = "armed" /\ Complete(file, exit)
<1> DEFINE c == ReadCapture(file)
           s == c.samples
           m == OfKind(file, "motion")
           L == Len(file)
<1>1. file \in Seq(Line) /\ L \in Nat /\ DOMAIN file = 1 .. L
  <2>1. file \in Seq(Line)
    BY DEF TypeInv
  <2> QED BY <2>1, LenProperties
<1>2. PICK manifest \in Manifests :
        verdict' \in {d.decision : d \in EvaluatePickup(c, manifest, Unsupported)}
  BY DEF Evaluate
<1>3. PICK d \in EvaluatePickup(c, manifest, Unsupported) : d.decision = "PICKUP_SUSPECTED"
  <2> DEFINE D == EvaluatePickup(c, manifest, Unsupported)
  <2>1. verdict' \in {d.decision : d \in D}
    BY <1>2
  <2> HIDE DEF D
  <2>2. \E d \in D : d.decision = "PICKUP_SUSPECTED"
    BY <2>1
  <2> QED BY <2>2 DEF D
<1> HIDE DEF c
<1>4. /\ c.passed /\ c.go # None /\ ~(Len(s) < 2)
      /\ \A i \in 1 .. Len(s) - 1 : ~(s[i + 1].seq # s[i].seq + 1)
  BY <1>3, SuspectFacts
<1>5. /\ c.samples = [i \in DOMAIN m |-> m[i].sample]
      /\ c.passed = (OfKind(file, "result") # <<>> /\ Last(OfKind(file, "result")).status = "PASS")
      /\ c.go = IF Len(OfKind(file, "marker")) = 1 THEN OfKind(file, "marker")[1].t
                ELSE IF Len(OfKind(file, "window")) = 1 THEN OfKind(file, "window")[1].t
                ELSE None
  BY DEF c, ReadCapture
<1>6. HasLine(file, "result")
  BY <1>1, <1>4, <1>5, NoneOfKind
<1>7. HasLine(file, "marker") \/ HasLine(file, "window")
  <2> SUFFICES ASSUME ~HasLine(file, "marker"), ~HasLine(file, "window") PROVE FALSE
    OBVIOUS
  <2>1. OfKind(file, "marker") = <<>> /\ OfKind(file, "window") = <<>> /\ Len(<<>>) = 0
    BY <1>1, NoneOfKind
  <2> QED BY <1>4, <1>5, <2>1
<1>8. mode = "armed" /\ Complete(file, exit)
  BY <1>6, <1>7 DEF ResultInv
<1>9. file[L].status = "PASS"
  BY <1>1, <1>4, <1>5, <1>8, CompleteRead
<1>10. L >= 4 /\ DOMAIN m = 1 .. L - 4 /\ \A i \in 1 .. L - 4 : m[i] = file[3 + i]
  <2>1. DOMAIN m = 1 .. L - 4 /\ \A i \in DOMAIN m : m[i] = file[3 + i]
    BY <1>1, <1>8, CompleteRead
  <2>2. L >= 4
    BY <1>8 DEF Complete
  <2> QED BY <2>1, <2>2
<1> HIDE DEF m, L
<1>11. Len(s) = L - 4 /\ \A i \in 1 .. L - 4 : s[i] = file[3 + i].sample
  <2>1. s = [i \in 1 .. L - 4 |-> m[i].sample] /\ L - 4 \in Nat
    BY <1>1, <1>5, <1>10
  <2>2. \A i \in 1 .. L - 4 : s[i] = m[i].sample
    BY <2>1
  <2>3. Len(s) = L - 4
    BY <2>1
  <2> QED BY <1>10, <2>2, <2>3
<1> HIDE DEF s
<1>12. \A i \in 4 .. L - 2 : file[i + 1].sample.seq = file[i].sample.seq + 1
  <2> SUFFICES ASSUME NEW i \in 4 .. L - 2
               PROVE  file[i + 1].sample.seq = file[i].sample.seq + 1
    OBVIOUS
  <2>1. /\ i - 3 \in 1 .. (L - 4) - 1 /\ i - 3 \in 1 .. L - 4 /\ (i - 3) + 1 \in 1 .. L - 4
        /\ 3 + (i - 3) = i /\ 3 + ((i - 3) + 1) = i + 1
    BY <1>1, <1>10
  <2>2. s[(i - 3) + 1].seq = s[i - 3].seq + 1
    BY <1>4, <1>11, <2>1
  <2>3. s[i - 3] = file[i].sample /\ s[(i - 3) + 1] = file[i + 1].sample
    BY <1>11, <2>1
  <2> QED BY <2>2, <2>3
<1>13. L > 4
  BY <1>1, <1>4, <1>10, <1>11
<1>14. exit = "PASS"
  BY <1>8, <1>9, <1>12, <1>13 DEF Complete, Counted, L
<1> QED BY <1>8, <1>14

(* What the detector suspects is sound.                                    *)
LEMMA SuspectSound ==
    ASSUME EpisodeFits, TypeInv, ResultInv, PassIsOneBoot, HistoryHasNoHole, exit = "PASS",
           mode = "armed", Complete(file, exit)
    PROVE  /\ Len(Marker) = 1
           /\ \A i \in DOMAIN Kept : Kept[i].ok /\ Kept[i].boot = Marker[1].boot
           /\ \A t \in Marker[1].t - Baseline .. Marker[1].t + SearchStart + GyroAfter - 1 :
                \E i \in DOMAIN Kept : Kept[i].t = t
<1> DEFINE K == Kept
           L == Len(file)
           a == file[2].t
           m == OfKind(file, "motion")
<1>1. file \in Seq(Line) /\ L \in Nat /\ DOMAIN file = 1 .. L
  <2>1. file \in Seq(Line)
    BY DEF TypeInv
  <2> QED BY <2>1, LenProperties
<1>2. /\ L >= 4 /\ file[1].kind = "status" /\ file[2].kind = "marker"
      /\ file[3].kind = "window" /\ \A i \in 4 .. L - 1 : file[i].kind = "motion"
      /\ file[L].kind = "result"
  BY DEF Complete
<1>3. Len(Marker) = 1 /\ Marker[1] = file[2]
  BY <1>1, CompleteRead DEF Marker
<1>4. DOMAIN m = 1 .. L - 4 /\ \A i \in DOMAIN m : m[i] = file[3 + i]
  BY <1>1, CompleteRead
<1>5. K = [i \in DOMAIN m |-> m[i].sample]
  BY DEF Kept, ReadCapture
<1> HIDE DEF m, L
<1>6. DOMAIN K = 1 .. L - 4 /\ \A i \in 1 .. L - 4 : K[i] = file[3 + i].sample
  BY <1>4, <1>5
<1> HIDE DEF K
<1>7. 2 \in Markers
  BY <1>1, <1>2 DEF Markers, Lines
<1>8. \A i \in 1 .. L - 4 : 3 + i \in Motions
  <2> SUFFICES ASSUME NEW i \in 1 .. L - 4 PROVE 3 + i \in Motions
    OBVIOUS
  <2>1. 3 + i \in 4 .. L - 1 /\ 3 + i \in 1 .. L
    BY <1>1, <1>2
  <2> QED BY <1>1, <1>2, <2>1 DEF Motions, Lines
<1>9. \A k \in Motions : k \in 4 .. L - 1
  <2> SUFFICES ASSUME NEW k \in 1 .. L, file[k].kind = "motion" PROVE k \in 4 .. L - 1
    BY <1>1 DEF Motions, Lines
  <2>1. k # 1 /\ k # 2 /\ k # 3 /\ k # L
    BY <1>2
  <2> QED BY <1>1, <1>2, <2>1
<1>10. \A i \in DOMAIN K : K[i].ok /\ K[i].boot = file[2].boot
  <2> SUFFICES ASSUME NEW i \in 1 .. L - 4 PROVE K[i].ok /\ K[i].boot = file[2].boot
    BY <1>6
  <2>1. 3 + i \in Motions
    BY <1>8
  <2>2. file[3 + i].sample.ok
    BY <2>1 DEF HistoryHasNoHole
  <2>3. file[3 + i].sample.boot = file[2].boot
    BY <1>7, <2>1 DEF PassIsOneBoot
  <2> QED BY <1>6, <2>2, <2>3
<1>11. Times = a - PreRoll .. a + Episode
  BY <1>7 DEF HistoryHasNoHole
<1>12. a \in Int
  <2>1. file[2] \in Line
    <3>1. 2 \in 1 .. Len(file)
      BY <1>1, <1>2 DEF L
    <3> QED BY <1>1, <3>1, ElementOfSeq
  <2> QED BY <1>2, <2>1 DEF Line
<1>13. \A t \in a - Baseline .. a + SearchStart + GyroAfter - 1 : t \in Times
  <2>1. /\ Baseline \in Nat /\ SearchStart \in Nat /\ GyroAfter \in Nat
        /\ PreRoll \in Nat /\ Episode \in Nat
    BY PickupAssumption, CaptureAssumption
  <2> HIDE DEF a
  <2>2. a - Baseline .. a + SearchStart + GyroAfter - 1 \subseteq a - PreRoll .. a + Episode
    BY <1>12, <2>1 DEF EpisodeFits
  <2> QED BY <1>11, <2>2
<1>14. \A t \in Times : \E i \in DOMAIN K : K[i].t = t
  <2> SUFFICES ASSUME NEW k \in Motions PROVE \E i \in DOMAIN K : K[i].t = file[k].sample.t
    BY DEF Times
  <2>1. k - 3 \in 1 .. L - 4 /\ 3 + (k - 3) = k
    <3>1. k \in 4 .. L - 1
      BY <1>9
    <3> QED BY <1>1, <1>2, <3>1
  <2>2. K[k - 3] = file[3 + (k - 3)].sample
    BY <1>6, <2>1
  <2> QED BY <1>6, <2>1, <2>2
<1> QED BY <1>3, <1>10, <1>13, <1>14 DEF K, a

-----------------------------------------------------------------------------
(* A capture that nothing disturbs.                                        *)

(* The capture ends long before the sample number comes round: at a        *)
(* hundred samples a second, half of the 32-bit range is eight months.     *)
NumbersLast == 0 < MaxTime /\ 2 * MaxTime < Modulus

(* An undisturbed capture: what the Ball is as long as nothing upsets it,  *)
(* and, before the sample number has come round, the samples it has, each  *)
(* valid and numbered by its period.  A ring that has not let go of        *)
(* anything starts with the first period.                                  *)
Rounds == now \in 1 .. MaxTime /\ ball.seq \in 0 .. Modulus - 1

Calm == upsets = 0 /\ drops = 0

CalmBall ==
    /\ ball.boot = 1 /\ ball.since = 0 /\ ball.healthy /\ ball.awake
    /\ ball.errors = 0 /\ ball.generation = 0

Numbered(n) == {s \in Sample : s.seq = s.t /\ s.ok /\ s.t \in 1 .. n}

FromTheFirst(s) == s # <<>> /\ (Len(s) >= Ring \/ s[1].t = 1)

CleanBall ==
    /\ ball.ring \in Seq(Numbered(now)) /\ ball.frozen \in Seq(Numbered(now))
    /\ FromTheFirst(ball.ring) /\ ball.motion = ball.ring[Len(ball.ring)]

(* Then the host has, at each place, what it needs to go on.               *)
CleanStatus(s) ==
    /\ s.boot = 1 /\ s.errors = 0 /\ s.generation = 0
    /\ s.up \in 1 .. now /\ s.seq = s.up

MetaOf(F, id) == [id |-> id, count |-> Len(F), first |-> F[1].seq, last |-> F[Len(F)].seq]

CleanTimes ==
    /\ at = "countdown" => until > PreRoll
    /\ at = "marker" => now > PreRoll
    /\ mode = "armed" /\ at \notin {"status", "countdown", "marker"} =>
         host.marker.t \in PreRoll + 1 .. now
    /\ at = "episode" => until >= host.marker.t + Episode
    /\ at = "freeze" /\ mode = "armed" => now >= host.marker.t + Episode

CleanHistory ==
    at \in {"chunk", "select"} =>
        /\ FromTheFirst(ball.frozen)
        /\ host.meta = MetaOf(ball.frozen, ball.id)
        /\ mode = "armed" => host.marker.t + Episode <= ball.frozen[Len(ball.frozen)].t
        /\ \A j \in 1 .. Len(host.chunks) : host.chunks[j].id = ball.id
        /\ at = "chunk" => Len(host.chunks) < ChunkCount(host.meta)
        /\ at = "select" => Len(host.chunks) = ChunkCount(host.meta)

CleanSamples ==
    at \in {"write", "final"} =>
        /\ host.got \in Seq(Numbered(now)) /\ todo \in Seq(Numbered(now))
        /\ host.got # <<>> \/ todo # <<>>

CleanHost ==
    Working /\ mode # "window" =>
        /\ at # "status" => CleanStatus(host.status)
        /\ CleanTimes /\ CleanHistory /\ CleanSamples

CleanInv ==
    /\ Rounds
    /\ Calm => CalmBall
    /\ Undisturbed => CleanBall /\ CleanHost
    /\ HealthyPasses

(* The sizes.                                                              *)
LEMMA Sizes ==
    /\ Ring \in Nat \ {0} /\ Chunk \in Nat \ {0} /\ Modulus \in Nat \ {0}
    /\ PreRoll \in Nat \ {0} /\ Episode \in Nat \ {0} /\ MaxTime \in Nat
    /\ PreRoll + Episode < Ring
  BY CaptureAssumption

(* Numbers within the range.                                               *)
LEMMA SmallMod ==
    ASSUME NEW m \in Nat, NEW x \in Nat, x < m
    PROVE  x % m = x
  OBVIOUS

LEMMA NextMod ==
    ASSUME NEW m \in Nat \ {0}, NEW x \in 0 .. m - 1
    PROVE  (x + 1) % m \in 0 .. m - 1 /\ ((x + 1) % m = x + 1 \/ (x + 1) % m = 0)
  OBVIOUS

(* As many chunks as are asked for hold the whole history.                 *)
LEMMA EnoughChunks ==
    ASSUME NEW c \in Nat \ {0}, NEW C \in Nat \ {0}
    PROVE  (c + C - 1) \div C \in Nat \ {0} /\ c <= ((c + C - 1) \div C) * C
  OBVIOUS

(* The clock and the sample number.                                        *)
LEMMA ClockStep ==
    ASSUME TypeInv, [Next]_vars
    PROVE  \/ now' = now /\ ball'.seq \in {ball.seq, 0}
           \/ /\ now < MaxTime /\ now' = now + 1
              /\ ball'.seq \in {ball.seq, (ball.seq + 1) % Modulus}
<1>0. ball \in Ball
  BY DEF TypeInv
<1>1. \A ok \in BOOLEAN : Sampled(ok).seq = (ball.seq + 1) % Modulus
  BY <1>0 DEF Sampled, Ball
<1>2. Rebooted.seq = 0
  BY DEF Rebooted
<1>3. Freeze.seq = ball.seq
  BY <1>0 DEF Freeze, Ball
<1>4. Cleared(ball).seq = ball.seq /\ Cleared(ball) \in Ball
  <2> DEFINE empty == <<>>
  <2>1. empty \in Seq(Sample)
    BY NoSamples
  <2>2. Cleared(ball) = [ball EXCEPT !.ring = empty, !.frozen = empty, !.id = ball.id + 1]
    BY <1>0 DEF Cleared
  <2>3. ball.id + 1 \in Int
    BY <1>0 DEF Ball
  <2> HIDE DEF empty
  <2> QED BY <1>0, <2>1, <2>2, <2>3 DEF Ball
<1>5. CASE Tick
  <2>1. now < MaxTime /\ now' = now + 1 /\ ball' \in {ball, Sampled(TRUE)}
    BY <1>5 DEF Tick
  <2> QED BY <1>1, <2>1
<1>6. CASE SensorError
  <2>1. now < MaxTime /\ now' = now + 1 /\ ball' = Sampled(FALSE)
    BY <1>6 DEF SensorError
  <2> QED BY <1>1, <2>1
<1>7. CASE Reboot \/ OtherFreeze
  BY <1>2, <1>3, <1>7 DEF Reboot, OtherFreeze, Upset
<1>8. CASE Doze
  <2>1. now' = now /\ ball' = [ball EXCEPT !.awake = FALSE]
    BY <1>8 DEF Doze, Upset
  <2> QED BY <1>0, <2>1 DEF Ball
<1>9. CASE Wake \/ Recover \/ Fail
  <2> DEFINE b == Cleared(ball)
  <2>1. /\ now' = now
        /\ \/ ball' = [b EXCEPT !.awake = TRUE]
           \/ ball' = [b EXCEPT !.healthy = TRUE]
           \/ ball' = [b EXCEPT !.healthy = FALSE, !.generation = @ + 1]
    BY <1>9 DEF Wake, Recover, Fail, Upset, Restarted, world
  <2> HIDE DEF b
  <2>2. b \in Ball /\ b.seq = ball.seq
    BY <1>4 DEF b
  <2>3. ball'.seq = b.seq
    BY <2>1, <2>2 DEF Ball
  <2> QED BY <2>1, <2>2, <2>3
<1>10. CASE NoAnswer
  BY <1>3, <1>10 DEF NoAnswer, Served
<1>11. CASE GetStatus \/ GetMarker \/ FreezeHistory \/ GetChunk \/ GetWindow \/ GetFinal
  BY <1>3, <1>11 DEF GetStatus, GetMarker, FreezeHistory, GetChunk, GetWindow, GetFinal,
                     Answered, Served, world
<1>12. CASE Countdown \/ Acknowledge \/ EpisodeOver \/ SelectWindow \/ WriteSample \/ Written
            \/ Kill \/ Evaluate \/ UNCHANGED vars
  BY <1>12 DEF Countdown, Acknowledge, EpisodeOver, SelectWindow, WriteSample, Written, Kill,
               Evaluate, vars, world
<1> QED BY <1>5, <1>6, <1>7, <1>8, <1>9, <1>10, <1>11, <1>12 DEF Next

(* Time and numbers stay in their ranges.                                  *)
LEMMA RoundsStep ==
    ASSUME NumbersLast, TypeInv, Rounds, [Next]_vars
    PROVE  Rounds'
<1> DEFINE x == ball.seq
           y == ball'.seq
<1>1. x \in 0 .. Modulus - 1 /\ now \in 1 .. MaxTime
  BY DEF Rounds
<1>2. \/ now' = now /\ y \in {x, 0}
      \/ now < MaxTime /\ now' = now + 1 /\ y \in {x, (x + 1) % Modulus}
  BY ClockStep
<1> HIDE DEF x, y
<1>3. (x + 1) % Modulus \in 0 .. Modulus - 1 /\ 0 \in 0 .. Modulus - 1
  <2>1. (x + 1) % Modulus \in 0 .. Modulus - 1
    BY <1>1, Sizes, NextMod
  <2> QED BY <2>1, Sizes
<1>4. y \in 0 .. Modulus - 1
  BY <1>1, <1>2, <1>3
<1>5. now' \in 1 .. MaxTime
  BY <1>1, <1>2, Sizes
<1> QED BY <1>4, <1>5 DEF Rounds, y

(* What can happen while nothing upsets the Ball and every request is      *)
(* answered.                                                               *)
HostSteps ==
    \/ GetStatus \/ Countdown \/ GetMarker \/ Acknowledge \/ EpisodeOver \/ GetChunk
    \/ SelectWindow \/ GetWindow \/ WriteSample \/ Written \/ GetFinal \/ Kill
    \/ Evaluate \/ UNCHANGED vars

LEMMA CalmSteps ==
    ASSUME TypeInv, Calm => CalmBall, [Next]_vars, Calm'
    PROVE  /\ Calm /\ CalmBall
           /\ \/ Tick /\ now' = now + 1 /\ ball' = Sampled(TRUE)
              \/ FreezeHistory /\ now' = now /\ ball' = Freeze
              \/ HostSteps /\ UNCHANGED <<now, ball>>
<1>0. upsets \in Nat /\ drops \in Nat
  BY DEF TypeInv
<1>1. upsets + 1 # 0 /\ drops + 1 # 0
  BY <1>0
<1>2. ~NoAnswer
  BY <1>1 DEF NoAnswer, Calm
<1>3. ~SensorError /\ ~Reboot /\ ~OtherFreeze /\ ~Doze /\ ~Fail
  BY <1>1 DEF SensorError, Reboot, OtherFreeze, Doze, Fail, Upset, Calm
<1>4. UNCHANGED <<upsets, drops>>
  BY <1>2, <1>3 DEF Next, Tick, Wake, Recover, HostWaits, GetStatus, Countdown, GetMarker,
     Acknowledge, EpisodeOver, FreezeHistory, GetChunk, SelectWindow, GetWindow, WriteSample,
     Written, GetFinal, Kill, Evaluate, Answered, world, vars
<1>5. Calm /\ CalmBall
  BY <1>4 DEF Calm
<1>6. ~Wake /\ ~Recover
  BY <1>5 DEF Wake, Recover, CalmBall
<1>7. Tick => now' = now + 1 /\ ball' = Sampled(TRUE)
  BY <1>5 DEF Tick, Sampling, CalmBall
<1>8. FreezeHistory => now' = now /\ ball' = Freeze
  BY DEF FreezeHistory, Answered, Served, world
<1>9. HostSteps => UNCHANGED <<now, ball>>
  BY DEF HostSteps, GetStatus, Countdown, GetMarker, Acknowledge, EpisodeOver, GetChunk,
     SelectWindow, GetWindow, WriteSample, Written, GetFinal, Kill, Evaluate, Answered, Served,
     world, vars
<1>10. Tick \/ FreezeHistory \/ HostSteps
  BY <1>2, <1>3, <1>6 DEF Next, HostSteps
<1> QED BY <1>5, <1>7, <1>8, <1>9, <1>10

(* Numbered samples stay numbered as time goes on.                         *)
LEMMA NumberedGrows ==
    ASSUME NEW n \in Int, NEW m \in Int, n <= m, NEW s \in Seq(Numbered(n))
    PROVE  s \in Seq(Numbered(m))
<1>1. \A x \in Numbered(n) : x \in Numbered(m)
  <2> SUFFICES ASSUME NEW t \in 1 .. n PROVE t \in 1 .. m
    BY DEF Numbered
  <2> QED OBVIOUS
<1>2. Len(s) \in Nat /\ \A i \in 1 .. Len(s) : s[i] \in Numbered(n)
  BY LenProperties, ElementOfSeq
<1> DEFINE N == Numbered(m)
<1>3. \A i \in 1 .. Len(s) : s[i] \in N
  BY <1>1, <1>2
<1> HIDE DEF N
<1>4. s = [i \in 1 .. Len(s) |-> s[i]]
  BY LenProperties
<1>5. s \in [1 .. Len(s) -> N]
  BY <1>3, <1>4
<1>6. s \in Seq(N)
  BY <1>2, <1>5
<1> QED BY <1>6 DEF N

(* Without a disturbance the Ball is calm and its samples are clean.       *)
LEMMA CleanBallStep ==
    ASSUME NumbersLast, TypeInv, BallInv, Rounds, Calm => CalmBall, [Next]_vars,
           Undisturbed => CleanBall
    PROVE  /\ Calm' => CalmBall'
           /\ Undisturbed' => Undisturbed /\ CleanBall'
<1>0. ball \in Ball /\ now \in Int /\ now >= 1 /\ now \in 1 .. MaxTime
  <2>1. ball \in Ball /\ now \in 1 .. MaxTime
    BY DEF TypeInv, Rounds
  <2>2. MaxTime \in Nat
    BY Sizes
  <2>3. now \in Int /\ now >= 1
    BY <2>1, <2>2
  <2> QED BY <2>1, <2>3
<1> SUFFICES ASSUME Calm'
             PROVE  CalmBall' /\ (Undisturbed' => Undisturbed /\ CleanBall')
  BY DEF Undisturbed, Calm
<1>1. Calm /\ CalmBall
  BY CalmSteps
<1>2. CASE HostSteps /\ UNCHANGED <<now, ball>>
  <2>1. CalmBall'
    BY <1>1, <1>2 DEF CalmBall
  <2>2. Undisturbed' => Undisturbed
    BY <1>1, <1>2 DEF Undisturbed, Calm
  <2>3. CleanBall => CleanBall'
    BY <1>2 DEF CleanBall
  <2> QED BY <2>1, <2>2, <2>3
<1>3. CASE FreezeHistory /\ now' = now /\ ball' = Freeze
  <2>1. /\ ball'.boot = ball.boot /\ ball'.ring = ball.ring /\ ball'.seq = ball.seq
        /\ ball'.frozen = ball.ring /\ ball'.motion = ball.motion
        /\ ball'.since = ball.since /\ ball'.awake = ball.awake /\ ball'.healthy = ball.healthy
        /\ ball'.errors = ball.errors /\ ball'.generation = ball.generation
    BY <1>0, <1>3 DEF Freeze, Ball
  <2>2. CalmBall'
    BY <1>1, <2>1 DEF CalmBall
  <2>3. Undisturbed' => Undisturbed
    BY <1>1, <1>3, <2>1 DEF Undisturbed, Calm
  <2>4. CleanBall => CleanBall'
    BY <1>3, <2>1 DEF CleanBall
  <2> QED BY <2>2, <2>3, <2>4
<1>4. CASE Tick /\ now' = now + 1 /\ ball' = Sampled(TRUE)
  <2> DEFINE seq == (ball.seq + 1) % Modulus
             s == [boot |-> ball.boot, seq |-> seq, t |-> now + 1 - ball.since, ok |-> TRUE]
             r == Append(ball.ring, s)
             longer == IF Len(r) > Ring THEN Tail(r) ELSE r
  <2>1. /\ ball'.boot = ball.boot /\ ball'.ring = longer /\ ball'.seq = seq
        /\ ball'.frozen = ball.frozen /\ ball'.motion = s
        /\ ball'.since = ball.since /\ ball'.awake = ball.awake /\ ball'.healthy = ball.healthy
        /\ ball'.errors = ball.errors /\ ball'.generation = ball.generation
    <3>1. ball' = [ball EXCEPT !.seq = s.seq, !.motion = s,
                               !.errors = @ + (IF TRUE THEN 0 ELSE 1), !.ring = longer]
      BY <1>4 DEF Sampled
    <3>2. s.seq = seq
      OBVIOUS
    <3> HIDE DEF s, longer, seq
    <3>3. ball.errors \in Int
      BY <1>0 DEF Ball
    <3>4. ball'.errors = ball.errors + 0
      BY <1>0, <3>1 DEF Ball
    <3> QED BY <1>0, <3>1, <3>2, <3>3, <3>4 DEF Ball
  <2>2. CalmBall'
    BY <1>1, <2>1 DEF CalmBall
  <2> SUFFICES ASSUME Undisturbed' PROVE Undisturbed /\ CleanBall'
    BY <2>2
  <2>3. seq = now + 1
    BY <1>4, <2>1 DEF Undisturbed
  <2>4. ball.seq = now
    <3>1. ball.seq \in 0 .. Modulus - 1
      BY DEF Rounds
    <3>2. seq = ball.seq + 1 \/ seq = 0
      BY <3>1, Sizes, NextMod
    <3> HIDE DEF seq
    <3> QED BY <1>0, <2>3, <3>1, <3>2, Sizes
  <2>5. Undisturbed /\ CleanBall
    BY <1>1, <2>4 DEF Undisturbed, Calm
  <2>6. s = [boot |-> 1, seq |-> now + 1, t |-> now + 1, ok |-> TRUE]
    <3>1. ball.boot = 1 /\ now + 1 - ball.since = now + 1
      BY <1>0, <1>1 DEF CalmBall
    <3> QED BY <2>3, <3>1
  <2>7. s \in Numbered(now + 1)
    <3>1. now + 1 \in Int /\ now + 1 \in 1 .. now + 1
      BY <1>0
    <3> HIDE DEF s
    <3> QED BY <2>6, <3>1 DEF Numbered, Sample
  <2> HIDE DEF seq, s
  <2> DEFINE N == Numbered(now + 1)
  <2>8. ball.ring \in Seq(N) /\ ball.frozen \in Seq(N)
    BY <1>0, <2>5, NumberedGrows DEF CleanBall
  <2>9. s \in N
    BY <2>7
  <2> HIDE DEF N
  <2>10. /\ r \in Seq(N) /\ Len(ball.ring) \in Nat /\ Len(r) = Len(ball.ring) + 1
         /\ r[Len(ball.ring) + 1] = s /\ \A i \in 1 .. Len(ball.ring) : r[i] = ball.ring[i]
    BY <2>8, <2>9, AppendProperties, LenProperties
  <2>11. ball.ring # <<>> /\ (Len(ball.ring) >= Ring \/ ball.ring[1].t = 1)
    BY <2>5 DEF CleanBall, FromTheFirst
  <2>12. Len(ball.ring) > 0
    BY <2>8, <2>10, <2>11, EmptySeq
  <2> HIDE DEF r
  <2>13. CASE Len(r) > Ring
    <3> DEFINE q == Tail(r)
    <3>1. r # <<>>
      <4>1. r = <<>> => Len(r) = 0
        OBVIOUS
      <4> QED BY <2>10, <2>12, <4>1
    <3>2. /\ q \in Seq(N) /\ Len(q) = Len(r) - 1
          /\ \A i \in 1 .. Len(q) : q[i] = r[i + 1]
      BY <2>10, <3>1, HeadTailProperties
    <3> HIDE DEF q
    <3>3. /\ Len(q) >= Ring /\ Len(q) \in 1 .. Len(q) /\ Len(q) + 1 = Len(ball.ring) + 1
      BY <2>10, <2>12, <2>13, <3>2, Sizes
    <3>4. q[Len(q)] = s
      BY <2>10, <3>2, <3>3
    <3>5. q # <<>>
      <4>1. q = <<>> => Len(q) = 0
        OBVIOUS
      <4> QED BY <3>3, <4>1, Sizes
    <3>6. ball'.ring = q
      BY <2>1, <2>13 DEF q
    <3> QED BY <1>4, <2>1, <2>5, <2>8, <3>2, <3>3, <3>4, <3>5, <3>6
            DEF CleanBall, FromTheFirst, N
  <2>14. CASE ~(Len(r) > Ring)
    <3>1. ball'.ring = r
      BY <2>1, <2>14
    <3>2. 1 \in 1 .. Len(ball.ring)
      BY <2>10, <2>12
    <3>3. r[1] = ball.ring[1]
      BY <2>10, <3>2
    <3>4. Len(ball.ring) >= Ring => Len(r) >= Ring
      BY <2>10, Sizes
    <3>5. r # <<>>
      <4>1. r = <<>> => Len(r) = 0
        OBVIOUS
      <4> QED BY <2>10, <2>12, <4>1
    <3>6. r[Len(r)] = s
      BY <2>10
    <3> QED BY <1>4, <2>1, <2>5, <2>8, <2>10, <2>11, <3>1, <3>3, <3>4, <3>5, <3>6
            DEF CleanBall, FromTheFirst, N
  <2> QED BY <2>5, <2>13, <2>14
<1> QED BY <1>2, <1>3, <1>4, CalmSteps

(* An undisturbed capture at work, and what that says at once.             *)
Clean ==
    /\ Working /\ mode # "window" /\ ball.seq = now
    /\ Rounds /\ CalmBall /\ CleanBall /\ CleanHost

LEMMA CleanFacts ==
    ASSUME TypeInv, HostInv, Clean
    PROVE  /\ now \in Int /\ now >= 1 /\ now <= MaxTime /\ mode \in {"armed", "frozen"}
           /\ at # "status" => CleanStatus(host.status) /\ SameBoot
           /\ CleanTimes /\ CleanHistory /\ CleanSamples
           /\ host.marker.t \in Int
<1>1. now \in 1 .. MaxTime /\ MaxTime \in Nat
  BY Sizes DEF Clean, Rounds
<1>2. now \in Int /\ now >= 1 /\ now <= MaxTime
  BY <1>1
<1>3. mode \in {"armed", "frozen"}
  BY CaptureAssumption DEF TypeInv, Clean
<1>4. /\ at # "status" => CleanStatus(host.status)
      /\ CleanTimes /\ CleanHistory /\ CleanSamples
  BY DEF Clean, CleanHost
<1>5. CleanStatus(host.status) => SameBoot
  BY DEF CleanStatus, SameBoot, Clean, CalmBall
<1>6. host.marker.t \in Int
  BY HostFields DEF Sample
<1> QED BY <1>2, <1>3, <1>4, <1>5, <1>6

(* Time passes, and the host waits.                                        *)
LEMMA CleanTick ==
    ASSUME TypeInv, HostInv, Clean, Tick, now' = now + 1, ball' = Sampled(TRUE)
    PROVE  CleanHost' /\ Working'
<1>1. /\ now \in Int /\ now >= 1
      /\ at # "status" => CleanStatus(host.status)
      /\ CleanTimes /\ CleanHistory /\ CleanSamples /\ host.marker.t \in Int
      /\ mode # "window"
  BY CleanFacts DEF Clean
<1>2. UNCHANGED <<mode, at, until, host, todo, exit>>
  BY DEF Tick, HostWaits, options
<1>3. ball'.frozen = ball.frozen /\ ball'.id = ball.id
  <2>1. ball \in Ball
    BY DEF TypeInv
  <2> QED BY <2>1 DEF Sampled, Ball
<1>4. at # "status" => CleanStatus(host.status)'
  <2> HAVE at # "status"
  <2>1. CleanStatus(host.status)
    BY <1>1
  <2>2. host.status.up \in 1 .. now' /\ host'.status = host.status
    BY <1>1, <1>2, <2>1 DEF CleanStatus
  <2> QED BY <2>1, <2>2 DEF CleanStatus
<1>5. CleanTimes'
  <2> DEFINE t == host.marker.t
             p == PreRoll
             e == Episode
  <2>0. p \in Int /\ e \in Int /\ t \in Int
    BY <1>1, Durations
  <2>1. at = "marker" => now' > p
    <3>1. at = "marker" => now > p
      BY <1>1 DEF CleanTimes
    <3> HIDE DEF p
    <3> QED BY <1>1, <2>0, <3>1
  <2>2. mode = "armed" /\ at \notin {"status", "countdown", "marker"} => t \in p + 1 .. now'
    <3>1. mode = "armed" /\ at \notin {"status", "countdown", "marker"} => t \in p + 1 .. now
      BY <1>1 DEF CleanTimes
    <3> HIDE DEF p, t
    <3> QED BY <1>1, <2>0, <3>1
  <2>3. at = "freeze" /\ mode = "armed" => now' >= t + e
    <3>1. at = "freeze" /\ mode = "armed" => now >= t + e
      BY <1>1 DEF CleanTimes
    <3> HIDE DEF e, t
    <3> QED BY <1>1, <2>0, <3>1
  <2>4. /\ at = "countdown" => until > p
        /\ at = "episode" => until >= t + e
    BY <1>1 DEF CleanTimes
  <2> QED BY <1>2, <2>1, <2>2, <2>3, <2>4 DEF CleanTimes
<1>6. CleanHistory'
  BY <1>1, <1>2, <1>3 DEF CleanHistory
<1>7. CleanSamples'
  <2> SUFFICES ASSUME at \in {"write", "final"}
               PROVE  /\ host.got \in Seq(Numbered(now')) /\ todo \in Seq(Numbered(now'))
                      /\ host.got # <<>> \/ todo # <<>>
    BY <1>2 DEF CleanSamples
  <2>1. /\ host.got \in Seq(Numbered(now)) /\ todo \in Seq(Numbered(now))
        /\ host.got # <<>> \/ todo # <<>>
    BY <1>1 DEF CleanSamples
  <2>2. now' \in Int /\ now <= now'
    BY <1>1
  <2> QED BY <1>1, <2>1, <2>2, NumberedGrows
<1> QED BY <1>2, <1>4, <1>5, <1>6, <1>7 DEF CleanHost, Working, Clean

(* The first status: the Ball is healthy.                                  *)
LEMMA CleanGetStatus ==
    ASSUME TypeInv, HostInv, Clean, GetStatus, UNCHANGED <<now, ball>>
    PROVE  CleanHost' /\ Working'
<1>1. now \in Int /\ now >= 1 /\ mode \in {"armed", "frozen"}
  BY CleanFacts
<1>2. Status = [boot |-> 1, seq |-> now, up |-> now, errors |-> 0, generation |-> 0,
                healthy |-> TRUE]
  <2>1. /\ ball.boot = 1 /\ ball.seq = now /\ ball.errors = 0 /\ ball.generation = 0
        /\ ball.healthy \in BOOLEAN /\ ball.healthy /\ ball.since = 0
    BY DEF Clean, CalmBall, TypeInv, Ball
  <2>2. now - ball.since = now /\ ball.healthy = TRUE
    BY <1>1, <2>1
  <2> QED BY <2>1, <2>2 DEF Status
<1>3. Status.healthy
  BY <1>2
<1>4. /\ host' = [host EXCEPT !.status = Status] /\ exit' = exit /\ mode' = mode
      /\ at' = (IF mode = "armed" THEN "countdown" ELSE "freeze")
      /\ until' = now + PreRoll
  BY <1>1, <1>3 DEF GetStatus, Answered, options
<1>5. host'.status = Status
  BY <1>4 DEF TypeInv, Host
<1>6. CleanStatus(host.status)'
  <2>1. now \in 1 .. now
    BY <1>1
  <2> QED BY <1>2, <1>5, <2>1 DEF CleanStatus
<1>7. CleanTimes'
  <2>1. now + PreRoll > PreRoll
    BY <1>1, Durations
  <2>2. at' = "countdown" => until' > PreRoll
    BY <1>4, <2>1
  <2>3. at' \in {"countdown", "freeze"} /\ (at' = "freeze" => mode' # "armed")
    BY <1>4
  <2> QED BY <2>2, <2>3 DEF CleanTimes
<1>8. CleanHistory' /\ CleanSamples'
  BY <1>4 DEF CleanHistory, CleanSamples
<1> QED BY <1>4, <1>6, <1>7, <1>8 DEF CleanHost, Working, Clean

(* The sleeps, and the marker between them.                                *)
LEMMA CleanSleeps ==
    ASSUME TypeInv, HostInv, Clean, UNCHANGED <<now, ball>>,
           Countdown \/ EpisodeOver
    PROVE  CleanHost' /\ Working'
<1>1. /\ now \in Int /\ mode \in {"armed", "frozen"} /\ host.marker.t \in Int
      /\ at # "status" => CleanStatus(host.status)
      /\ CleanTimes /\ until \in Int
  BY CleanFacts DEF TypeInv
<1>2. /\ UNCHANGED <<mode, until, host, exit>> /\ now >= until
      /\ \/ at = "countdown" /\ at' = "marker"
         \/ at = "episode" /\ at' = "freeze"
  BY DEF Countdown, EpisodeOver, options
<1>3. CleanStatus(host.status)'
  BY <1>1, <1>2 DEF CleanStatus
<1>4. CleanTimes'
  <2> DEFINE p == PreRoll
             b == host.marker.t + Episode
  <2>1. p \in Int /\ b \in Int
    BY <1>1, Durations
  <2>2. at = "countdown" => now > p
    <3>1. at = "countdown" => until > p
      BY <1>1 DEF CleanTimes
    <3> HIDE DEF p
    <3> QED BY <1>1, <1>2, <2>1, <3>1
  <2>3. at = "episode" => now >= b
    <3>1. at = "episode" => until >= b
      BY <1>1 DEF CleanTimes
    <3> HIDE DEF b
    <3> QED BY <1>1, <1>2, <2>1, <3>1
  <2>4. at = "episode" /\ mode = "armed" => host.marker.t \in PreRoll + 1 .. now
    BY <1>1 DEF CleanTimes
  <2> HIDE DEF b, p
  <2>5. CASE at = "countdown"
    BY <1>2, <2>2, <2>5 DEF CleanTimes, p
  <2>6. CASE at = "episode"
    BY <1>2, <2>3, <2>4, <2>6 DEF CleanTimes, b
  <2> QED BY <1>2, <2>5, <2>6
<1>5. CleanHistory' /\ CleanSamples'
  BY <1>2 DEF CleanHistory, CleanSamples
<1> QED BY <1>2, <1>3, <1>4, <1>5 DEF CleanHost, Working, Clean

(* The marker is the sample of the running period.                         *)
LEMMA CleanMarker ==
    ASSUME TypeInv, BallInv, HostInv, Clean, GetMarker, UNCHANGED <<now, ball>>
    PROVE  CleanHost' /\ Working'
<1>1. /\ now \in Int /\ now >= 1 /\ now <= MaxTime /\ mode \in {"armed", "frozen"}
      /\ at # "status" => CleanStatus(host.status)
      /\ CleanTimes
  BY CleanFacts
<1>2. at = "marker" /\ mode' = mode
  BY DEF GetMarker, Answered, options
<1>3. ball.motion.t = now
  <2>1. ball.ring # <<>> /\ ball.motion = ball.ring[Len(ball.ring)] /\ Sampling
        /\ ball.since = 0
    BY DEF Clean, CleanBall, FromTheFirst, Sampling, CalmBall
  <2>2. ball.motion.t = now - ball.since
    BY <2>1 DEF BallInv
  <2> QED BY <1>1, <2>1, <2>2
<1>4. ball.motion # NoSample
  <2>1. NoSample.t = 0
    BY DEF NoSample
  <2> QED BY <1>1, <1>3, <2>1
<1>5. /\ host' = [host EXCEPT !.marker = ball.motion] /\ at' = "acknowledge"
      /\ UNCHANGED <<until, exit>>
  BY <1>4 DEF GetMarker
<1>6. host'.marker = ball.motion /\ host'.status = host.status
  BY <1>5 DEF TypeInv, Host
<1>7. CleanStatus(host.status)'
  BY <1>1, <1>2, <1>6 DEF CleanStatus
<1>8. CleanTimes'
  <2>1. now \in PreRoll + 1 .. now
    <3>1. now > PreRoll
      BY <1>1, <1>2 DEF CleanTimes
    <3> QED BY <1>1, <3>1, Durations
  <2>2. host'.marker.t \in PreRoll + 1 .. now'
    BY <1>3, <1>6, <2>1
  <2> QED BY <1>5, <2>2 DEF CleanTimes
<1>9. CleanHistory' /\ CleanSamples'
  BY <1>5 DEF CleanHistory, CleanSamples
<1> QED BY <1>5, <1>7, <1>8, <1>9 DEF CleanHost, Working, Clean

(* The controller answers GO; otherwise the capture ends there.            *)
LEMMA CleanAcknowledge ==
    ASSUME TypeInv, HostInv, Clean, Acknowledge, UNCHANGED <<now, ball>>, ~Stop(at)
    PROVE  CleanHost' /\ Working'
<1>1. /\ now \in Int /\ host.marker.t \in Int /\ mode \in {"armed", "frozen"}
      /\ at # "status" => CleanStatus(host.status) /\ CleanTimes
      /\ CleanTimes
  BY CleanFacts
<1>2. /\ at = "acknowledge" /\ at' = "episode" /\ until' = now + Episode
      /\ UNCHANGED <<mode, host, exit>>
  BY DEF Acknowledge, options
<1>3. mode = "armed"
  BY <1>2 DEF HostInv, PlaceInv, Clean
<1>4. CleanStatus(host.status)'
  BY <1>1, <1>2 DEF CleanStatus
<1>5. host.marker.t \in PreRoll + 1 .. now
  BY <1>1, <1>2, <1>3 DEF CleanTimes
<1>6. now + Episode >= host.marker.t + Episode
  BY <1>1, <1>5, Durations
<1>7. CleanTimes'
  BY <1>2, <1>5, <1>6 DEF CleanTimes
<1>8. CleanHistory' /\ CleanSamples'
  BY <1>2 DEF CleanHistory, CleanSamples
<1> QED BY <1>2, <1>4, <1>7, <1>8 DEF CleanHost, Working, Clean

(* In a steady history that is numbered by its periods the numbers are     *)
(* consecutive.                                                            *)
LEMMA NumbersRun ==
    ASSUME NEW n \in Int, NEW F \in Seq(Numbered(n)), Steady(F)
    PROVE  /\ F \in Seq(Sample) /\ Len(F) \in Nat
           /\ \A i \in 1 .. Len(F) : F[i] \in Sample /\ F[i].seq = F[i].t /\ F[i].ok
                                     /\ F[i].t \in 1 .. n
           /\ Contiguous(F)
           /\ F # <<>> => F[Len(F)].seq = F[1].seq + Len(F) - 1
<1>1. Len(F) \in Nat /\ DOMAIN F = 1 .. Len(F) /\ \A i \in 1 .. Len(F) : F[i] \in Numbered(n)
  BY LenProperties, ElementOfSeq
<1>2. \A i \in 1 .. Len(F) : /\ F[i] \in Sample /\ F[i].seq = F[i].t /\ F[i].ok
                             /\ F[i].t \in 1 .. n
  BY <1>1 DEF Numbered
<1>3. F \in Seq(Sample)
  <2>1. F = [i \in 1 .. Len(F) |-> F[i]]
    BY LenProperties
  <2>2. F \in [1 .. Len(F) -> Sample]
    BY <1>2, <2>1
  <2> QED BY <1>1, <2>2
<1>4. Contiguous(F)
  <2> SUFFICES ASSUME NEW i \in 1 .. Len(F) - 1 PROVE F[i + 1].seq = F[i].seq + 1
    BY DEF Contiguous
  <2>1. i \in 1 .. Len(F) /\ i + 1 \in 1 .. Len(F)
    BY <1>1
  <2>2. F[i + 1].t = F[i].t + 1
    BY DEF Steady
  <2> QED BY <1>2, <2>1, <2>2
<1>5. F # <<>> => F[Len(F)].seq = F[1].seq + Len(F) - 1
  <2> HAVE F # <<>>
  <2>1. 1 \in 1 .. Len(F) /\ Len(F) \in 1 .. Len(F)
    BY <1>1, EmptySeq
  <2>2. F[Len(F)].t = F[1].t + Len(F) - 1
    BY <1>3, <2>1, SteadyTimes
  <2> QED BY <1>2, <2>1, <2>2
<1> QED BY <1>1, <1>2, <1>3, <1>4, <1>5

(* The history is frozen: what is announced is the ring, and there are     *)
(* chunks to come.                                                         *)
LEMMA CleanFreeze ==
    ASSUME TypeInv, BallInv, HostInv, Clean, FreezeHistory, now' = now, ball' = Freeze
    PROVE  CleanHost' /\ Working'
<1> DEFINE F == ball.ring
<1>1. /\ now \in Int /\ mode \in {"armed", "frozen"} /\ host.marker.t \in Int
      /\ at # "status" => CleanStatus(host.status)
      /\ CleanTimes
  BY CleanFacts
<1>2. /\ at = "freeze" /\ mode' = mode /\ Working
  BY DEF FreezeHistory, Answered, options
<1>3. host.chunks = <<>>
  BY <1>2 DEF HostInv, PlaceInv
<1>4. F \in Seq(Numbered(now)) /\ FromTheFirst(F) /\ Steady(F) /\ F # <<>>
  BY DEF Clean, CleanBall, FromTheFirst, BallInv
<1>5. F[Len(F)].t = now
  <2>1. Sampling /\ ball.since = 0
    BY DEF Clean, CalmBall, Sampling
  <2>2. F[Len(F)].t = now - ball.since
    BY <1>4, <2>1 DEF BallInv
  <2> QED BY <1>1, <2>1, <2>2
<1>6. ball'.frozen = F /\ ball'.id = ball.id + 1 /\ ball.id \in Int /\ Len(F) \in Nat \ {0}
  <2>1. ball \in Ball
    BY DEF TypeInv
  <2>2. ball.id \in Int /\ ball'.frozen = F /\ ball'.id = ball.id + 1
    BY <2>1 DEF Freeze, Ball
  <2>3. Len(F) \in Nat \ {0}
    BY <1>4, LenProperties, EmptySeq
  <2> QED BY <2>2, <2>3
<1>7. Meta = MetaOf(F, ball.id + 1) /\ Meta.count = Len(F) /\ Meta.first = F[1].seq
      /\ Meta.last = F[Len(F)].seq
  <2>1. Head(F) = F[1] /\ Last(F) = F[Len(F)]
    BY <1>4, HeadTailProperties DEF Last
  <2> HIDE DEF F
  <2> QED BY <1>4, <2>1 DEF Meta, MetaOf, F
<1> HIDE DEF F
<1>8. MetaValid(Meta)
  <2>1. F[Len(F)].seq = F[1].seq + Len(F) - 1
    BY <1>1, <1>4, NumbersRun
  <2>2. F[1].seq \in Int
    <3>1. 1 \in 1 .. Len(F)
      BY <1>6
    <3>2. F[1] \in Sample
      BY <1>1, <1>4, <3>1, NumbersRun
    <3> QED BY <3>2 DEF Sample
  <2>3. Meta.last = Meta.first + Meta.count - 1 /\ Meta.count # 0
    BY <1>6, <1>7, <2>1, <2>2
  <2> QED BY <2>3 DEF MetaValid
<1>9. ChunkCount(Meta) # 0 /\ 0 < ChunkCount(Meta)
  <2>1. (Len(F) + Chunk - 1) \div Chunk \in Nat \ {0}
    BY <1>6, Sizes, EnoughChunks
  <2>2. ChunkCount(Meta) = (Len(F) + Chunk - 1) \div Chunk
    BY <1>7 DEF ChunkCount
  <2> QED BY <2>1, <2>2
<1>10. host' = [host EXCEPT !.meta = Meta] /\ at' = "chunk" /\ UNCHANGED <<until, todo, exit>>
  BY <1>8, <1>9 DEF FreezeHistory
<1>11. /\ host'.status = host.status /\ host'.meta = Meta /\ host'.chunks = <<>>
       /\ host'.marker = host.marker
  BY <1>3, <1>10 DEF TypeInv, Host
<1>12. CleanStatus(host.status)'
  BY <1>1, <1>2, <1>11 DEF CleanStatus
<1>13. CleanTimes'
  <2>1. mode = "armed" => host.marker.t \in PreRoll + 1 .. now
    BY <1>1, <1>2 DEF CleanTimes
  <2> QED BY <1>2, <1>10, <1>11, <2>1 DEF CleanTimes
<1>14. CleanHistory'
  <2>1. mode = "armed" => host.marker.t + Episode <= now
    <3>1. mode = "armed" => now >= host.marker.t + Episode
      BY <1>1, <1>2 DEF CleanTimes
    <3> QED BY <1>1, <3>1, Durations
  <2>2. Len(host'.chunks) = 0
    BY <1>11
  <2>3. \A j \in 1 .. Len(host'.chunks) : host'.chunks[j].id = ball'.id
    BY <2>2
  <2>4. Len(host'.chunks) < ChunkCount(host'.meta)
    BY <1>9, <1>11, <2>2
  <2>5. FromTheFirst(ball'.frozen) /\ host'.meta = MetaOf(ball'.frozen, ball'.id)
    BY <1>4, <1>6, <1>7, <1>11
  <2>6. mode = "armed" => host'.marker.t + Episode <= ball'.frozen[Len(ball'.frozen)].t
    BY <1>5, <1>6, <1>11, <2>1
  <2> QED BY <1>2, <1>10, <2>3, <2>4, <2>5, <2>6 DEF CleanHistory
<1>15. CleanSamples'
  BY <1>10 DEF CleanSamples
<1> QED BY <1>2, <1>10, <1>12, <1>13, <1>14, <1>15 DEF CleanHost, Working

(* A chunk arrives, with the history's id.                                 *)
LEMMA CleanGetChunk ==
    ASSUME TypeInv, HostInv, Clean, GetChunk, UNCHANGED <<now, ball>>
    PROVE  CleanHost' /\ Working'
<1> DEFINE n == Len(host.chunks)
           c == ChunkCount(host.meta)
<1>1. /\ now \in Int /\ mode \in {"armed", "frozen"}
      /\ at # "status" => CleanStatus(host.status)
      /\ CleanTimes /\ CleanHistory
  BY CleanFacts
<1>2. /\ at = "chunk" /\ mode' = mode /\ exit' = exit
      /\ host' = [host EXCEPT !.chunks = Append(@, ChunkAt(n))]
      /\ at' = (IF n + 1 < c THEN "chunk" ELSE "select")
  BY DEF GetChunk, Answered, options
<1>3. host.chunks \in Seq(ChunkRecord) /\ n \in Nat
  BY HostFields, LenProperties
<1>4. ChunkAt(n) \in ChunkRecord /\ ChunkAt(n).id = ball.id
  BY <1>3, ChunkType
<1>5. /\ host'.status = host.status /\ host'.meta = host.meta /\ host'.marker = host.marker
      /\ host'.chunks = Append(host.chunks, ChunkAt(n))
  BY <1>2 DEF TypeInv, Host
<1>6. /\ Len(host'.chunks) = n + 1 /\ host'.chunks[n + 1] = ChunkAt(n)
      /\ \A j \in 1 .. n : host'.chunks[j] = host.chunks[j]
  BY <1>3, <1>4, <1>5, AppendProperties
<1>7. n < c /\ c \in Int
  <2>1. n < c
    BY <1>1, <1>2 DEF CleanHistory
  <2>2. c \in Int
    <3>1. host.meta.count \in Nat
      BY HostFields DEF MetaRecord
    <3>2. host.meta.count + Chunk - 1 \in Int /\ Chunk \in Nat \ {0}
      BY <3>1, Sizes
    <3> QED BY <3>2 DEF ChunkCount
  <2> QED BY <2>1, <2>2
<1> HIDE DEF n, c
<1>8. at' = "chunk" => n + 1 < c
  BY <1>2
<1>9. at' = "select" => n + 1 = c
  BY <1>2, <1>3, <1>7
<1>10. \A j \in 1 .. Len(host'.chunks) : host'.chunks[j].id = ball.id
  <2> SUFFICES ASSUME NEW j \in 1 .. n + 1 PROVE host'.chunks[j].id = ball.id
    BY <1>6
  <2>1. \A k \in 1 .. n : host.chunks[k].id = ball.id
    BY <1>1, <1>2 DEF CleanHistory, n
  <2>2. j = n + 1 \/ j \in 1 .. n
    BY <1>3
  <2> QED BY <1>4, <1>6, <2>1, <2>2
<1>11. CleanStatus(host.status)'
  BY <1>1, <1>2, <1>5 DEF CleanStatus
<1>12. CleanTimes'
  <2>1. mode = "armed" => host.marker.t \in PreRoll + 1 .. now
    BY <1>1, <1>2 DEF CleanTimes
  <2>2. at' \in {"chunk", "select"}
    BY <1>2
  <2> QED BY <1>2, <1>5, <2>1, <2>2 DEF CleanTimes
<1>13. CleanHistory'
  <2>1. /\ FromTheFirst(ball.frozen) /\ host.meta = MetaOf(ball.frozen, ball.id)
        /\ mode = "armed" => host.marker.t + Episode <= ball.frozen[Len(ball.frozen)].t
    BY <1>1, <1>2 DEF CleanHistory
  <2>2. ChunkCount(host'.meta) = c
    BY <1>5 DEF c
  <2> QED BY <1>2, <1>5, <1>6, <1>8, <1>9, <1>10, <2>1, <2>2 DEF CleanHistory
<1>14. CleanSamples'
  BY <1>2 DEF CleanSamples
<1> QED BY <1>2, <1>11, <1>12, <1>13, <1>14 DEF CleanHost, Working, Clean

(* A sample is written: it is not left out outside the window loop.        *)
LEMMA CleanWrite ==
    ASSUME TypeInv, HostInv, Clean, WriteSample, UNCHANGED <<now, ball>>
    PROVE  CleanHost' /\ Working'
<1>1. /\ now \in Int /\ mode \in {"armed", "frozen"}
      /\ at # "status" => CleanStatus(host.status)
      /\ CleanTimes /\ CleanSamples
  BY CleanFacts
<1> DEFINE s == Head(todo)
           N == Numbered(now)
<1>2. /\ at = "write" /\ todo # <<>> /\ UNCHANGED <<mode, at, until, exit>>
      /\ host' = [host EXCEPT !.got = Append(@, s)] /\ todo' = Tail(todo)
  BY <1>1 DEF WriteSample, options
<1>3. host.got \in Seq(N) /\ todo \in Seq(N)
  BY <1>1, <1>2 DEF CleanSamples
<1>4. /\ host'.status = host.status /\ host'.marker = host.marker
      /\ host'.got = Append(host.got, s)
  BY <1>2 DEF TypeInv, Host
<1> HIDE DEF N
<1>5. s \in N /\ Tail(todo) \in Seq(N)
  BY <1>2, <1>3, HeadTailProperties
<1> HIDE DEF s
<1>6. host'.got \in Seq(N) /\ host'.got # <<>>
  <2> DEFINE q == Append(host.got, s)
  <2>1. q \in Seq(N) /\ Len(q) = Len(host.got) + 1 /\ Len(host.got) \in Nat
    BY <1>3, <1>5, AppendProperties, LenProperties
  <2> HIDE DEF q
  <2>2. q = <<>> => Len(q) = 0
    OBVIOUS
  <2>3. q # <<>>
    BY <2>1, <2>2
  <2> QED BY <1>4, <2>1, <2>3 DEF q
<1>7. CleanStatus(host.status)'
  BY <1>1, <1>2, <1>4 DEF CleanStatus
<1>8. CleanTimes'
  BY <1>1, <1>2, <1>4 DEF CleanTimes
<1>9. CleanSamples'
  BY <1>2, <1>5, <1>6 DEF CleanSamples, N
<1>10. CleanHistory'
  BY <1>2 DEF CleanHistory
<1> QED BY <1>2, <1>7, <1>8, <1>9, <1>10 DEF CleanHost, Working, Clean

(* The last sample is written, and the last status is asked for.           *)
LEMMA CleanWritten ==
    ASSUME TypeInv, HostInv, Clean, Written, UNCHANGED <<now, ball>>
    PROVE  CleanHost' /\ Working'
<1>1. /\ now \in Int /\ mode \in {"armed", "frozen"}
      /\ at # "status" => CleanStatus(host.status)
      /\ CleanTimes /\ CleanSamples
  BY CleanFacts
<1>2. at = "write" /\ at' = "final" /\ UNCHANGED <<mode, until, host, todo, exit>>
  BY <1>1 DEF Written, options
<1>3. CleanStatus(host.status)'
  BY <1>1, <1>2 DEF CleanStatus
<1>4. CleanTimes'
  BY <1>1, <1>2 DEF CleanTimes
<1>5. CleanSamples' /\ CleanHistory'
  BY <1>1, <1>2 DEF CleanSamples, CleanHistory
<1> QED BY <1>2, <1>3, <1>4, <1>5 DEF CleanHost, Working, Clean

(* Numbers that have not come round are as far apart as they differ.       *)
LEMMA SmallDelta ==
    ASSUME NumbersLast, NEW x \in Int, NEW y \in Int, 0 <= y, y <= x, x <= MaxTime
    PROVE  SequenceDelta(x, y) = x - y /\ SequenceDelta(x, y) # None
<1> DEFINE d == x - y
           m == Modulus
<1>1. d \in Nat /\ m \in Nat /\ 2 * d < m /\ d < m
  BY Sizes DEF NumbersLast
<1>2. SequenceDelta(x, y) = IF 2 * (d % m) >= m THEN None ELSE d % m
  BY DEF SequenceDelta
<1> HIDE DEF d, m
<1>3. d % m = d
  BY <1>1, SmallMod
<1>4. ~(2 * d >= m)
  BY <1>1
<1>5. SequenceDelta(x, y) = d
  BY <1>2, <1>3, <1>4
<1>6. d # None
  BY <1>1 DEF None
<1> QED BY <1>5, <1>6 DEF d

(* The session finds nothing wrong with samples that are steady, valid and *)
(* numbered by their periods.                                              *)
LEMMA NoMotionIssues ==
    ASSUME NumbersLast, NEW n \in Int, n <= MaxTime, NEW s \in Seq(Numbered(n)), Steady(s)
    PROVE  MotionIssues(s) = {}
<1>1. /\ Len(s) \in Nat /\ DOMAIN s = 1 .. Len(s)
      /\ \A i \in 1 .. Len(s) : s[i] \in Sample /\ s[i].seq = s[i].t /\ s[i].ok
                                /\ s[i].t \in 1 .. n
  <2>1. s \in Seq(Sample)
    BY NumbersRun
  <2>2. DOMAIN s = 1 .. Len(s)
    BY <2>1, LenProperties
  <2> QED BY <2>2, NumbersRun
<1>2. ASSUME NEW i \in 1 .. Len(s) - 1
      PROVE  SequenceDelta(s[i + 1].seq, s[i].seq) = 1 /\ ~(s[i + 1].t <= s[i].t)
  <2> DEFINE x == s[i + 1].t
             y == s[i].t
  <2>1. i \in 1 .. Len(s) /\ i + 1 \in 1 .. Len(s)
    BY <1>1
  <2>2. /\ x \in 1 .. n /\ y \in 1 .. n /\ x = y + 1
        /\ s[i + 1].seq = x /\ s[i].seq = y
    BY <1>1, <2>1 DEF Steady
  <2> HIDE DEF x, y
  <2>3. x \in Int /\ y \in Int /\ 0 <= y /\ y <= x /\ x <= MaxTime /\ x - y = 1 /\ ~(x <= y)
    BY <2>2, Sizes
  <2>4. SequenceDelta(x, y) = 1
    BY <2>3, SmallDelta
  <2> QED BY <2>2, <2>3, <2>4 DEF x, y
<1>3. ~ \E i \in DOMAIN s : ~s[i].ok
  BY <1>1
<1> QED BY <1>2, <1>3 DEF MotionIssues

(* Nor with a last status of the same boot, later than the first and than  *)
(* the samples.                                                            *)
LEMMA NoStatusIssues ==
    ASSUME TypeInv, HostInv, NumbersLast, Clean, at = "final", host.got # <<>>
    PROVE  StatusIssues(host.status, Status, host.got) = {}
<1>1. /\ now \in Int /\ now >= 1 /\ now <= MaxTime
      /\ CleanStatus(host.status) /\ CleanSamples
  BY CleanFacts
<1> DEFINE o == host.status
           g == host.got
           z == Last(g)
<1>2. Status = [boot |-> 1, seq |-> now, up |-> now, errors |-> 0, generation |-> 0,
                healthy |-> TRUE]
  <2>1. /\ ball.boot = 1 /\ ball.seq = now /\ ball.errors = 0 /\ ball.generation = 0
        /\ ball.healthy \in BOOLEAN /\ ball.healthy /\ ball.since = 0
    BY DEF Clean, CalmBall, TypeInv, Ball
  <2>2. now - ball.since = now /\ ball.healthy = TRUE
    BY <1>1, <2>1
  <2> QED BY <2>1, <2>2 DEF Status
<1>3. /\ Status.boot = 1 /\ Status.seq = now /\ Status.up = now /\ Status.errors = 0
      /\ Status.generation = 0 /\ Status.healthy
  BY <1>2
<1>4. o.boot = 1 /\ o.errors = 0 /\ o.generation = 0 /\ o.up \in 1 .. now /\ o.seq = o.up
  BY <1>1 DEF CleanStatus
<1>5. SequenceDelta(now, o.seq) # None /\ ~(now < o.up)
  <2> HIDE DEF o
  <2>1. o.seq \in Int /\ 0 <= o.seq /\ o.seq <= now /\ ~(now < o.up)
    BY <1>1, <1>4
  <2> QED BY <1>1, <2>1, SmallDelta
<1>6. SequenceDelta(now, z.seq) # None
  <2>1. g \in Seq(Numbered(now)) /\ g # <<>>
    BY <1>1 DEF CleanSamples
  <2>2. Len(g) \in 1 .. Len(g)
    <3>1. Len(g) \in Nat \ {0}
      BY <2>1, LenProperties, EmptySeq
    <3> QED BY <3>1
  <2>3. g[Len(g)] \in Numbered(now)
    BY <2>1, <2>2, ElementOfSeq
  <2>4. z = g[Len(g)]
    BY DEF Last
  <2> HIDE DEF z, g
  <2>5. z.seq \in 1 .. now
    BY <2>3, <2>4 DEF Numbered
  <2>6. z.seq \in Int /\ 0 <= z.seq /\ z.seq <= now
    BY <1>1, <2>5
  <2> QED BY <1>1, <2>6, SmallDelta
<1> HIDE DEF o, z
<1>7. \A new : /\ new.boot = 1 /\ new.seq = now /\ new.up = now /\ new.errors = 0
               /\ new.generation = 0 /\ new.healthy
        => StatusIssues(o, new, g) = {}
  BY <1>4, <1>5, <1>6 DEF StatusIssues, z
<1> QED BY <1>3, <1>7 DEF o

(* The last status finds nothing wrong.                                    *)
LEMMA CleanFinal ==
    ASSUME TypeInv, HostInv, NumbersLast, Clean, GetFinal
    PROVE  exit' = "PASS"
<1>1. /\ now \in Int /\ now <= MaxTime /\ mode \in {"armed", "frozen"}
      /\ at # "status" => SameBoot
      /\ CleanSamples
  BY CleanFacts
<1>2. at = "final" /\ Working
  BY DEF GetFinal, Answered
<1>3. todo = <<>>
  BY <1>2 DEF HostInv, PlaceInv
<1>4. host.got \in Seq(Numbered(now)) /\ host.got # <<>>
  BY <1>1, <1>2, <1>3 DEF CleanSamples
<1>5. host.got \in Seq(Sample)
  BY HostFields
<1>6. Steady(host.got)
  <2>1. Steady(host.got \o todo)
    BY <1>1, <1>2 DEF HostInv, WholeInv
  <2>2. host.got \o <<>> = host.got
    BY <1>5, ConcatEmptySeq
  <2> QED BY <1>3, <2>1, <2>2
<1>7. MotionIssues(host.got) = {}
  BY <1>1, <1>4, <1>6, NoMotionIssues
<1>8. StatusIssues(host.status, Status, host.got) = {}
  BY <1>2, <1>4, NoStatusIssues
<1>9. Issues = {}
  BY <1>7, <1>8 DEF Issues
<1>10. Gapless(host.got)
  <2>1. Contiguous(host.got)
    BY <1>1, <1>4, <1>6, NumbersRun
  <2> QED BY <1>5, <2>1, CountedGapless DEF Contiguous
<1> QED BY <1>4, <1>9, <1>10 DEF GetFinal, Stop

(* All the chunks that were announced put together are the frozen history. *)
LEMMA CleanBatch ==
    ASSUME TypeInv, HostInv, Clean, at = "select"
    PROVE  /\ Batch = ball.frozen /\ Steady(Batch) /\ AllFrom(Batch, ball.boot)
           /\ Batch \in Seq(Numbered(now)) /\ FromTheFirst(Batch)
           /\ host.meta = MetaOf(Batch, ball.id)
           /\ \A j \in 1 .. Len(host.chunks) :
                host.chunks[j].id = ball.id /\ host.chunks[j].data = Piece(Batch, j - 1)
<1>1. SameBoot /\ CleanHistory
  BY CleanFacts
<1>2. /\ FromTheFirst(ball.frozen) /\ host.meta = MetaOf(ball.frozen, ball.id)
      /\ \A j \in 1 .. Len(host.chunks) : host.chunks[j].id = ball.id
      /\ Len(host.chunks) = ChunkCount(host.meta)
  BY <1>1 DEF CleanHistory
<1>3. PICK F \in Seq(Sample) : Retrieves(F)
  BY <1>1 DEF HostInv, ChunkInv
<1>4. host.meta.id = ball.id /\ host.meta.count = Len(ball.frozen)
  BY <1>2 DEF MetaOf
<1>5. ball.frozen = F /\ Steady(F) /\ AllFrom(F, ball.boot)
  BY <1>3, <1>4 DEF Retrieves
<1>6. \A j \in 1 .. Len(host.chunks) : host.chunks[j].data = Piece(F, j - 1)
  BY <1>2, <1>3, <1>4 DEF Retrieves
<1> DEFINE n == Len(host.chunks)
           l == Len(F)
<1>7. n \in Nat \ {0} /\ l <= n * Chunk /\ l \in Nat
  <2>1. l \in Nat \ {0}
    <3>1. F # <<>>
      BY <1>2, <1>5 DEF FromTheFirst
    <3> QED BY <3>1, LenProperties, EmptySeq
  <2>2. n = (l + Chunk - 1) \div Chunk
    BY <1>2, <1>4, <1>5 DEF ChunkCount
  <2> HIDE DEF n, l
  <2> QED BY <2>1, <2>2, Sizes, EnoughChunks
<1>8. /\ Data \in Seq(Seq(Sample)) /\ Len(Data) = n
      /\ \A j \in 1 .. n : Data[j] = host.chunks[j].data
      /\ Batch = FlattenSeq(Data)
  BY BatchType
<1>9. Batch = Gathered(F, n)
  <2>1. Len(Data) # 0
    BY <1>7, <1>8
  <2>2. \A j \in 1 .. Len(Data) : Data[j] = Piece(F, j - 1)
    BY <1>6, <1>8
  <2> HIDE DEF n
  <2> QED BY <1>8, <2>1, <2>2, FlattenGathers
<1>10. Gathered(F, n) = F
  <2>1. UpTo(l, n * Chunk) = l
    <3> DEFINE m == n * Chunk
    <3>1. m \in Nat /\ l <= m
      BY <1>7, Sizes
    <3> HIDE DEF m, l
    <3> QED BY <1>7, <3>1 DEF UpTo, m
  <2>2. Gathered(F, n) = SubSeq(F, 1, UpTo(l, n * Chunk))
    BY DEF Gathered
  <2>3. SubSeq(F, 1, l) = F
    BY SubSeqFull
  <2> HIDE DEF n, l
  <2> QED BY <2>1, <2>2, <2>3
<1>11. Batch = F
  BY <1>9, <1>10
<1>12. ball.frozen \in Seq(Numbered(now))
  BY DEF Clean, CleanBall
<1> QED BY <1>2, <1>5, <1>6, <1>11, <1>12

(* Every check of the retrieved history succeeds.                          *)
LEMMA CleanValid ==
    ASSUME TypeInv, HostInv, Clean, at = "select"
    PROVE  HistoryValid
<1> DEFINE B == Batch
<1>1. /\ Steady(B) /\ B \in Seq(Numbered(now)) /\ FromTheFirst(B)
      /\ host.meta = MetaOf(B, ball.id) /\ now \in Int
      /\ \A j \in 1 .. Len(host.chunks) :
           host.chunks[j].id = ball.id /\ host.chunks[j].data = Piece(B, j - 1)
  BY CleanBatch, CleanFacts
<1>2. host.chunks \in Seq(ChunkRecord) /\ DOMAIN host.chunks = 1 .. Len(host.chunks)
      /\ Len(host.chunks) \in Nat
  BY HostFields, LenProperties
<1>3. B \in Seq(Sample) /\ Len(B) \in Nat /\ Contiguous(B) /\ B # <<>>
  BY <1>1, NumbersRun DEF FromTheFirst
<1>4. /\ host.meta.id = ball.id /\ host.meta.count = Len(B) /\ host.meta.first = B[1].seq
      /\ host.meta.last = B[Len(B)].seq
  BY <1>1 DEF MetaOf
<1>5. Head(B) = B[1] /\ Last(B) = B[Len(B)]
  BY <1>3, HeadTailProperties DEF Last
<1> HIDE DEF B
<1>6. \A i \in Nat : Contiguous(Piece(B, i))
  <2> SUFFICES ASSUME NEW i \in Nat PROVE Contiguous(Piece(B, i))
    OBVIOUS
  <2> DEFINE m == i * Chunk + 1
             n == UpTo(Len(B), (i + 1) * Chunk)
             p == SubSeq(B, m, n)
  <2>1. m \in Int /\ m >= 1 /\ n \in Int /\ n <= Len(B)
    <3> DEFINE a == i * Chunk
               b == (i + 1) * Chunk
    <3>1. a \in Nat /\ b \in Nat
      BY Sizes
    <3>2. m = a + 1 /\ n = UpTo(Len(B), b)
      OBVIOUS
    <3> HIDE DEF a, b, m, n
    <3> QED BY <1>3, <3>1, <3>2 DEF UpTo
  <2>2. Piece(B, i) = p
    BY DEF Piece
  <2> HIDE DEF m, n
  <2>3. \A k \in m .. n : B[k] \in Sample
    <3> TAKE k \in m .. n
    <3>1. k \in 1 .. Len(B)
      BY <1>3, <2>1
    <3> QED BY <1>3, <3>1, ElementOfSeq
  <2>4. /\ Len(p) = IF m <= n THEN n - m + 1 ELSE 0
        /\ \A k \in 1 .. n - m + 1 : p[k] = B[m + k - 1]
    BY <2>1, <2>3, SubSeqProperties
  <2> HIDE DEF p
  <2> SUFFICES ASSUME NEW k \in 1 .. Len(p) - 1 PROVE p[k + 1].seq = p[k].seq + 1
    BY <2>2 DEF Contiguous
  <2>5. /\ k \in 1 .. n - m + 1 /\ k + 1 \in 1 .. n - m + 1
        /\ m + k - 1 \in 1 .. Len(B) - 1 /\ (m + k - 1) + 1 = m + (k + 1) - 1
    BY <1>3, <2>1, <2>4
  <2>6. B[(m + k - 1) + 1].seq = B[m + k - 1].seq + 1
    BY <1>3, <2>5 DEF Contiguous
  <2> QED BY <2>4, <2>5, <2>6
<1>7. \A j \in DOMAIN host.chunks :
        host.chunks[j].id = host.meta.id /\ Contiguous(host.chunks[j].data)
  <2> SUFFICES ASSUME NEW j \in 1 .. Len(host.chunks)
               PROVE  host.chunks[j].id = host.meta.id /\ Contiguous(host.chunks[j].data)
    BY <1>2
  <2>1. j - 1 \in Nat
    BY <1>2
  <2>2. host.chunks[j].id = ball.id /\ host.chunks[j].data = Piece(B, j - 1)
    BY <1>1
  <2> QED BY <1>4, <1>6, <2>1, <2>2
<1> QED BY <1>3, <1>4, <1>5, <1>7 DEF HistoryValid, B

(* A history that was frozen in time reaches back to the countdown, and    *)
(* forward to the end of the episode.                                      *)
LEMMA CleanCovered ==
    ASSUME TypeInv, HostInv, Clean, at = "select", mode = "armed", FrozenInTime
    PROVE  WindowCovered /\ Len(Selected) >= 2
<1> DEFINE B == Batch
           t == host.marker.t
           n == Len(B)
           x == B[1].t
           y == B[n].t
<1>1. /\ Batch = ball.frozen /\ Steady(B) /\ AllFrom(B, ball.boot)
      /\ B \in Seq(Numbered(now)) /\ FromTheFirst(B)
      /\ t \in Int /\ now \in Int /\ CleanTimes /\ CleanHistory
  BY CleanBatch, CleanFacts
<1>2. t \in PreRoll + 1 .. now /\ t + Episode <= y
  BY <1>1 DEF CleanTimes, CleanHistory
<1>3. B \in Seq(Sample) /\ n \in Nat /\ B # <<>> /\ (n >= Ring \/ x = 1)
  BY <1>1, NumbersRun DEF FromTheFirst
<1>4. n \in Nat \ {0} /\ 1 \in 1 .. n /\ n \in 1 .. n
  <2>1. n # 0
    BY <1>3, EmptySeq
  <2> HIDE DEF n
  <2> QED BY <1>3, <2>1
<1>5. x \in Int /\ y \in Int /\ y = x + n - 1
  <2>1. B[1] \in Sample /\ B[n] \in Sample
    BY <1>3, <1>4, ElementOfSeq
  <2>2. y = x + n - 1
    BY <1>1, <1>3, <1>4, SteadyTimes
  <2> QED BY <2>1, <2>2 DEF Sample
<1>6. Head(B) = B[1] /\ Last(B) = B[n]
  BY <1>3, HeadTailProperties DEF Last
<1>7. Marker # <<>> /\ Marker[1].t = t
  <2>1. file \in Seq(Line) /\ Laid(file, 2, host.got, t)
    BY DEF TypeInv, HostInv, FileInv, Clean, Opening
  <2>2. host.got = <<>>
    BY DEF HostInv, PlaceInv, Clean
  <2>3. Len(file) = 2 /\ file[1].kind = "status" /\ file[2].kind = "marker" /\ file[2].t = t
    BY <2>1, <2>2 DEF Laid
  <2>4. \A k \in 1 .. Len(file) : file[k].kind = "marker" <=> k = 2
    BY <2>3
  <2>5. 2 \in 1 .. Len(file)
    BY <2>3
  <2> DEFINE M == OfKind(file, "marker")
  <2>6. Len(M) = 1 /\ M[1] = file[2]
    BY <2>1, <2>4, <2>5, OneOfKind
  <2> HIDE DEF M
  <2>7. M = <<>> => Len(M) = 0
    OBVIOUS
  <2>8. M # <<>>
    BY <2>6, <2>7
  <2> QED BY <2>3, <2>6, <2>8 DEF Marker, M
<1>8. y < t + Ring - PreRoll
  BY <1>1, <1>3, <1>6, <1>7 DEF FrozenInTime
<1>9. WindowCovered
  <2>1. x <= t - PreRoll /\ x <= t /\ t <= y /\ t + Episode <= y
    <3> HIDE DEF x, y, n, t
    <3> QED BY <1>1, <1>2, <1>3, <1>4, <1>5, <1>8, Sizes
  <2> HIDE DEF B
  <2> QED BY <1>3, <1>6, <2>1 DEF WindowCovered, From, To, B
<1>10. Selected \in Seq(Sample) /\ Spans(Selected, From, To)
  BY <1>1, <1>9, SelectedSpans
<1>11. From < To
  <2>1. From = t - PreRoll /\ To = t + Episode
    BY DEF From, To
  <2> HIDE DEF t
  <2> QED BY <1>1, <2>1, Sizes
<1>12. Len(Selected) >= 2
  <2> DEFINE s == Selected
  <2>1. s \in Seq(Sample) /\ s # <<>> /\ s[1].t = From /\ s[Len(s)].t = To
    BY <1>10 DEF Spans
  <2> HIDE DEF s
  <2>2. Len(s) \in Nat \ {0}
    BY <2>1, LenProperties, EmptySeq
  <2>3. Len(s) # 1
    <3>1. From # To
      <4>1. From \in Int /\ To \in Int
        BY <1>1, Durations DEF From, To
      <4> QED BY <1>11, <4>1
    <3> QED BY <2>1, <3>1
  <2>4. Len(s) >= 2
    <3> DEFINE l == Len(s)
    <3>1. l \in Nat \ {0} /\ l # 1
      BY <2>2, <2>3
    <3> HIDE DEF l
    <3>2. l >= 2
      BY <3>1
    <3> QED BY <3>2 DEF l
  <2> QED BY <2>4 DEF s
<1> QED BY <1>9, <1>12

(* The samples that are taken; nothing is refused if the history was       *)
(* frozen in time.                                                         *)
LEMMA CleanSelect ==
    ASSUME TypeInv, HostInv, Clean, SelectWindow, UNCHANGED <<now, ball>>
    PROVE  CleanHost' /\ (FrozenInTime' => Working')
<1>1. at = "select" /\ mode' = mode /\ Working
  BY DEF SelectWindow, options
<1>2. HistoryValid
  BY <1>1, CleanValid
<1>3. CASE mode = "armed" => WindowCovered /\ Len(Selected) >= 2
  <2> DEFINE taken == IF mode = "armed" THEN Selected ELSE Batch
  <2>1. todo' = taken /\ at' = "write" /\ UNCHANGED <<until, host, exit>>
    BY <1>2, <1>3 DEF SelectWindow
  <2>2. /\ now \in Int /\ mode \in {"armed", "frozen"}
        /\ at # "status" => CleanStatus(host.status)
        /\ CleanTimes
    BY CleanFacts
  <2>3. host.got = <<>>
    BY <1>1 DEF HostInv, PlaceInv
  <2>4. taken \in Seq(Numbered(now)) /\ taken # <<>>
    <3>1. Batch \in Seq(Numbered(now)) /\ Batch # <<>>
      BY <1>1, CleanBatch DEF FromTheFirst
    <3>2. Selected \in Seq(Numbered(now))
      BY <3>1, PickedType DEF Selected
    <3>3. Len(Selected) >= 2 => Selected # <<>>
      <4> DEFINE s == Selected
      <4> HIDE DEF s
      <4>1. s = <<>> => Len(s) = 0
        OBVIOUS
      <4>2. Len(s) >= 2 => s # <<>>
        BY <4>1
      <4> QED BY <4>2 DEF s
    <3> QED BY <1>3, <3>1, <3>2, <3>3
  <2> HIDE DEF taken
  <2>5. CleanStatus(host.status)'
    BY <1>1, <2>1, <2>2 DEF CleanStatus
  <2>6. CleanTimes'
    BY <1>1, <2>1, <2>2 DEF CleanTimes
  <2>7. CleanSamples'
    <3>1. \A S : <<>> \in Seq(S)
      OBVIOUS
    <3> QED BY <2>1, <2>3, <2>4, <3>1 DEF CleanSamples
  <2>8. CleanHistory'
    BY <2>1 DEF CleanHistory
  <2> QED BY <1>1, <2>1, <2>5, <2>6, <2>7, <2>8 DEF CleanHost, Working
<1>4. CASE mode = "armed" /\ ~(WindowCovered /\ Len(Selected) >= 2)
  <2>1. Stop(at) /\ UNCHANGED file
    BY <1>4 DEF SelectWindow
  <2>2. ~Working'
    BY <1>1, <2>1 DEF Stop, Working
  <2>3. FrozenInTime' => FrozenInTime
    BY <2>1 DEF FrozenInTime, Marker
  <2>4. ~FrozenInTime
    BY <1>1, <1>4, CleanCovered
  <2> QED BY <2>2, <2>3, <2>4 DEF CleanHost
<1> QED BY <1>3, <1>4

(* The options are given once.                                             *)
LEMMA ModeStays ==
    ASSUME [Next]_vars
    PROVE  mode' = mode
  BY DEF Next, Tick, SensorError, Reboot, OtherFreeze, Doze, Wake, Fail, Recover, Upset,
         HostWaits, NoAnswer, GetStatus, Countdown, GetMarker, Acknowledge, EpisodeOver,
         FreezeHistory, GetChunk, SelectWindow, GetWindow, WriteSample, Written, GetFinal, Kill,
         Evaluate, Answered, options, vars

(* A step of an undisturbed capture at work.                               *)
LEMMA CleanStep ==
    ASSUME NumbersLast, TypeInv, BallInv, HostInv, Clean, Calm => CalmBall, [Next]_vars,
           Undisturbed'
    PROVE  CleanHost' /\ (FrozenInTime' => exit' \in {"", "PASS", "killed", "acknowledge"})
<1>1. Working /\ mode # "window"
  BY DEF Clean
<1>2. ASSUME CleanHost', Working' \/ (FrozenInTime' => Working')
      PROVE  CleanHost' /\ (FrozenInTime' => exit' \in {"", "PASS", "killed", "acknowledge"})
  BY <1>2 DEF Working
<1>3. ASSUME NEW how \in {"PASS", "killed", "acknowledge"}, exit' = how
      PROVE  CleanHost' /\ (FrozenInTime' => exit' \in {"", "PASS", "killed", "acknowledge"})
  BY <1>3 DEF CleanHost, Working
<1>4. \/ Tick /\ now' = now + 1 /\ ball' = Sampled(TRUE)
      \/ FreezeHistory /\ now' = now /\ ball' = Freeze
      \/ HostSteps /\ UNCHANGED <<now, ball>>
  BY CalmSteps DEF Undisturbed, Calm
<1>5. CASE Tick /\ now' = now + 1 /\ ball' = Sampled(TRUE)
  BY <1>2, <1>5, CleanTick
<1>6. CASE FreezeHistory /\ now' = now /\ ball' = Freeze
  BY <1>2, <1>6, CleanFreeze
<1>7. CASE HostSteps /\ UNCHANGED <<now, ball>>
  <2>1. CASE GetStatus
    BY <1>2, <1>7, <2>1, CleanGetStatus
  <2>2. CASE Countdown \/ EpisodeOver
    BY <1>2, <1>7, <2>2, CleanSleeps
  <2>3. CASE GetMarker
    BY <1>2, <1>7, <2>3, CleanMarker
  <2>4. CASE Acknowledge
    <3>1. CASE Stop(at)
      <4>1. at = "acknowledge"
        BY <2>4 DEF Acknowledge
      <4>2. exit' = "acknowledge"
        BY <3>1, <4>1 DEF Stop
      <4> QED BY <1>3, <4>2
    <3>2. CASE ~Stop(at)
      BY <1>2, <1>7, <2>4, <3>2, CleanAcknowledge
    <3> QED BY <3>1, <3>2
  <2>5. CASE GetChunk
    BY <1>2, <1>7, <2>5, CleanGetChunk
  <2>6. CASE SelectWindow
    BY <1>2, <1>7, <2>6, CleanSelect
  <2>7. CASE WriteSample
    BY <1>2, <1>7, <2>7, CleanWrite
  <2>8. CASE Written
    BY <1>2, <1>7, <2>8, CleanWritten
  <2>9. CASE GetFinal
    BY <1>3, <2>9, CleanFinal
  <2>10. CASE Kill
    <3>1. exit' = "killed"
      BY <2>10 DEF Kill, Stop
    <3> QED BY <1>3, <3>1
  <2>11. ~GetWindow
    BY <1>1 DEF GetWindow, Answered, HostInv, PlaceInv
  <2>12. ~Evaluate
    BY <1>1 DEF Evaluate
  <2>13. CASE UNCHANGED vars
    <3>1. UNCHANGED <<now, ball, mode, at, until, host, todo, exit>>
      BY <2>13 DEF vars
    <3>2. CleanHost' /\ Working'
      BY <3>1 DEF Clean, CleanHost, CleanStatus, CleanTimes, CleanHistory, CleanSamples, Working
    <3> QED BY <1>2, <3>2
  <2> QED BY <1>7, <2>1, <2>2, <2>3, <2>4, <2>5, <2>6, <2>7, <2>8, <2>9, <2>10, <2>11, <2>12,
             <2>13 DEF HostSteps
<1> QED BY <1>4, <1>5, <1>6, <1>7

(* A step of any capture.                                                  *)
LEMMA CleanInvStep ==
    ASSUME NumbersLast, IInv, CleanInv, [Next]_vars
    PROVE  CleanInv'
<1>1. /\ TypeInv /\ BallInv /\ HostInv /\ Rounds /\ (Calm => CalmBall)
      /\ Undisturbed => CleanBall /\ CleanHost
      /\ HealthyPasses
  BY DEF IInv, CleanInv
<1>2. Rounds'
  BY <1>1, RoundsStep
<1>3. /\ Calm' => CalmBall'
      /\ Undisturbed' => Undisturbed /\ CleanBall'
  BY <1>1, CleanBallStep
<1>4. ASSUME Undisturbed'
      PROVE  CleanHost' /\ HealthyPasses'
  <2>1. Undisturbed /\ Calm /\ CalmBall /\ CleanBall /\ CleanHost /\ ball.seq = now
    BY <1>1, <1>3, <1>4 DEF Undisturbed, Calm
  <2>2. CASE Working /\ mode # "window"
    <3>1. Clean
      BY <1>1, <2>1, <2>2 DEF Clean
    <3>2. CleanHost' /\ (FrozenInTime' => exit' \in {"", "PASS", "killed", "acknowledge"})
      BY <1>1, <1>4, <3>1, CleanStep
    <3> QED BY <3>2 DEF HealthyPasses
  <2>3. CASE ~Working
    <3>1. Evaluate \/ UNCHANGED vars
      BY <2>3, EndIsTheEnd
    <3>2. UNCHANGED <<now, ball, upsets, drops, mode, file, exit>>
      BY <3>1 DEF Evaluate, world, options, vars
    <3>3. CleanHost'
      BY <2>3, <3>2 DEF CleanHost, Working
    <3>4. HealthyPasses'
      BY <1>1, <3>2 DEF HealthyPasses, Undisturbed, FrozenInTime, Marker
    <3> QED BY <3>3, <3>4
  <2>4. CASE mode = "window"
    <3>1. mode' = "window"
      BY <2>4, ModeStays
    <3> QED BY <3>1 DEF CleanHost, HealthyPasses
  <2> QED BY <2>2, <2>3, <2>4
<1>5. HealthyPasses'
  <2>1. ~Undisturbed' => HealthyPasses'
    BY DEF HealthyPasses
  <2> QED BY <1>4, <2>1
<1> QED BY <1>2, <1>3, <1>4, <1>5 DEF CleanInv

-----------------------------------------------------------------------------
(* The theorems.                                                           *)

(* A capture starts in order.                                              *)
LEMMA Start == ASSUME Init PROVE IInv
<1>1. now = 1 /\ upsets = 0 /\ drops = 0 /\ mode \in Modes /\ label \in Labels
      /\ at = "status" /\ until = 0 /\ tries = 0 /\ host = NoHost /\ todo = <<>>
      /\ file = <<>> /\ exit = ""
  BY DEF Init
<1>2. PICK first \in {1, Modulus - 2} :
         LET s == [boot |-> 1, seq |-> first, t |-> 1, ok |-> TRUE] IN
         ball = [boot |-> 1, since |-> 0, seq |-> first, ring |-> <<s>>, motion |-> s,
                 frozen |-> <<>>, id |-> 0, errors |-> 0, generation |-> 0,
                 healthy |-> TRUE, awake |-> TRUE]
  BY DEF Init
<1> DEFINE s == [boot |-> 1, seq |-> first, t |-> 1, ok |-> TRUE]
<1>3. s \in Sample /\ s.boot = 1 /\ s.t = 1 /\ first \in Int
  <2>1. Modulus \in Nat
    BY CaptureAssumption
  <2>2. first \in Int
    BY <2>1
  <2> QED BY <2>2 DEF Sample
<1>4. /\ ball = [boot |-> 1, since |-> 0, seq |-> first, ring |-> <<s>>, motion |-> s,
                 frozen |-> <<>>, id |-> 0, errors |-> 0, generation |-> 0,
                 healthy |-> TRUE, awake |-> TRUE]
  BY <1>2
<1> HIDE DEF s
<1>5. <<s>> \in Seq(Sample) /\ Len(<<s>>) = 1 /\ <<s>>[1] = s
  BY <1>3
<1>6. TypeInv
  <2>1. ball \in Ball
    BY <1>3, <1>4, <1>5, NoSamples DEF Ball
  <2>2. file \in Seq(Line)
    BY <1>1, EmptySeq
  <2>3. /\ now \in Int /\ upsets \in Nat /\ drops \in Nat /\ until \in Int /\ tries \in Nat
    <3>1. now = 1 /\ upsets = 0 /\ drops = 0 /\ until = 0 /\ tries = 0
      BY <1>1
    <3> QED BY <3>1
  <2>4. at \in Places \cup {"end"} /\ exit \in {"", "PASS", "FAIL", "killed"} \cup Places
    BY <1>1 DEF Places, RequestSteps
  <2>5. host \in Host /\ todo \in Seq(Sample) /\ mode \in Modes /\ label \in Labels
    BY <1>1, NoHostType, NoSamples
  <2> QED BY <2>1, <2>2, <2>3, <2>4, <2>5 DEF TypeInv
<1>7. BallInv
  <2>1. Steady(<<s>>) /\ AllFrom(<<s>>, 1)
    <3> DEFINE q == <<s>>
    <3>1. Len(q) = 1 /\ q[1] = s
      BY <1>5
    <3> HIDE DEF q
    <3>2. Steady(q)
      BY <3>1 DEF Steady
    <3>3. AllFrom(q, 1)
      BY <1>3, <3>1 DEF AllFrom
    <3> QED BY <3>2, <3>3 DEF q
  <2>2. /\ ball.boot = 1 /\ ball.since = 0 /\ ball.ring = <<s>> /\ ball.motion = s
        /\ ball.frozen = <<>>
    BY <1>4
  <2>3. ball.ring[Len(ball.ring)].t = 1 /\ ball.motion.boot = 1
    BY <1>3, <1>5, <2>2
  <2>4. now - ball.since = 1 /\ ball.boot > 0
    <3>1. now = 1
      BY <1>1
    <3>2. ball.since = 0 /\ ball.boot = 1
      BY <2>2
    <3> QED BY <3>1, <3>2
  <2>5. /\ Steady(ball.ring) /\ AllFrom(ball.ring, ball.boot)
        /\ Steady(ball.frozen) /\ AllFrom(ball.frozen, ball.boot)
    BY <2>1, <2>2, NoSamples
  <2> QED BY <2>2, <2>3, <2>4, <2>5 DEF BallInv
<1>8. HostInv
  <2>1. PlaceInv
    BY <1>1, NoHostType DEF PlaceInv, Places, RequestSteps
  <2>2. BootInv
    <3>1. ball.boot = 1
      BY <1>4
    <3>2. host.status.boot = 0
      BY <1>1, NoHostType
    <3> QED BY <3>1, <3>2 DEF BootInv, SameBoot
  <2>3. ChunkInv /\ WholeInv
    BY <1>1 DEF ChunkInv, WholeInv
  <2>4. FileInv
    <3>1. Opening = 0 /\ file = <<>> /\ host.got = <<>>
      BY <1>1, NoHostType DEF Opening
    <3>2. \A t : Laid(<<>>, 0, <<>>, t)
      BY DEF Laid
    <3> QED BY <3>1, <3>2 DEF FileInv
  <2> QED BY <2>1, <2>2, <2>3, <2>4 DEF HostInv
<1>9. PassIsOneBoot /\ HistoryHasNoHole
  BY <1>1 DEF PassIsOneBoot, HistoryHasNoHole
<1>10. ResultInv
  <2>1. verdict = ""
    BY DEF Init
  <2>2. \A kind : ~HasLine(<<>>, kind)
    BY DEF HasLine
  <2> QED BY <1>1, <2>1, <2>2 DEF ResultInv
<1> QED BY <1>6, <1>7, <1>8, <1>9, <1>10 DEF IInv

(* The inductive invariant: the types of everything the Ball, the host and *)
(* the file hold; the Ball's ring and frozen history are steady and of the *)
(* running boot; and as long as that boot is the one of the first status,  *)
(* what the host retrieves, selects and writes is one steady history of it. *)
THEOREM CapturesStayInOrder == Spec => []IInv
<1>1. Init => IInv
  BY Start
<1>2. IInv /\ [Next]_vars => IInv'
  <2> SUFFICES ASSUME TypeInv, BallInv, HostInv, PassIsOneBoot, HistoryHasNoHole, ResultInv,
                      [Next]_vars
               PROVE  IInv'
    BY DEF IInv
  <2>1. BallMoves
    BY BallStep
  <2>2. TypeInv'
    BY <2>1, TypeStep
  <2>3. BallInv'
    BY <2>1 DEF BallMoves
  <2>4. HostInv'
    BY <2>1, HostStep
  <2>5. PassIsOneBoot' /\ HistoryHasNoHole'
    BY PassStep
  <2>6. ResultInv'
    BY ResultStep
  <2> QED BY <2>2, <2>3, <2>4, <2>5, <2>6 DEF IInv
<1> QED BY <1>1, <1>2, PTL DEF Spec

(* A capture that passes holds samples of one boot of the Ball, whatever   *)
(* reboots, lost answers and freezes of another host came between          *)
(* (TagCaptureSession.finalize and the boot ids it compares).              *)
THEOREM PassesAreOneBoot == Spec => []PassIsOneBoot
<1>1. IInv => PassIsOneBoot
  BY DEF IInv
<1> QED BY <1>1, CapturesStayInOrder, PTL

(* A frozen or armed capture that passes has one valid sample for every    *)
(* period it spans, in order, and an armed one spans everything from the   *)
(* countdown to the end of the episode (frozen_history_from_smp,           *)
(* select_armed_window and clear_motion_history).                          *)
THEOREM HistoriesHaveNoHole == Spec => []HistoryHasNoHole
<1>1. IInv => HistoryHasNoHole
  BY DEF IInv
<1> QED BY <1>1, CapturesStayInOrder, PTL

(* Where the episode fits the detector, a suspicion of a pickup is always  *)
(* of a capture that passed, on samples and a marker of one boot, valid and *)
(* without a missing period from the rest before the marker to the end of  *)
(* the search and the feature window (evaluate_pickup_v0 and what it       *)
(* refuses).                                                               *)
THEOREM SuspicionsAreSound == ASSUME EpisodeFits PROVE Spec => []SuspicionIsSound
<1>1. Init => SuspicionIsSound
  BY DEF Init, SuspicionIsSound
<1>2. IInv /\ SuspicionIsSound /\ [Next]_vars => SuspicionIsSound'
  <2> SUFFICES ASSUME IInv, SuspicionIsSound, [Next]_vars PROVE SuspicionIsSound'
    OBVIOUS
  <2>1. CASE Evaluate
    <3> SUFFICES ASSUME verdict' = "PICKUP_SUSPECTED" PROVE SuspicionIsSound'
      BY DEF SuspicionIsSound
    <3>1. exit = "PASS" /\ mode = "armed" /\ Complete(file, exit)
      BY <2>1, SuspectPassed DEF IInv
    <3>2. UNCHANGED <<exit, file>>
      BY <2>1 DEF Evaluate
    <3>3. Kept' = Kept /\ Marker' = Marker
      BY <3>2 DEF Kept, Marker
    <3> QED BY <3>1, <3>2, <3>3, SuspectSound DEF IInv, SuspicionIsSound
  <2>2. CASE ~Evaluate /\ Working
    <3>1. verdict' = ""
      BY <2>2, NoVerdict DEF IInv, ResultInv
    <3> QED BY <3>1 DEF SuspicionIsSound
  <2>3. CASE ~Evaluate /\ ~Working
    <3>1. UNCHANGED <<exit, file, verdict>>
      BY <2>3, EndIsTheEnd DEF vars
    <3>2. Kept' = Kept /\ Marker' = Marker
      BY <3>1 DEF Kept, Marker
    <3> QED BY <3>1, <3>2 DEF SuspicionIsSound
  <2> QED BY <2>1, <2>2, <2>3
<1> QED BY <1>1, <1>2, CapturesStayInOrder, PTL DEF Spec

(* An undisturbed capture starts clean.                                    *)
LEMMA CleanStart == ASSUME NumbersLast, Init PROVE CleanInv
<1>1. /\ now = 1 /\ upsets = 0 /\ drops = 0 /\ at = "status" /\ exit = ""
  BY DEF Init
<1>2. PICK first \in {1, Modulus - 2} :
        LET s == [boot |-> 1, seq |-> first, t |-> 1, ok |-> TRUE] IN
        ball = [boot |-> 1, since |-> 0, seq |-> first, ring |-> <<s>>, motion |-> s,
                frozen |-> <<>>, id |-> 0, errors |-> 0, generation |-> 0, healthy |-> TRUE,
                awake |-> TRUE]
  BY DEF Init
<1> DEFINE s == [boot |-> 1, seq |-> first, t |-> 1, ok |-> TRUE]
           r == <<s>>
           e == <<>>
<1>3. /\ ball.boot = 1 /\ ball.since = 0 /\ ball.seq = first /\ ball.ring = r
      /\ ball.motion = s /\ ball.frozen = e /\ ball.errors = 0 /\ ball.generation = 0
      /\ ball.healthy /\ ball.awake
  BY <1>2
<1>4. Rounds
  <2>1. 1 \in 1 .. MaxTime /\ first \in 0 .. Modulus - 1
    BY Sizes DEF NumbersLast
  <2> QED BY <1>1, <1>3, <2>1 DEF Rounds
<1>5. CalmBall
  BY <1>3 DEF CalmBall
<1>6. Undisturbed => CleanBall
  <2> SUFFICES ASSUME first = 1 PROVE CleanBall
    BY <1>1, <1>3 DEF Undisturbed
  <2> DEFINE N == Numbered(1)
  <2>1. s \in N
    <3>1. s = [boot |-> 1, seq |-> 1, t |-> 1, ok |-> TRUE]
      OBVIOUS
    <3>2. 1 \in 1 .. 1 /\ 1 \in Nat /\ 1 \in Int
      OBVIOUS
    <3> QED BY <3>1, <3>2 DEF Numbered, Sample
  <2>2. s.t = 1
    OBVIOUS
  <2> HIDE DEF N, s
  <2>3. r \in Seq(N) /\ Len(r) = 1 /\ r[1] = s /\ r # <<>> /\ e \in Seq(N)
    BY <2>1
  <2> HIDE DEF r, e
  <2>4. ball.ring \in Seq(Numbered(now)) /\ ball.frozen \in Seq(Numbered(now))
    BY <1>1, <1>3, <2>3 DEF N
  <2>5. FromTheFirst(ball.ring) /\ ball.motion = ball.ring[Len(ball.ring)]
    BY <1>3, <2>2, <2>3 DEF FromTheFirst
  <2> QED BY <2>4, <2>5 DEF CleanBall
<1>7. CleanHost
  BY <1>1 DEF CleanHost, CleanTimes, CleanHistory, CleanSamples
<1>8. HealthyPasses
  BY <1>1 DEF HealthyPasses
<1> QED BY <1>4, <1>5, <1>6, <1>7, <1>8 DEF CleanInv

(* A frozen or armed capture that nothing disturbs passes, unless it is    *)
(* killed or the controller does not answer: what the tool and the session *)
(* check never turns down a Ball that did nothing wrong.                   *)
THEOREM UndisturbedPasses == ASSUME NumbersLast PROVE Spec => []HealthyPasses
<1>1. Init => CleanInv
  BY CleanStart
<1>2. IInv /\ CleanInv /\ [Next]_vars => CleanInv'
  BY CleanInvStep
<1>3. CleanInv => HealthyPasses
  BY DEF CleanInv
<1> QED BY <1>1, <1>2, <1>3, CapturesStayInOrder, PTL DEF Spec

=============================================================================

----------------------- MODULE EndpointCandidateProofs -----------------------
(***************************************************************************)
(* What the operators of EndpointCandidates compute, for sequences of any  *)
(* length.  The library's induction theorems take a predicate as operator, *)
(* which the provers cannot instantiate; here a predicate is the set of    *)
(* the numbers that satisfy it, and a fold is the function of its          *)
(* intermediate results.                                                   *)
(***************************************************************************)
EXTENDS EndpointCandidates, FiniteSetTheorems, SequenceTheorems,
        WellFoundedInduction, TLAPS

-----------------------------------------------------------------------------
(* Induction *)

(* A set of naturals has a least element. *)
LEMMA Least ==
  ASSUME NEW T \in SUBSET Nat, T # {}
  PROVE  \E n \in T : \A m \in T : n <= m
<1> DEFINE R == {ss \in Nat \X Nat : ss[1] < ss[2]}
<1>1. IsWellFoundedOn(R, Nat)
  BY NatLessThanWellFounded DEF OpToRel
<1>2. PICK n \in T : \A m \in T : <<m, n>> \notin R
  BY Zenon, <1>1, WFMin
<1>3. ASSUME NEW m \in T PROVE n <= m
  <2>1. m \in Nat /\ n \in Nat /\ <<m, n>> \notin R
    BY <1>2
  <2>2. ~(m < n)
    BY <2>1
  <2>3. QED
    BY <2>1, <2>2
<1>4. QED
  BY <1>3

LEMMA MinimumIsLeast ==
  ASSUME NEW T \in SUBSET Nat, T # {}
  PROVE  Minimum(T) \in T /\ \A m \in T : Minimum(T) <= m
BY Zenon, Least DEF Minimum

(* Induction up to m. *)
LEMMA Induct ==
  ASSUME NEW m \in Nat, NEW S, 0 \in S, \A n \in 0..(m - 1) : n \in S => n + 1 \in S
  PROVE  \A n \in 0..m : n \in S
<1>1. SUFFICES ASSUME (0..m) \ S # {} PROVE FALSE
  OBVIOUS
<1>2. PICK n \in (0..m) \ S : \A k \in (0..m) \ S : n <= k
  <2>1. (0..m) \ S \in SUBSET Nat
    OBVIOUS
  <2>2. QED
    BY Zenon, <1>1, <2>1, Least
<1>3. n # 0 /\ n - 1 \in 0..(m - 1) /\ n - 1 \in S
  BY <1>2
<1>4. QED
  BY <1>2, <1>3

(* The intermediate results of a fold: from c, step is applied for 1..m.   *)
IsFold(g, c, m, step) ==
  /\ g = [i \in 0..m |-> g[i]]
  /\ g[0] = c
  /\ \A i \in 1..m : g[i] = step[<<g[i - 1], i>>]

LEMMA FoldExists ==
  ASSUME NEW m \in Nat, NEW c, NEW step
  PROVE  \E g : IsFold(g, c, m, step)
<1> DEFINE S == {n \in 0..m : \E g : IsFold(g, c, n, step)}
<1>1. 0 \in S
  <2> DEFINE h == [i \in 0..0 |-> c]
  <2>1. IsFold(h, c, 0, step)
    BY DEF IsFold
  <2>2. QED
    BY <2>1
<1>2. ASSUME NEW n \in 0..(m - 1), n \in S PROVE n + 1 \in S
  <2>1. PICK g : IsFold(g, c, n, step)
    BY <1>2
  <2> DEFINE h == [i \in 0..(n + 1) |-> IF i = n + 1 THEN step[<<g[n], n + 1>>] ELSE g[i]]
  <2>2. h = [i \in 0..(n + 1) |-> h[i]] /\ h[0] = c
    BY <2>1 DEF IsFold
  <2>3. ASSUME NEW i \in 1..(n + 1) PROVE h[i] = step[<<h[i - 1], i>>]
    <3>1. i - 1 \in 0..n /\ h[i - 1] = g[i - 1]
      OBVIOUS
    <3>2. CASE i = n + 1
      <4>1. h[i] = step[<<g[n], n + 1>>] /\ i - 1 = n
        BY <3>2
      <4>2. QED
        BY Zenon, <3>1, <3>2, <4>1
    <3>3. CASE i # n + 1
      <4>1. i \in 1..n /\ h[i] = g[i]
        BY <3>3
      <4>2. g[i] = step[<<g[i - 1], i>>]
        BY Zenon, <2>1, <4>1 DEF IsFold
      <4>3. QED
        BY Zenon, <3>1, <4>1, <4>2
    <3>4. QED
      BY <3>2, <3>3
  <2>4. IsFold(h, c, n + 1, step)
    BY Zenon, <2>2, <2>3 DEF IsFold
  <2> HIDE DEF h
  <2>5. QED
    BY <2>4
<1> HIDE DEF S
<1>3. \A n \in 0..m : n \in S
  BY <1>1, <1>2, Induct
<1>4. QED
  BY <1>3 DEF S

-----------------------------------------------------------------------------
(* Picking positions of a sequence *)

LEMMA EmptyRange ==
  ASSUME NEW S, NEW s \in Seq(S)
  PROVE  s = <<>> <=> Range(s) = {}
<1>1. s = <<>> <=> DOMAIN s = {}
  OBVIOUS
<1>2. \A k \in DOMAIN s : s[k] \in Range(s)
  BY DEF Range
<1>3. DOMAIN s = {} => Range(s) = {}
  BY DEF Range
<1>4. QED
  BY <1>1, <1>2, <1>3

Rank(I, i) == Cardinality({j \in I : j <= i})

(* The positions of I, counted from 1: f[n] is the n-th of them.           *)
Counts(f, I) ==
  /\ f \in [1..Cardinality(I) -> I]
  /\ \A n \in 1..Cardinality(I) : Rank(I, f[n]) = n
  /\ \A i \in I : Rank(I, i) \in 1..Cardinality(I) /\ f[Rank(I, i)] = i
  /\ \A m, n \in 1..Cardinality(I) : m < n <=> f[m] < f[n]

LEMMA Counting ==
  ASSUME NEW k \in Nat, NEW I \in SUBSET (1..k)
  PROVE  /\ IsFiniteSet(I) /\ Cardinality(I) \in Nat
         /\ Counts([n \in 1..Cardinality(I) |-> CHOOSE i \in I : Rank(I, i) = n], I)
<1>0. \A i \in I : i \in Nat
  OBVIOUS
<1>1. IsFiniteSet(1..k)
  BY FS_Interval
<1>2. IsFiniteSet(I) /\ Cardinality(I) \in Nat
  BY Zenon, <1>1, FS_Subset, FS_CardinalityType
<1>3. ASSUME NEW i \in I
      PROVE  /\ IsFiniteSet({j \in I : j <= i})
             /\ Rank(I, i) \in 1..Cardinality(I)
  <2>1. {j \in I : j <= i} \in SUBSET I
    OBVIOUS
  <2>2. PICK T \in SUBSET I : T = {j \in I : j <= i}
    BY Zenon, <2>1
  <2>3. IsFiniteSet(T) /\ Cardinality(T) <= Cardinality(I) /\ Cardinality(T) \in Nat
    BY Zenon, <1>2, FS_Subset, FS_CardinalityType
  <2>4. Cardinality(T) # 0
    <3>1. i \in T
      BY <2>2
    <3>2. QED
      BY <2>3, <3>1, FS_EmptySet
  <2>5. QED
    BY <1>2, <2>2, <2>3, <2>4 DEF Rank
<1>r. \A i \in I : Rank(I, i) \in 1..Cardinality(I) /\ Rank(I, i) \in Nat
  <2>1. \A i \in I : Rank(I, i) \in 1..Cardinality(I)
    BY Zenon, <1>3
  <2>2. QED
    BY <1>2, <2>1
<1>4. ASSUME NEW i \in I, NEW l \in I, i < l PROVE Rank(I, i) < Rank(I, l)
  <2>1. PICK T : T = {j \in I : j <= l}
    BY Zenon
  <2>0. {j \in I : j <= i} \in SUBSET {j \in I : j <= l}
    <3>1. \A j \in I : j <= i => j <= l
      BY <1>0, <1>4
    <3>2. QED
      BY Zenon, <3>1
  <2>2. PICK U \in SUBSET T : U = {j \in I : j <= i}
    BY Zenon, <2>0, <2>1
  <2>3. IsFiniteSet(T) /\ l \in T /\ l \notin U
    BY <1>0, <1>3, <1>4, <2>1, <2>2
  <2>4. Cardinality(U) <= Cardinality(T) /\ Cardinality(T) # Cardinality(U)
    BY Zenon, <2>3, FS_Subset
  <2>5. Cardinality(U) \in Nat /\ Cardinality(T) \in Nat
    BY <1>r, <2>1, <2>2 DEF Rank
  <2>6. QED
    BY <2>1, <2>2, <2>4, <2>5 DEF Rank
<1>l. \A i, l \in I : Rank(I, i) = Rank(I, l) => i = l
  <2> SUFFICES ASSUME NEW i \in I, NEW l \in I, i # l PROVE Rank(I, i) # Rank(I, l)
    OBVIOUS
  <2>1. i < l \/ l < i
    BY <1>0
  <2>2. Rank(I, i) \in Nat /\ Rank(I, l) \in Nat
    BY <1>r
  <2>3. QED
    BY <1>4, <2>1, <2>2
<1>5. PICK r : r = [i \in I |-> Rank(I, i)]
  BY Zenon
<1>6. r \in Injection(I, 1..Cardinality(I))
  BY <1>5, <1>l, <1>r DEF Injection, IsInjective
<1>7. r \in Surjection(I, 1..Cardinality(I))
  <2>1. PICK T : T = 1..Cardinality(I)
    OBVIOUS
  <2>2. IsFiniteSet(T) /\ Cardinality(T) = Cardinality(I)
    BY <1>2, <2>1, FS_Interval
  <2>3. r \in Injection(I, T)
    BY <1>6, <2>1
  <2>4. r \in Surjection(I, T)
    BY <2>2, <2>3, FS_Injection
  <2>5. QED
    BY <2>1, <2>4
<1>8. \A n \in 1..Cardinality(I) : \E i \in I : Rank(I, i) = n
  BY <1>5, <1>7 DEF Surjection
<1>9. PICK f : f = [n \in 1..Cardinality(I) |-> CHOOSE i \in I : Rank(I, i) = n]
  BY Zenon
<1>10. \A n \in 1..Cardinality(I) : f[n] \in I /\ Rank(I, f[n]) = n
  BY <1>8, <1>9
<1>12. \A m, n \in 1..Cardinality(I) : m < n <=> f[m] < f[n]
  <2> SUFFICES ASSUME NEW m \in 1..Cardinality(I), NEW n \in 1..Cardinality(I)
               PROVE  m < n <=> f[m] < f[n]
    OBVIOUS
  <2>1. m \in Nat /\ n \in Nat
    BY <1>2
  <2>a. f[m] \in Nat /\ f[n] \in Nat
    BY Zenon, <1>0, <1>10
  <2>2. f[m] < f[n] => m < n
    BY Zenon, <1>4, <1>10
  <2>3. f[n] < f[m] => n < m
    BY Zenon, <1>4, <1>10
  <2>4. f[m] = f[n] => m = n
    BY <1>10
  <2>5. QED
    BY <2>1, <2>a, <2>2, <2>3, <2>4
<1>13. Counts(f, I)
  BY <1>r, <1>9, <1>10, <1>l, <1>12 DEF Counts
<1>14. QED
  BY <1>2, <1>9, <1>13

(* Pick keeps the elements at the positions in I, in their order.          *)
LEMMA Picked ==
  ASSUME NEW S, NEW s \in Seq(S), NEW I \in SUBSET DOMAIN s
  PROVE  \E f : /\ Counts(f, I)
                /\ IsFiniteSet(I) /\ Cardinality(I) \in Nat
                /\ Pick(s, I) = [n \in 1..Cardinality(I) |-> s[f[n]]]
                /\ Pick(s, I) \in Seq(S) /\ Len(Pick(s, I)) = Cardinality(I)
<1>1. Len(s) \in Nat /\ I \in SUBSET (1..Len(s)) /\ \A i \in DOMAIN s : s[i] \in S
  OBVIOUS
<1>2. PICK f : f = [n \in 1..Cardinality(I) |-> CHOOSE i \in I : Rank(I, i) = n]
  BY Zenon
<1>3. IsFiniteSet(I) /\ Cardinality(I) \in Nat /\ Counts(f, I)
  BY Zenon, <1>1, <1>2, Counting
<1>4. Pick(s, I) = [n \in 1..Cardinality(I) |-> s[f[n]]]
  BY <1>2 DEF Pick, Rank
<1>5. \A n \in 1..Cardinality(I) : s[f[n]] \in S
  BY <1>1, <1>3 DEF Counts
<1>6. Pick(s, I) \in Seq(S) /\ Len(Pick(s, I)) = Cardinality(I)
  BY <1>3, <1>4, <1>5
<1>7. QED
  BY Zenon, <1>3, <1>4, <1>6

(* What is picked, and that it has no duplicates if s has none in I.       *)
LEMMA PickedElements ==
  ASSUME NEW S, NEW s \in Seq(S), NEW I \in SUBSET DOMAIN s
  PROVE  /\ Pick(s, I) \in Seq(S)
         /\ Range(Pick(s, I)) = {s[i] : i \in I}
         /\ (\A i, j \in I : s[i] = s[j] => i = j) => IsInjective(Pick(s, I))
<1>1. PICK f : /\ Counts(f, I) /\ IsFiniteSet(I) /\ Cardinality(I) \in Nat
               /\ Pick(s, I) = [n \in 1..Cardinality(I) |-> s[f[n]]]
               /\ Pick(s, I) \in Seq(S)
  BY Picked
<1>2. Range(Pick(s, I)) \subseteq {s[i] : i \in I}
  BY <1>1 DEF Range, Counts
<1>3. ASSUME NEW i \in I PROVE s[i] \in Range(Pick(s, I))
  BY <1>1 DEF Range, Counts
<1>4. ASSUME \A i, j \in I : s[i] = s[j] => i = j PROVE IsInjective(Pick(s, I))
  BY <1>1, <1>4 DEF IsInjective, Counts
<1>5. QED
  BY <1>1, <1>2, <1>3, <1>4

(* Without duplicates, as many elements as positions.                      *)
LEMMA InjectiveCounts ==
  ASSUME NEW S, NEW s \in Seq(S), IsInjective(s)
  PROVE  IsFiniteSet(Range(s)) /\ Cardinality(Range(s)) = Len(s)
<1>1. PICK n \in Nat : n = Len(s) /\ DOMAIN s = 1..n
  OBVIOUS
<1>2. PICK R : R = Range(s)
  OBVIOUS
<1>3. s \in Bijection(1..n, R)
  BY <1>1, <1>2 DEF Bijection, Injection, Surjection, IsInjective, Range
<1>4. ExistsBijection(1..n, R)
  BY <1>3 DEF ExistsBijection
<1>5. Cardinality(R) = n
  BY <1>4, FS_CountingElements
<1>6. IsFiniteSet(R)
  BY <1>4, FS_NatBijection
<1>7. QED
  BY <1>1, <1>2, <1>5, <1>6

-----------------------------------------------------------------------------
(* Positions and their order *)

(* The positions in I, in their order. *)
Order(I) == [n \in 1..Cardinality(I) |-> CHOOSE i \in I : Rank(I, i) = n]

LEMMA Ordered ==
  ASSUME NEW k \in Nat, NEW I \in SUBSET (1..k)
  PROVE  IsFiniteSet(I) /\ Cardinality(I) \in Nat /\ Counts(Order(I), I)
BY Zenon, Counting DEF Order

LEMMA PickIs ==
  ASSUME NEW s, NEW I
  PROVE  Pick(s, I) = [n \in 1..Cardinality(I) |-> s[Order(I)[n]]]
<1>1. Pick(s, I) = [n \in 1..Cardinality(I) |-> s[CHOOSE i \in I : Rank(I, i) = n]]
  BY DEF Pick, Rank
<1>2. ASSUME NEW n \in 1..Cardinality(I)
      PROVE  Order(I)[n] = CHOOSE i \in I : Rank(I, i) = n
  BY DEF Order
<1>3. QED
  BY Zenon, <1>1, <1>2

(* A strictly increasing enumeration of I is its order. *)
LEMMA OrderUnique ==
  ASSUME NEW k \in Nat, NEW I \in SUBSET (1..k), NEW m \in Nat, NEW f \in [1..m -> I],
         \A i \in I : \E n \in 1..m : f[n] = i,
         \A a, b \in 1..m : a < b => f[a] < f[b]
  PROVE  m = Cardinality(I) /\ f = Order(I)
<1>0. IsFiniteSet(I) /\ Cardinality(I) \in Nat /\ Counts(Order(I), I)
  BY Zenon, Ordered
<1>1. ASSUME NEW a \in 1..m, NEW b \in 1..m PROVE f[a] <= f[b] <=> a <= b
  <2>1. f[a] \in Nat /\ f[b] \in Nat
    <3>1. f[a] \in I /\ f[b] \in I
      OBVIOUS
    <3>2. \A i \in I : i \in Nat
      OBVIOUS
    <3>3. QED
      BY Zenon, <3>1, <3>2
  <2>2. (a < b => f[a] < f[b]) /\ (b < a => f[b] < f[a]) /\ (a = b => f[a] = f[b])
    OBVIOUS
  <2>3. PICK x \in Nat, y \in Nat : x = f[a] /\ y = f[b]
    BY <2>1
  <2>4. x <= y <=> a <= b
    BY <2>2, <2>3
  <2>5. QED
    BY <2>3, <2>4
<1>2. ASSUME NEW n \in 0..m, NEW T, T = {f[a] : a \in 1..n} PROVE Cardinality(T) = n
  <2>1. PICK g : g = [a \in 1..n |-> f[a]]
    BY Zenon
  <2>2. \A a, b \in 1..n : f[a] = f[b] => a = b
    BY <1>1
  <2>3. g \in Bijection(1..n, T)
    BY <1>2, <2>1, <2>2 DEF Bijection, Injection, Surjection, IsInjective
  <2>4. ExistsBijection(1..n, T)
    BY <2>3 DEF ExistsBijection
  <2>5. QED
    BY <2>4, FS_CountingElements
<1>3. m = Cardinality(I)
  <2>1. I = {f[a] : a \in 1..m}
    <3>1. \A a \in 1..m : f[a] \in I
      OBVIOUS
    <3>2. \A i \in I : i \in {f[a] : a \in 1..m}
      OBVIOUS
    <3>3. QED
      BY Zenon, <3>1, <3>2
  <2>2. m \in 0..m
    OBVIOUS
  <2>3. QED
    BY Zenon, <1>2, <2>1, <2>2
<1>4. ASSUME NEW n \in 1..m PROVE Rank(I, f[n]) = n
  <2>1. {j \in I : j <= f[n]} = {f[a] : a \in 1..n}
    <3>1. ASSUME NEW j \in I, j <= f[n] PROVE j \in {f[a] : a \in 1..n}
      <4>1. PICK a \in 1..m : f[a] = j
        OBVIOUS
      <4>2. a <= n
        BY <1>1, <3>1, <4>1
      <4>3. QED
        BY <4>1, <4>2
    <3>2. ASSUME NEW a \in 1..n PROVE f[a] \in I /\ f[a] <= f[n]
      BY <1>1
    <3>3. QED
      BY Zenon, <3>1, <3>2
  <2>2. QED
    BY <1>2, <2>1 DEF Rank
<1>5. ASSUME NEW n \in 1..m PROVE f[n] = Order(I)[n]
  BY Zenon, <1>0, <1>4 DEF Counts
<1>6. DOMAIN Order(I) = 1..m
  BY <1>3 DEF Order
<1>7. Order(I) \in [1..m -> I]
  BY <1>0, <1>3 DEF Counts
<1>8. QED
  BY <1>3, <1>5, <1>7

(* The order of a subset is the order of the set, less what is left out. *)
LEMMA PickPicked ==
  ASSUME NEW S, NEW s \in Seq(S), NEW I \in SUBSET DOMAIN s, NEW K \in SUBSET I
  PROVE  Pick(Pick(s, I), {j \in 1..Cardinality(I) : Order(I)[j] \in K}) = Pick(s, K)
<1>0. PICK k \in Nat : k = Len(s) /\ DOMAIN s = 1..k
  OBVIOUS
<1>1. IsFiniteSet(I) /\ Cardinality(I) \in Nat /\ Counts(Order(I), I)
  BY Zenon, <1>0, Ordered
<1>2. PICK o : o = Order(I)
  OBVIOUS
<1>3. PICK J \in SUBSET (1..Cardinality(I)) : J = {j \in 1..Cardinality(I) : o[j] \in K}
  BY Zenon
<1>4. IsFiniteSet(J) /\ Cardinality(J) \in Nat /\ Counts(Order(J), J)
  BY Zenon, <1>1, Ordered
<1>5. PICK p : p = Order(J)
  OBVIOUS
<1>6. PICK f : f = [n \in 1..Cardinality(J) |-> o[p[n]]]
  BY Zenon
<1>7. f \in [1..Cardinality(J) -> K]
  BY Zenon, <1>3, <1>4, <1>5, <1>6 DEF Counts
<1>8. ASSUME NEW i \in K PROVE \E n \in 1..Cardinality(J) : f[n] = i
  <2>1. Rank(I, i) \in 1..Cardinality(I) /\ o[Rank(I, i)] = i
    BY <1>1, <1>2 DEF Counts
  <2>2. PICK r : r = Rank(I, i)
    OBVIOUS
  <2>3. r \in J
    BY <1>3, <2>1, <2>2
  <2>4. Rank(J, r) \in 1..Cardinality(J) /\ p[Rank(J, r)] = r
    BY <1>4, <1>5, <2>3 DEF Counts
  <2>5. QED
    BY <1>6, <2>1, <2>2, <2>4
<1>9. ASSUME NEW a \in 1..Cardinality(J), NEW b \in 1..Cardinality(J), a < b PROVE f[a] < f[b]
  <2>1. p[a] \in J /\ p[b] \in J /\ p[a] < p[b]
    BY <1>4, <1>5, <1>9 DEF Counts
  <2>2. o[p[a]] < o[p[b]]
    BY <1>1, <1>2, <1>3, <2>1 DEF Counts
  <2>3. QED
    BY <1>6, <2>2
<1>10. Cardinality(J) = Cardinality(K) /\ f = Order(K)
  <2>1. K \in SUBSET (1..k)
    BY <1>0
  <2>2. PICK m \in Nat : m = Cardinality(J)
    BY <1>4
  <2>3. f \in [1..m -> K] /\ (\A i \in K : \E n \in 1..m : f[n] = i)
        /\ \A a, b \in 1..m : a < b => f[a] < f[b]
    BY <1>7, <1>8, <1>9, <2>2
  <2>4. m = Cardinality(K) /\ f = Order(K)
    BY Zenon, <2>1, <2>3, OrderUnique
  <2>5. QED
    BY <2>2, <2>4
<1>11. PICK t : t = Pick(s, I)
  OBVIOUS
<1>12. t = [n \in 1..Cardinality(I) |-> s[o[n]]]
  BY <1>2, <1>11, PickIs
<1>13. Pick(t, J) = [n \in 1..Cardinality(J) |-> t[p[n]]]
  BY <1>5, PickIs
<1>14. Pick(s, K) = [n \in 1..Cardinality(J) |-> s[f[n]]]
  BY <1>10, PickIs
<1>15. ASSUME NEW n \in 1..Cardinality(J) PROVE t[p[n]] = s[f[n]]
  <2>1. p[n] \in 1..Cardinality(I)
    BY <1>3, <1>4, <1>5 DEF Counts
  <2>2. QED
    BY <1>6, <1>12, <2>1
<1>16. Pick(t, J) = Pick(s, K)
  BY <1>13, <1>14, <1>15
<1>17. QED
  BY <1>2, <1>3, <1>11, <1>16

(* The first n positions of I. *)
Leading(n, I) == {i \in I : Rank(I, i) <= n}

LEMMA Initial ==
  ASSUME NEW k \in Nat, NEW I \in SUBSET (1..k), NEW n \in Nat
  PROVE  /\ Cardinality(Leading(n, I)) = IF n < Cardinality(I) THEN n ELSE Cardinality(I)
         /\ \A i \in Leading(n, I) : Rank(Leading(n, I), i) = Rank(I, i)
<1>14. PICK K : K = {i \in I : Rank(I, i) <= n} /\ K = Leading(n, I)
  BY Zenon DEF Leading
<1>1. IsFiniteSet(I) /\ Cardinality(I) \in Nat /\ Counts(Order(I), I)
  BY Ordered
<1>15. PICK o : o = Order(I)
  OBVIOUS
<1>2. PICK c \in Nat : c = Cardinality(I)
  BY <1>1
<1>3. PICK m \in Nat : m = IF n < c THEN n ELSE c
  OBVIOUS
<1>4. PICK f : f = [j \in 1..m |-> o[j]]
  BY Zenon
<1>5. \A j \in 1..m : j \in 1..c /\ j <= n
  BY <1>3
<1>6. f \in [1..m -> K]
  BY <1>1, <1>2, <1>15, <1>4, <1>5, <1>14 DEF Counts
<1>7. ASSUME NEW i \in K PROVE Rank(I, i) \in 1..m /\ f[Rank(I, i)] = i
  <2>1. Rank(I, i) \in 1..c /\ o[Rank(I, i)] = i /\ Rank(I, i) <= n
    BY <1>1, <1>2, <1>15, <1>14 DEF Counts
  <2>2. PICK r \in 1..c : r = Rank(I, i)
    BY <2>1
  <2>3. r \in 1..m
    BY <1>3, <2>1, <2>2
  <2>4. QED
    BY <1>4, <2>1, <2>2, <2>3
<1>8. \A a, b \in 1..m : a < b => f[a] < f[b]
  BY <1>1, <1>2, <1>15, <1>4, <1>5 DEF Counts
<1>9. K \in SUBSET (1..k)
  BY Zenon, <1>14
<1>10. m = Cardinality(K) /\ f = Order(K)
  <2>1. \A i \in K : \E j \in 1..m : f[j] = i
    BY <1>7
  <2>2. QED
    BY Zenon, <1>6, <1>8, <1>9, <2>1, OrderUnique
<1>11. Counts(f, K)
  BY Zenon, <1>9, <1>10, Ordered
<1>12. ASSUME NEW i \in K PROVE Rank(K, i) = Rank(I, i)
  BY <1>7, <1>10, <1>11 DEF Counts
<1>13. QED
  BY Zenon, <1>2, <1>15, <1>3, <1>10, <1>12, <1>14

LEMMA TakePicked ==
  ASSUME NEW S, NEW s \in Seq(S), NEW n \in Nat
  PROVE  Take(s, n) = Pick(s, {i \in DOMAIN s : i <= n})
<1>1. PICK k \in Nat : k = Len(s) /\ DOMAIN s = 1..k
  OBVIOUS
<1>2. PICK m \in Nat : m = IF n < k THEN n ELSE k
  OBVIOUS
<1>3. PICK I : I = {i \in DOMAIN s : i <= n}
  BY Zenon
<1>4. I = 1..m /\ I \in SUBSET (1..k)
  BY <1>1, <1>2, <1>3
<1>5. PICK f : f = [i \in 1..m |-> i]
  BY Zenon
<1>6. f \in [1..m -> I] /\ (\A i \in I : \E j \in 1..m : f[j] = i)
      /\ \A a, b \in 1..m : a < b => f[a] < f[b]
  BY <1>4, <1>5
<1>7. m = Cardinality(I) /\ f = Order(I)
  BY Zenon, <1>4, <1>6, OrderUnique
<1>8. Pick(s, I) = [i \in 1..m |-> s[f[i]]]
  BY <1>7, PickIs
<1>9. Take(s, n) = SubSeq(s, 1, m)
  BY <1>1, <1>2 DEF Take
<1>10. SubSeq(s, 1, m) = [i \in 1..m |-> s[i]]
  BY <1>1, <1>2
<1>11. QED
  BY Zenon, <1>3, <1>5, <1>8, <1>9, <1>10

LEMMA TakeOfPicked ==
  ASSUME NEW S, NEW s \in Seq(S), NEW I \in SUBSET DOMAIN s, NEW n \in Nat
  PROVE  Take(Pick(s, I), n) = Pick(s, {i \in I : Rank(I, i) <= n})
<1>1. PICK t \in Seq(S) : t = Pick(s, I) /\ Len(t) = Cardinality(I)
  BY Picked
<1>2. Counts(Order(I), I)
  <2>1. I \in SUBSET (1..Len(s)) /\ Len(s) \in Nat
    OBVIOUS
  <2>2. QED
    BY Zenon, <2>1, Ordered
<1>3. DOMAIN t = 1..Cardinality(I)
  BY <1>1
<1>4. PICK K \in SUBSET I : K = {i \in I : Rank(I, i) <= n}
  BY Zenon
<1>5. {j \in DOMAIN t : j <= n} = {j \in 1..Cardinality(I) : Order(I)[j] \in K}
  BY <1>2, <1>3, <1>4 DEF Counts
<1>6. Take(t, n) = Pick(t, {j \in DOMAIN t : j <= n})
  BY TakePicked
<1>7. Pick(Pick(s, I), {j \in 1..Cardinality(I) : Order(I)[j] \in K}) = Pick(s, K)
  BY PickPicked
<1>8. QED
  BY Zenon, <1>1, <1>4, <1>5, <1>6, <1>7

LEMMA PickSame ==
  ASSUME NEW k \in Nat, NEW I \in SUBSET (1..k), NEW s, NEW t, \A i \in I : s[i] = t[i]
  PROVE  Pick(s, I) = Pick(t, I)
<1>1. Counts(Order(I), I)
  BY Ordered
<1>2. \A n \in 1..Cardinality(I) : s[Order(I)[n]] = t[Order(I)[n]]
  BY Zenon, <1>1 DEF Counts
<1>3. QED
  BY Zenon, <1>2, PickIs

(* A position behind all of I comes last. *)
LEMMA PickAppend ==
  ASSUME NEW S, NEW s \in Seq(S), NEW I \in SUBSET DOMAIN s, NEW x \in DOMAIN s,
         \A i \in I : i < x
  PROVE  Pick(s, I \cup {x}) = Append(Pick(s, I), s[x])
<1>1. PICK k \in Nat : k = Len(s) /\ DOMAIN s = 1..k
  OBVIOUS
<1>2. IsFiniteSet(I) /\ Cardinality(I) \in Nat /\ Counts(Order(I), I)
  BY Zenon, <1>1, Ordered
<1>20. PICK o : o = Order(I)
  OBVIOUS
<1>3. PICK m \in Nat : m = Cardinality(I)
  BY <1>2
<1>4. PICK K \in SUBSET (1..k) : K = I \cup {x}
  BY Zenon, <1>1
<1>5. PICK f : f = [j \in 1..(m + 1) |-> IF j = m + 1 THEN x ELSE o[j]]
  BY Zenon
<1>6. \A j \in 1..m : j # m + 1 /\ j \in 1..(m + 1) /\ o[j] \in I
  BY <1>2, <1>3, <1>20 DEF Counts
<1>7. \A j \in 1..(m + 1) : j \in 1..m \/ j = m + 1
  OBVIOUS
<1>8. m + 1 \in 1..(m + 1) /\ m + 1 \in Nat
  OBVIOUS
<1>9. f \in [1..(m + 1) -> K] /\ f[m + 1] = x /\ \A j \in 1..m : f[j] = o[j]
  BY <1>4, <1>5, <1>6, <1>7, <1>8
<1>10. \A i \in K : \E j \in 1..(m + 1) : f[j] = i
  <2>1. f[m + 1] = x /\ m + 1 \in 1..(m + 1)
    BY <1>8, <1>9
  <2>2. ASSUME NEW i \in I PROVE \E j \in 1..(m + 1) : f[j] = i
    <3>1. Rank(I, i) \in 1..m /\ o[Rank(I, i)] = i
      BY <1>2, <1>3, <1>20 DEF Counts
    <3>2. QED
      BY <1>6, <1>9, <3>1
  <2>3. QED
    BY <1>4, <2>1, <2>2
<1>11. ASSUME NEW a \in 1..(m + 1), NEW b \in 1..(m + 1), a < b PROVE f[a] < f[b]
  <2>1. a \in 1..m
    BY <1>11
  <2>2. CASE b \in 1..m
    BY <1>2, <1>3, <1>20, <1>9, <1>11, <2>1, <2>2 DEF Counts
  <2>3. CASE b = m + 1
    BY <1>6, <1>9, <2>1, <2>3
  <2>4. QED
    BY <1>7, <2>2, <2>3
<1>12. m + 1 = Cardinality(K) /\ f = Order(K)
  BY Zenon, <1>8, <1>9, <1>10, <1>11, OrderUnique
<1>13. Pick(s, K) = [j \in 1..(m + 1) |-> s[f[j]]]
  BY <1>12, PickIs
<1>14. PICK t \in Seq(S) : t = Pick(s, I) /\ Len(t) = m
  BY <1>3, <1>20, Picked
<1>15. \A j \in 1..m : t[j] = s[o[j]]
  BY <1>3, <1>20, <1>14, PickIs
<1>16. PICK e \in S : e = s[x]
  OBVIOUS
<1>17. Append(t, e) = [j \in 1..(m + 1) |-> IF j = m + 1 THEN e ELSE t[j]]
  <2>1. Append(t, e) \in Seq(S) /\ Len(Append(t, e)) = m + 1
    BY <1>14
  <2>2. PICK u \in Seq(S) : u = Append(t, e) /\ Len(u) = m + 1
    BY Zenon, <2>1
  <2>3. u = [j \in 1..(m + 1) |-> u[j]]
    <3>1. u = [j \in 1..Len(u) |-> u[j]]
      OBVIOUS
    <3>2. QED
      BY <2>2, <3>1
  <2>4. \A j \in 1..(m + 1) : u[j] = IF j = m + 1 THEN e ELSE t[j]
    BY <1>14, <2>2
  <2>5. QED
    BY Zenon, <2>2, <2>3, <2>4
<1>18. ASSUME NEW j \in 1..(m + 1) PROVE s[f[j]] = IF j = m + 1 THEN e ELSE t[j]
  BY <1>5, <1>7, <1>9, <1>15, <1>16
<1>19. QED
  BY Zenon, <1>4, <1>13, <1>14, <1>16, <1>17, <1>18

(* As many values as positions where the values differ. *)
LEMMA ImageCount ==
  ASSUME NEW k \in Nat, NEW I \in SUBSET (1..k), NEW T, NEW f \in [I -> T],
         \A i, j \in I : f[i] = f[j] => i = j,
         \A x \in T : \E i \in I : f[i] = x
  PROVE  IsFiniteSet(T) /\ Cardinality(T) = Cardinality(I)
<1>1. IsFiniteSet(I)
  BY Zenon, Ordered
<1>2. f \in Bijection(I, T)
  BY DEF Bijection, Injection, Surjection, IsInjective
<1>3. QED
  BY <1>1, <1>2, FS_Bijection DEF ExistsBijection

LEMMA RankBefore ==
  ASSUME NEW k \in Nat, NEW I \in SUBSET (1..k), NEW i \in I
  PROVE  Cardinality({j \in I : j < i}) = Rank(I, i) - 1
<1>1. IsFiniteSet(I)
  BY Zenon, Ordered
<1>2. PICK T \in SUBSET I : T = {j \in I : j < i}
  BY Zenon
<1>3. IsFiniteSet(T) /\ i \notin T /\ Cardinality(T) \in Nat
  <2>1. i \notin T
    BY <1>2
  <2>2. QED
    BY Zenon, <1>1, <2>1, FS_Subset, FS_CardinalityType
<1>4. {j \in I : j <= i} = T \cup {i}
  <2>1. \A j \in I : j \in Nat
    OBVIOUS
  <2>2. \A j \in I : j <= i <=> j < i \/ j = i
    BY <2>1
  <2>3. QED
    BY Zenon, <1>2, <2>2
<1>5. Cardinality(T \cup {i}) = Cardinality(T) + 1
  BY Zenon, <1>3, FS_AddElement
<1>6. QED
  BY <1>2, <1>3, <1>4, <1>5 DEF Rank

LEMMA PickNone ==
  ASSUME NEW s
  PROVE  Pick(s, {}) = <<>>
<1>1. Cardinality({}) = 0
  BY FS_EmptySet
<1>2. Pick(s, {}) = [n \in 1..0 |-> s[Order({})[n]]]
  BY <1>1, PickIs
<1>3. QED
  BY <1>2

-----------------------------------------------------------------------------
(* Grouping *)

(* The candidates that are grouped, their keys and items. *)
Listing(cs) == {k \in DOMAIN cs : Groupable(cs[k])}
Key(cs, k) == effective_chain_key(cs[k])
Items(cs) == [k \in DOMAIN cs |-> Item(cs[k])]

(* Among the first n: those of the chain of k, and the first of each chain. *)
Alike(cs, n, k) == {j \in Listing(cs) : j <= n /\ Key(cs, j) = Key(cs, k)}
Heads(cs, n) ==
  {k \in Listing(cs) : k <= n /\ \A j \in Listing(cs) : j < k => Key(cs, j) # Key(cs, k)}

GroupAt(cs, n) ==
  [k \in DOMAIN cs |-> [chain |-> Key(cs, k), items |-> Pick(Items(cs), Alike(cs, n, k))]]
GroupsTo(cs, n) == Pick(GroupAt(cs, n), Heads(cs, n))

(* Every chain has a head. *)
LEMMA HeadOf ==
  ASSUME NEW C, NEW cs \in Seq(C), NEW j \in Listing(cs)
  PROVE  \E k \in Heads(cs, j) : Key(cs, k) = Key(cs, j)
<1>0. \A i \in Listing(cs) : i \in Nat
  BY DEF Listing
<1>1. PICK T \in SUBSET Nat : T = {i \in Listing(cs) : Key(cs, i) = Key(cs, j)}
  BY Zenon, <1>0
<1>2. j \in T
  BY <1>1
<1>3. PICK k \in T : \A i \in T : k <= i
  BY <1>2, Least
<1>4. k \in Listing(cs) /\ Key(cs, k) = Key(cs, j) /\ k <= j
  BY <1>1, <1>2, <1>3
<1>5. ASSUME NEW i \in Listing(cs), i < k PROVE Key(cs, i) # Key(cs, k)
  <2>1. i \in Nat /\ k \in Nat
    BY <1>0, <1>4
  <2>2. i \notin T
    BY <1>3, <1>5, <2>1
  <2>3. QED
    BY <1>1, <1>4, <2>2
<1>6. QED
  BY <1>4, <1>5 DEF Heads

(* The types of the places that a list of candidates is grouped by. *)
LEMMA GroupingTypes ==
  ASSUME NEW C, NEW cs \in Seq(C), NEW n \in 0..Len(cs)
  PROVE  /\ Len(cs) \in Nat /\ DOMAIN cs = 1..Len(cs)
         /\ Listing(cs) \in SUBSET (1..Len(cs)) /\ Heads(cs, n) \in SUBSET (1..Len(cs))
         /\ \A k \in DOMAIN cs : Alike(cs, n, k) \in SUBSET (1..Len(cs))
         /\ Items(cs) \in Seq({Item(cs[k]) : k \in DOMAIN cs})
         /\ DOMAIN Items(cs) = 1..Len(cs)
<1>1. Len(cs) \in Nat /\ DOMAIN cs = 1..Len(cs)
  OBVIOUS
<1>2. PICK m \in Nat : m = Len(cs) /\ DOMAIN cs = 1..m
  BY Zenon, <1>1
<1>3. Listing(cs) \in SUBSET (1..m)
  BY <1>2 DEF Listing
<1>4. Heads(cs, n) \in SUBSET (1..m) /\ \A k \in DOMAIN cs : Alike(cs, n, k) \in SUBSET (1..m)
  BY <1>3 DEF Heads, Alike
<1>5. PICK IT : IT = {Item(cs[k]) : k \in DOMAIN cs}
  BY Zenon
<1>6. Items(cs) = [k \in 1..m |-> Item(cs[k])] /\ \A k \in 1..m : Item(cs[k]) \in IT
  BY <1>2, <1>5 DEF Items
<1>7. Items(cs) \in Seq(IT) /\ DOMAIN Items(cs) = 1..m
  BY <1>6
<1>8. QED
  BY Zenon, <1>2, <1>3, <1>4, <1>5, <1>7

(* One more candidate. *)
LEMMA GroupingStep ==
  ASSUME NEW C, NEW cs \in Seq(C), NEW n \in 0..(Len(cs) - 1)
  PROVE  AddToGroups(GroupsTo(cs, n), cs[n + 1]) = GroupsTo(cs, n + 1)
<1>0. n \in Nat /\ n \in 0..Len(cs) /\ n + 1 \in 0..Len(cs) /\ n + 1 \in DOMAIN cs
  OBVIOUS
<1>t. /\ Len(cs) \in Nat /\ DOMAIN cs = 1..Len(cs)
      /\ Listing(cs) \in SUBSET (1..Len(cs)) /\ Heads(cs, n) \in SUBSET (1..Len(cs))
      /\ \A k \in DOMAIN cs : Alike(cs, n, k) \in SUBSET (1..Len(cs))
      /\ Items(cs) \in Seq({Item(cs[k]) : k \in DOMAIN cs})
      /\ DOMAIN Items(cs) = 1..Len(cs)
  BY Zenon, <1>0, GroupingTypes
<1>m. PICK m \in Nat : m = Len(cs)
  BY Zenon, <1>t
<1>1. PICK x \in 1..m, L \in SUBSET (1..m), h \in SUBSET (1..m) :
        m = Len(cs) /\ x = n + 1 /\ L = Listing(cs) /\ h = Heads(cs, n)
  BY <1>0, <1>t, <1>m
<1>2. PICK key : key = Key(cs, x)
  OBVIOUS
<1>3. PICK G, o : G = GroupsTo(cs, n) /\ o = Order(h)
  OBVIOUS
<1>4. /\ Cardinality(h) \in Nat /\ Counts(o, h)
      /\ G = [i \in 1..Cardinality(h) |-> GroupAt(cs, n)[o[i]]]
  BY Zenon, <1>1, <1>3, Ordered, PickIs DEF GroupsTo
<1>5. ASSUME NEW i \in 1..Cardinality(h)
      PROVE  /\ o[i] \in h
             /\ G[i] = [chain |-> Key(cs, o[i]), items |-> Pick(Items(cs), Alike(cs, n, o[i]))]
  <2>1. o[i] \in h /\ o[i] \in DOMAIN cs
    BY Zenon, <1>1, <1>4, <1>t DEF Counts
  <2>2. QED
    BY Zenon, <1>4, <2>1 DEF GroupAt
<1>6. PICK same : same = {i \in DOMAIN G : G[i].chain = key}
  BY Zenon
<1>7. \A j \in L : j <= n + 1 <=> (j <= n \/ j = x)
  <2>1. \A j \in L : j \in Nat
    OBVIOUS
  <2>2. QED
    BY <1>1, <2>1
<1>8. \A j \in L : j <= n => j < x
  BY <1>1
<1>9. CASE ~Groupable(cs[x])
  <2>1. x \notin L
    BY <1>1, <1>9 DEF Listing
  <2>2. \A j \in L : j <= n + 1 <=> j <= n
    BY <1>7, <2>1
  <2>3. Heads(cs, n + 1) = Heads(cs, n)
    BY <1>1, <2>2 DEF Heads
  <2>4. ASSUME NEW k \in DOMAIN cs PROVE Alike(cs, n + 1, k) = Alike(cs, n, k)
    BY <1>1, <2>2 DEF Alike
  <2>5. GroupAt(cs, n + 1) = GroupAt(cs, n)
    BY <2>4 DEF GroupAt
  <2>6. QED
    BY <1>1, <1>9, <2>3, <2>5 DEF GroupsTo, AddToGroups
<1>10. CASE Groupable(cs[x]) /\ same = {}
  <2>1. x \in L
    BY <1>1, <1>10, <1>t DEF Listing
  <2>2. ASSUME NEW k \in h PROVE Key(cs, k) # key
    <3>1. PICK i \in 1..Cardinality(h) : o[i] = k
      BY <1>4 DEF Counts
    <3>2. i \in DOMAIN G /\ G[i].chain = Key(cs, k)
      BY <1>4, <1>5, <3>1
    <3>3. QED
      BY <1>6, <1>10, <3>2
  <2>3. ASSUME NEW j \in L, j <= n PROVE Key(cs, j) # key
    <3>1. PICK k \in Heads(cs, j) : Key(cs, k) = Key(cs, j)
      BY <1>1, HeadOf
    <3>2. k \in h
      <4>1. k \in L /\ k <= j /\ k \in Nat /\ j \in Nat
        BY <1>1, <3>1 DEF Heads
      <4>2. k <= n
        BY <1>0, <2>3, <4>1
      <4>3. QED
        BY <1>1, <3>1, <4>2 DEF Heads
    <3>3. QED
      BY <2>2, <3>1, <3>2
  <2>4. PICK H \in SUBSET (1..m) : H = h \cup {x} /\ H = Heads(cs, n + 1)
    <3>1. ASSUME NEW k \in Heads(cs, n + 1) PROVE k \in h \cup {x}
      BY <1>1, <1>7 DEF Heads
    <3>2. ASSUME NEW k \in h PROVE k \in Heads(cs, n + 1)
      BY <1>1, <1>7 DEF Heads
    <3>3. x \in Heads(cs, n + 1)
      <4>1. \A j \in L : j < x => j <= n
        BY <1>1
      <4>2. \A j \in L : j < x => Key(cs, j) # Key(cs, x)
        BY <1>2, <2>3, <4>1
      <4>3. QED
        BY <1>1, <1>7, <2>1, <4>2 DEF Heads
    <3>4. QED
      BY Zenon, <3>1, <3>2, <3>3
  <2>5. ASSUME NEW k \in h PROVE Alike(cs, n + 1, k) = Alike(cs, n, k)
    BY <1>1, <1>2, <1>7, <2>2 DEF Alike
  <2>6. Alike(cs, n + 1, x) = {x}
    <3>1. \A j \in Alike(cs, n + 1, x) : j = x
      BY <1>1, <1>2, <1>7, <2>3 DEF Alike
    <3>2. x \in Alike(cs, n + 1, x)
      BY <1>1, <1>7, <2>1 DEF Alike
    <3>3. QED
      BY <3>1, <3>2
  <2>s. PICK r, GS : /\ r = GroupAt(cs, n + 1) /\ GS = {r[k] : k \in 1..m}
                    /\ DOMAIN r = 1..m /\ r = [k \in 1..m |-> r[k]]
    BY Zenon, <1>1, <1>t DEF GroupAt
  <2>7. PICK s \in Seq(GS) : s = GroupAt(cs, n + 1) /\ DOMAIN s = 1..m
    <3>1. \A k \in 1..m : r[k] \in GS
      BY <2>s
    <3>2. r \in Seq(GS)
      BY <2>s, <3>1
    <3>3. QED
      BY Zenon, <2>s, <3>2
  <2>8. Pick(s, h) = G
    <3>1. \A k \in h : s[k] = GroupAt(cs, n)[k]
      BY <1>1, <1>t, <2>5, <2>7 DEF GroupAt
    <3>2. Pick(s, h) = Pick(GroupAt(cs, n), h)
      BY Zenon, <3>1, PickSame
    <3>3. QED
      BY <1>1, <1>3, <3>2 DEF GroupsTo
  <2>9. s[x] = [chain |-> key, items |-> <<Item(cs[x])>>]
    <3>1. s[x] = [chain |-> key, items |-> Pick(Items(cs), {x})]
      BY Zenon, <1>1, <1>2, <1>t, <2>6, <2>7 DEF GroupAt
    <3>2. PICK it \in Seq({Item(cs[i]) : i \in DOMAIN cs}) : it = Items(cs) /\ DOMAIN it = 1..m
      BY Zenon, <1>1, <1>t
    <3>3. Pick(it, {} \cup {x}) = Append(Pick(it, {}), it[x])
      BY Zenon, <3>2, PickAppend
    <3>4. it[x] = Item(cs[x]) /\ {} \cup {x} = {x}
      BY <1>1, <1>t, <3>2 DEF Items
    <3>5. Pick(it, {x}) = <<Item(cs[x])>>
      <4>1. PICK e : e = Item(cs[x])
        OBVIOUS
      <4>2. Append(<<>>, e) = <<e>>
        OBVIOUS
      <4>3. Pick(it, {}) = <<>>
        BY PickNone
      <4>4. QED
        BY Zenon, <3>3, <3>4, <4>1, <4>2, <4>3
    <3>6. QED
      BY <3>1, <3>2, <3>5
  <2>10. Pick(s, h \cup {x}) = Append(Pick(s, h), s[x])
    <3>1. \A k \in h : k < x
      BY <1>1, <1>8 DEF Heads
    <3>2. QED
      BY Zenon, <2>7, <3>1, PickAppend
  <2>11. AddToGroups(G, cs[x]) = Append(G, [chain |-> key, items |-> <<Item(cs[x])>>])
    BY Zenon, <1>2, <1>6, <1>10 DEF AddToGroups, Key
  <2>12. QED
    BY Zenon, <1>1, <1>3, <2>4, <2>7, <2>8, <2>9, <2>10, <2>11 DEF GroupsTo
<1>11. CASE Groupable(cs[x]) /\ same # {}
  <2>1. x \in L
    BY <1>1, <1>11, <1>t DEF Listing
  <2>2. PICK b \in h : Key(cs, b) = key
    <3>1. PICK i \in same : TRUE
      BY <1>11
    <3>2. i \in 1..Cardinality(h) /\ G[i].chain = key
      BY <1>4, <1>6
    <3>3. PICK c, a : o[i] \in h /\ c = Key(cs, o[i]) /\ G[i] = [chain |-> c, items |-> a]
      BY Zenon, <1>5, <3>2
    <3>4. G[i].chain = c
      BY <3>3
    <3>5. QED
      BY Zenon, <3>2, <3>3, <3>4
  <2>3. b < x /\ b \in L
    BY <1>1, <1>8 DEF Heads
  <2>4. Heads(cs, n + 1) = h
    <3>1. ASSUME NEW k \in Heads(cs, n + 1) PROVE k \in h
      <4>1. k # x
        BY <1>1, <1>2, <2>2, <2>3 DEF Heads
      <4>2. QED
        BY <1>1, <1>7, <4>1 DEF Heads
    <3>2. ASSUME NEW k \in h PROVE k \in Heads(cs, n + 1)
      BY <1>1, <1>7 DEF Heads
    <3>3. QED
      BY Zenon, <3>1, <3>2
  <2>5. ASSUME NEW k \in h, Key(cs, k) # key PROVE Alike(cs, n + 1, k) = Alike(cs, n, k)
    BY <1>1, <1>2, <1>7, <2>5 DEF Alike
  <2>6. ASSUME NEW k \in h, Key(cs, k) = key
        PROVE  Pick(Items(cs), Alike(cs, n + 1, k)) = Append(Pick(Items(cs), Alike(cs, n, k)), Item(cs[x]))
    <3>1. PICK A \in SUBSET (1..m) : A = Alike(cs, n, k)
      BY <1>1, <1>t
    <3>2. Alike(cs, n + 1, k) = A \cup {x}
      BY <1>1, <1>2, <1>7, <2>1, <2>6, <3>1 DEF Alike
    <3>3. \A i \in A : i < x
      BY <1>1, <1>8, <3>1 DEF Alike
    <3>4. PICK it \in Seq({Item(cs[i]) : i \in DOMAIN cs}) : it = Items(cs) /\ DOMAIN it = 1..m
      BY Zenon, <1>1, <1>t
    <3>5. Pick(it, A \cup {x}) = Append(Pick(it, A), it[x])
      BY Zenon, <3>3, <3>4, PickAppend
    <3>6. it[x] = Item(cs[x])
      BY <1>1, <1>t, <3>4 DEF Items
    <3>7. QED
      BY Zenon, <3>1, <3>2, <3>4, <3>5, <3>6
  <2>7. PICK s : s = GroupAt(cs, n + 1)
    OBVIOUS
  <2>8. GroupsTo(cs, n + 1) = [i \in 1..Cardinality(h) |-> s[o[i]]]
    BY Zenon, <1>3, <2>4, <2>7, PickIs DEF GroupsTo
  <2>9. ASSUME NEW i \in 1..Cardinality(h)
        PROVE  s[o[i]] = IF i \in same THEN [G[i] EXCEPT !.items = Append(@, Item(cs[x]))]
                                       ELSE G[i]
    <3>1. o[i] \in h /\ o[i] \in DOMAIN cs
      BY Zenon, <1>1, <1>5, <1>t
    <3>2. s[o[i]] = [chain |-> Key(cs, o[i]), items |-> Pick(Items(cs), Alike(cs, n + 1, o[i]))]
      BY <2>7, <3>1 DEF GroupAt
    <3>3. G[i] = [chain |-> Key(cs, o[i]), items |-> Pick(Items(cs), Alike(cs, n, o[i]))]
      BY <1>5
    <3>4. i \in same <=> Key(cs, o[i]) = key
      BY <1>4, <1>6, <3>3
    <3>5. CASE i \in same
      <4>1. PICK c, a, e : /\ c = Key(cs, o[i]) /\ e = Item(cs[x])
                          /\ a = Pick(Items(cs), Alike(cs, n, o[i]))
        OBVIOUS
      <4>2. s[o[i]] = [chain |-> c, items |-> Append(a, e)]
        BY Zenon, <2>6, <3>1, <3>2, <3>4, <3>5, <4>1
      <4>3. G[i] = [chain |-> c, items |-> a]
        BY <3>3, <4>1
      <4>4. [G[i] EXCEPT !.items = Append(@, e)] = [chain |-> c, items |-> Append(a, e)]
        <5>1. PICK g, u : g = G[i] /\ u = Append(g.items, e)
          BY Zenon
        <5>2. g = [chain |-> c, items |-> a]
          BY <4>3, <5>1
        <5>3. [g EXCEPT !.items = u] = [chain |-> c, items |-> u] /\ g.items = a
          BY <5>2
        <5>4. QED
          BY <5>1, <5>3
      <4>5. QED
        BY <3>5, <4>1, <4>2, <4>4
    <3>6. CASE i \notin same
      BY <2>5, <3>1, <3>2, <3>3, <3>4, <3>6
    <3>7. QED
      BY <3>5, <3>6
  <2>10. AddToGroups(G, cs[x]) =
           [i \in DOMAIN G |-> IF i \in same THEN [G[i] EXCEPT !.items = Append(@, Item(cs[x]))]
                                             ELSE G[i]]
    BY <1>2, <1>6, <1>11 DEF AddToGroups, Key
  <2>11. DOMAIN G = 1..Cardinality(h)
    BY <1>4
  <2>12. AddToGroups(G, cs[x]) = [i \in 1..Cardinality(h) |-> s[o[i]]]
    BY Zenon, <2>9, <2>10, <2>11
  <2>13. QED
    BY <1>1, <1>3, <2>8, <2>12
<1>12. QED
  BY <1>9, <1>10, <1>11

(* grouped_endpoint_candidates: the chains in the order of their heads,    *)
(* each with all its candidates in their order.                            *)
LEMMA Grouping ==
  ASSUME NEW C, NEW cs \in Seq(C)
  PROVE  grouped_endpoint_candidates(cs) = GroupsTo(cs, Len(cs))
<1> DEFINE body(f, i) == IF i = 0 THEN <<>> ELSE AddToGroups(f[i - 1], cs[i])
           Q(f) == f = [i \in 0..Len(cs) |-> body(f, i)]
<1>0. PICK m \in Nat : m = Len(cs) /\ DOMAIN cs = 1..m
  OBVIOUS
<1>1. GroupsTo(cs, 0) = <<>>
  <2>1. Heads(cs, 0) = {}
    <3>1. \A k \in Listing(cs) : ~(k <= 0)
      BY DEF Listing
    <3>2. QED
      BY <3>1 DEF Heads
  <2>2. QED
    BY Zenon, <2>1, PickNone DEF GroupsTo
<1>2. ASSUME NEW i \in 1..m
      PROVE  AddToGroups(GroupsTo(cs, i - 1), cs[i]) = GroupsTo(cs, i)
  <2>1. i - 1 \in 0..(Len(cs) - 1) /\ (i - 1) + 1 = i
    BY <1>0
  <2>2. PICK n \in 0..(Len(cs) - 1) : n = i - 1 /\ n + 1 = i
    BY <2>1
  <2>3. QED
    BY <2>2, GroupingStep
<1>3. \E f : Q(f)
  <2>1. PICK f : f = [i \in 0..m |-> GroupsTo(cs, i)]
    BY Zenon
  <2>2. ASSUME NEW i \in 0..m PROVE GroupsTo(cs, i) = body(f, i)
    <3>1. CASE i = 0
      BY <1>1, <3>1
    <3>2. CASE i # 0
      <4>1. i \in 1..m /\ i - 1 \in 0..m
        BY <3>2
      <4>2. f[i - 1] = GroupsTo(cs, i - 1)
        BY <2>1, <4>1
      <4>3. QED
        BY <1>2, <3>2, <4>1, <4>2
    <3>3. QED
      BY <3>1, <3>2
  <2> HIDE DEF body
  <2>3. f = [i \in 0..m |-> body(f, i)]
    BY <2>1, <2>2
  <2>4. QED
    BY <1>0, <2>3
<1>4. PICK f : Q(f) /\ grouped_endpoint_candidates(cs) = f[Len(cs)]
  <2>1. grouped_endpoint_candidates(cs) = (CHOOSE f : Q(f))[Len(cs)]
    BY DEF grouped_endpoint_candidates
  <2> HIDE DEF Q
  <2>2. QED
    BY Zenon, <1>3, <2>1
<1>5. \A i \in 0..m : f[i] = body(f, i)
  <2>1. f = [i \in 0..m |-> body(f, i)]
    BY Zenon, <1>0, <1>4
  <2> HIDE DEF body
  <2>2. QED
    BY <2>1
<1>6. PICK S : S = {i \in 0..m : f[i] = GroupsTo(cs, i)}
  BY Zenon
<1>7. 0 \in S
  <2>1. 0 \in 0..m
    OBVIOUS
  <2>2. f[0] = <<>>
    BY <1>5, <2>1
  <2>3. QED
    BY <1>1, <1>6, <2>1, <2>2
<1>8. ASSUME NEW n \in 0..(m - 1), n \in S PROVE n + 1 \in S
  <2>1. n + 1 \in 1..m /\ n + 1 \in 0..m /\ (n + 1) - 1 = n /\ n + 1 # 0
    OBVIOUS
  <2>2. f[n + 1] = body(f, n + 1)
    BY <1>5, <2>1
  <2>3. body(f, n + 1) = AddToGroups(f[n], cs[n + 1])
    BY <2>1
  <2>4. f[n] = GroupsTo(cs, n)
    BY <1>6, <1>8
  <2>5. AddToGroups(GroupsTo(cs, n), cs[n + 1]) = GroupsTo(cs, n + 1)
    BY <1>2, <2>1
  <2> HIDE DEF body
  <2>6. QED
    BY <1>6, <2>1, <2>2, <2>3, <2>4, <2>5
<1>9. \A n \in 0..m : n \in S
  BY <1>7, <1>8, Induct
<1>10. m \in 0..m
  OBVIOUS
<1>11. QED
  BY <1>0, <1>4, <1>6, <1>9, <1>10

LEMMA Picking ==
  ASSUME NEW S, NEW s \in Seq(S), NEW I \in SUBSET DOMAIN s
  PROVE  /\ IsFiniteSet(I) /\ Cardinality(I) \in Nat /\ Counts(Order(I), I)
         /\ Pick(s, I) \in Seq(S) /\ Len(Pick(s, I)) = Cardinality(I)
         /\ DOMAIN Pick(s, I) = 1..Cardinality(I)
         /\ \A n \in 1..Cardinality(I) : Order(I)[n] \in I /\ Pick(s, I)[n] = s[Order(I)[n]]
         /\ Pick(s, I) = <<>> <=> I = {}
<1>1. I \in SUBSET (1..Len(s)) /\ Len(s) \in Nat
  OBVIOUS
<1>2. IsFiniteSet(I) /\ Cardinality(I) \in Nat /\ Counts(Order(I), I)
  BY Zenon, <1>1, Ordered
<1>3. Pick(s, I) \in Seq(S) /\ Len(Pick(s, I)) = Cardinality(I)
  BY Picked
<1>4. Pick(s, I) = [n \in 1..Cardinality(I) |-> s[Order(I)[n]]]
  BY PickIs
<1>5. \A n \in 1..Cardinality(I) : Order(I)[n] \in I
  BY <1>2 DEF Counts
<1>6. I = {} <=> Cardinality(I) = 0
  BY <1>2, FS_EmptySet
<1>7. Pick(s, I) = <<>> <=> Cardinality(I) = 0
  BY <1>3
<1>8. QED
  BY Zenon, <1>2, <1>3, <1>4, <1>5, <1>6, <1>7

-----------------------------------------------------------------------------
(* Selection *)

EndpointAt(cs, k) == cs[k].record.endpoint

(* The candidates of the chain of k that the family admits, the first of   *)
(* those with each endpoint, and of these the first limit.                 *)
Matching(cs, family, k) ==
  {j \in Alike(cs, Len(cs), k) : endpoint_matches_family(EndpointAt(cs, j), family)}
Distinct(cs, I) ==
  {j \in I : \A l \in I : l < j => EndpointAt(cs, l) # EndpointAt(cs, j)}
UpTo(limit, D) == IF limit = None THEN D ELSE Leading(limit, D)
Kept(cs, family, limit, k) == UpTo(limit, Distinct(cs, Matching(cs, family, k)))

(* The heads of chains with a candidate of the family, and of the chosen.  *)
Offering(cs, family) == {k \in Heads(cs, Len(cs)) : Matching(cs, family, k) # {}}
Wanted(cs, family, query) ==
  {k \in Offering(cs, family) :
     CASE query.kind = "exact" -> Key(cs, k).sequence = query.n
       [] query.kind = "all" -> TRUE
       [] OTHER -> Rank(Offering(cs, family), k) <= IF query.kind = "limit" THEN query.n ELSE 3}

ChainsWith(cs, A) == [k \in DOMAIN cs |-> [chain |-> Key(cs, k), items |-> Pick(Items(cs), A[k])]]

LEMMA ItemsOf ==
  ASSUME NEW C, NEW cs \in Seq(C)
  PROVE  \E IT : /\ Items(cs) \in Seq(IT) /\ DOMAIN Items(cs) = DOMAIN cs
                 /\ \A k \in DOMAIN cs : Items(cs)[k] = Item(cs[k])
                                         /\ Items(cs)[k].endpoint = EndpointAt(cs, k)
                                         /\ Items(cs)[k].tag = cs[k].tag
<1>1. Len(cs) \in 0..Len(cs)
  OBVIOUS
<1>2. Items(cs) \in Seq({Item(cs[k]) : k \in DOMAIN cs}) /\ DOMAIN Items(cs) = DOMAIN cs
  <2>1. Items(cs) \in Seq({Item(cs[k]) : k \in DOMAIN cs}) /\ DOMAIN Items(cs) = 1..Len(cs)
    BY Zenon, <1>1, GroupingTypes
  <2>2. DOMAIN cs = 1..Len(cs)
    OBVIOUS
  <2>3. QED
    BY <2>1, <2>2
<1>3. \A k \in DOMAIN cs : Items(cs)[k] = Item(cs[k])
  BY DEF Items
<1>4. \A k \in DOMAIN cs : Items(cs)[k].endpoint = EndpointAt(cs, k) /\ Items(cs)[k].tag = cs[k].tag
  <2>1. ASSUME NEW c PROVE Item(c).endpoint = c.record.endpoint /\ Item(c).tag = c.tag
    BY DEF Item
  <2>2. QED
    BY <1>3, <2>1 DEF EndpointAt
<1>5. QED
  BY <1>2, <1>3, <1>4

LEMMA FamilyItems ==
  ASSUME NEW C, NEW cs \in Seq(C), NEW I \in SUBSET DOMAIN cs, NEW family
  PROVE  OfFamily(Pick(Items(cs), I), family)
           = Pick(Items(cs), {j \in I : endpoint_matches_family(EndpointAt(cs, j), family)})
<1>1. PICK IT : /\ Items(cs) \in Seq(IT) /\ DOMAIN Items(cs) = DOMAIN cs
                /\ \A k \in DOMAIN cs : Items(cs)[k].endpoint = EndpointAt(cs, k)
  BY ItemsOf
<1>2. PICK it \in Seq(IT) : it = Items(cs)
  BY <1>1
<1>3. PICK t, o : t = Pick(it, I) /\ o = Order(I)
  OBVIOUS
<1>4. DOMAIN t = 1..Cardinality(I) /\ \A n \in 1..Cardinality(I) : o[n] \in I /\ t[n] = it[o[n]]
  BY <1>1, <1>2, <1>3, Picking
<1>5. PICK K \in SUBSET I : K = {j \in I : endpoint_matches_family(EndpointAt(cs, j), family)}
  BY Zenon
<1>6. \A n \in 1..Cardinality(I) : t[n].endpoint = EndpointAt(cs, o[n])
  BY <1>1, <1>2, <1>4
<1>7. {n \in DOMAIN t : endpoint_matches_family(t[n].endpoint, family)}
        = {n \in 1..Cardinality(I) : o[n] \in K}
  BY <1>4, <1>5, <1>6
<1>8. Pick(Pick(it, I), {n \in 1..Cardinality(I) : Order(I)[n] \in K}) = Pick(it, K)
  BY <1>1, <1>2, PickPicked
<1>9. QED
  BY Zenon, <1>2, <1>3, <1>5, <1>7, <1>8 DEF OfFamily

LEMMA UniqueItems ==
  ASSUME NEW C, NEW cs \in Seq(C), NEW I \in SUBSET DOMAIN cs, NEW limit,
         limit = None \/ limit \in Nat
  PROVE  unique_endpoints(Pick(Items(cs), I), limit) = Pick(Items(cs), UpTo(limit, Distinct(cs, I)))
<1>13. PICK D : /\ D = {j \in I : \A l \in I : l < j => EndpointAt(cs, l) # EndpointAt(cs, j)}
                /\ D = Distinct(cs, I)
  BY Zenon DEF Distinct
<1>1. PICK IT : /\ Items(cs) \in Seq(IT) /\ DOMAIN Items(cs) = DOMAIN cs
                /\ \A k \in DOMAIN cs : Items(cs)[k].endpoint = EndpointAt(cs, k)
  BY ItemsOf
<1>2. PICK it \in Seq(IT) : it = Items(cs)
  BY <1>1
<1>3. PICK t, o : t = Pick(it, I) /\ o = Order(I)
  OBVIOUS
<1>4. /\ Cardinality(I) \in Nat /\ Counts(o, I)
      /\ DOMAIN t = 1..Cardinality(I) /\ \A n \in 1..Cardinality(I) : o[n] \in I /\ t[n] = it[o[n]]
  BY <1>1, <1>2, <1>3, Picking
<1>5. \A n \in 1..Cardinality(I) : t[n].endpoint = EndpointAt(cs, o[n])
  BY <1>1, <1>2, <1>4
<1>6. ASSUME NEW n \in 1..Cardinality(I)
      PROVE  (\A j \in 1..(n - 1) : t[j].endpoint # t[n].endpoint) <=> o[n] \in D
  <2>1. ASSUME \A j \in 1..(n - 1) : t[j].endpoint # t[n].endpoint,
               NEW l \in I, l < o[n]
        PROVE  EndpointAt(cs, l) # EndpointAt(cs, o[n])
    <3>1. PICK j \in 1..Cardinality(I) : o[j] = l
      BY <1>4 DEF Counts
    <3>2. j < n
      BY <1>4, <2>1, <3>1 DEF Counts
    <3>3. j \in 1..(n - 1)
      BY <1>4, <3>2
    <3>4. QED
      BY <1>5, <2>1, <3>1, <3>3
  <2>2. ASSUME o[n] \in D, NEW j \in 1..(n - 1) PROVE t[j].endpoint # t[n].endpoint
    <3>1. j \in 1..Cardinality(I) /\ j < n
      BY <1>4
    <3>2. o[j] \in I /\ o[j] < o[n]
      BY <1>4, <3>1 DEF Counts
    <3>3. QED
      BY <1>5, <1>13, <2>2, <3>1, <3>2
  <2>3. o[n] \in I
    BY <1>4
  <2>4. QED
    BY <1>13, <2>1, <2>2, <2>3
<1>7. Firsts(t) = {n \in 1..Cardinality(I) : o[n] \in D}
  BY <1>4, <1>6 DEF Firsts
<1>8. D \in SUBSET I
  BY <1>13
<1>9. Pick(t, Firsts(t)) = Pick(it, D)
  BY <1>1, <1>2, <1>3, <1>7, <1>8, PickPicked
<1>10. CASE limit = None
  BY Zenon, <1>2, <1>3, <1>9, <1>10, <1>13 DEF unique_endpoints, UpTo
<1>11. CASE limit # None
  <2>1. limit \in Nat
    BY <1>11
  <2>2. Take(Pick(it, D), limit) = Pick(it, {j \in D : Rank(D, j) <= limit})
    BY <1>1, <1>2, <1>8, <2>1, TakeOfPicked
  <2>3. QED
    BY Zenon, <1>2, <1>3, <1>9, <1>11, <1>13, <2>2 DEF unique_endpoints, UpTo, Leading
<1>12. QED
  BY <1>10, <1>11

LEMMA ChainsSeq ==
  ASSUME NEW C, NEW cs \in Seq(C), NEW A
  PROVE  \E GS : /\ ChainsWith(cs, A) \in Seq(GS) /\ DOMAIN ChainsWith(cs, A) = DOMAIN cs
                 /\ \A k \in DOMAIN cs :
                      ChainsWith(cs, A)[k] = [chain |-> Key(cs, k), items |-> Pick(Items(cs), A[k])]
<1>1. PICK m \in Nat : DOMAIN cs = 1..m
  OBVIOUS
<1>2. PICK r, GS : /\ r = ChainsWith(cs, A) /\ GS = {r[k] : k \in 1..m}
                   /\ DOMAIN r = 1..m /\ r = [k \in 1..m |-> r[k]]
  BY Zenon, <1>1 DEF ChainsWith
<1>3. \A k \in 1..m : r[k] \in GS
  BY <1>2
<1>4. r \in Seq(GS)
  BY <1>2, <1>3
<1>5. \A k \in DOMAIN cs : ChainsWith(cs, A)[k] = [chain |-> Key(cs, k), items |-> Pick(Items(cs), A[k])]
  BY DEF ChainsWith
<1>6. QED
  BY Zenon, <1>1, <1>2, <1>4, <1>5

(* filter_endpoint_candidate_groups *)
LEMMA Filtering ==
  ASSUME NEW C, NEW cs \in Seq(C), NEW family,
         NEW A, A = [k \in DOMAIN cs |-> Matching(cs, family, k)]
  PROVE  filter_endpoint_candidate_groups(grouped_endpoint_candidates(cs), family)
           = Pick(ChainsWith(cs, A), Offering(cs, family))
<1>m. Len(cs) \in 0..Len(cs)
  OBVIOUS
<1>t. /\ DOMAIN cs = 1..Len(cs)
      /\ Heads(cs, Len(cs)) \in SUBSET (1..Len(cs))
      /\ \A k \in DOMAIN cs : Alike(cs, Len(cs), k) \in SUBSET (1..Len(cs))
  BY Zenon, <1>m, GroupingTypes
<1>1. PICK h \in SUBSET DOMAIN cs : h = Heads(cs, Len(cs))
  BY <1>t
<1>2. PICK G, o : G = grouped_endpoint_candidates(cs) /\ o = Order(h)
  OBVIOUS
<1>3. /\ G = [i \in 1..Cardinality(h) |-> GroupAt(cs, Len(cs))[o[i]]]
      /\ Cardinality(h) \in Nat /\ Counts(o, h)
  <2>1. Len(cs) \in Nat /\ h \in SUBSET (1..Len(cs))
    BY <1>1, <1>t
  <2>2. Cardinality(h) \in Nat /\ Counts(o, h)
    BY Zenon, <1>2, <2>1, Ordered
  <2>3. G = GroupsTo(cs, Len(cs))
    BY <1>2, Grouping
  <2>4. QED
    BY <1>1, <1>2, <2>2, <2>3, PickIs DEF GroupsTo
<1>4. PICK GS : /\ ChainsWith(cs, A) \in Seq(GS) /\ DOMAIN ChainsWith(cs, A) = DOMAIN cs
                /\ \A k \in DOMAIN cs :
                     ChainsWith(cs, A)[k] = [chain |-> Key(cs, k), items |-> Pick(Items(cs), A[k])]
  BY ChainsSeq
<1>5. PICK s \in Seq(GS) : s = ChainsWith(cs, A)
  BY <1>4
<1>6. ASSUME NEW i \in 1..Cardinality(h)
      PROVE  /\ o[i] \in h
             /\ [G[i] EXCEPT !.items = OfFamily(@, family)] = s[o[i]]
             /\ s[o[i]].items # <<>> <=> Matching(cs, family, o[i]) # {}
  <2>1. PICK k \in h : k = o[i] /\ k \in DOMAIN cs
    BY <1>3 DEF Counts
  <2>a. PICK I \in SUBSET DOMAIN cs : I = Alike(cs, Len(cs), k)
    BY <1>t, <2>1
  <2>2. PICK c, a : c = Key(cs, k) /\ I = Alike(cs, Len(cs), k) /\ a = Pick(Items(cs), I)
    BY <2>a
  <2>3. G[i] = [chain |-> c, items |-> a]
    <3>1. G[i] = GroupAt(cs, Len(cs))[k]
      BY <1>3, <2>1
    <3>2. QED
      BY <2>1, <2>2, <3>1 DEF GroupAt
  <2>4. PICK M \in SUBSET DOMAIN cs : M = Matching(cs, family, k)
    BY Zenon, <2>2 DEF Matching
  <2>5. OfFamily(a, family) = Pick(Items(cs), M)
    BY <2>2, <2>4, FamilyItems DEF Matching
  <2>6. s[k] = [chain |-> c, items |-> Pick(Items(cs), M)]
    BY <1>4, <1>5, <2>1, <2>2, <2>4
  <2>7. [G[i] EXCEPT !.items = OfFamily(@, family)] = s[k]
    <3>1. PICK g, u : g = G[i] /\ u = OfFamily(g.items, family)
      OBVIOUS
    <3>2. g = [chain |-> c, items |-> a] /\ g.items = a
      BY <2>3, <3>1
    <3>3. [g EXCEPT !.items = u] = [chain |-> c, items |-> u]
      BY <3>2
    <3>4. u = Pick(Items(cs), M)
      BY <2>5, <3>1, <3>2
    <3>5. QED
      BY <2>6, <3>1, <3>3, <3>4
  <2>8. s[k].items # <<>> <=> M # {}
    <3>1. PICK IT : Items(cs) \in Seq(IT) /\ DOMAIN Items(cs) = DOMAIN cs
      BY ItemsOf
    <3>2. PICK it \in Seq(IT) : it = Items(cs) /\ DOMAIN it = DOMAIN cs
      BY <3>1
    <3>3. Pick(it, M) = <<>> <=> M = {}
      BY Zenon, <3>2, Picking
    <3>4. PICK w : w = Pick(Items(cs), M)
      OBVIOUS
    <3>5. s[k].items = w
      BY <2>6, <3>4
    <3>6. QED
      BY <3>2, <3>3, <3>4, <3>5
  <2>9. QED
    BY <2>1, <2>4, <2>7, <2>8
<1>7. PICK t : t = Pick(s, h)
  OBVIOUS
<1>8. t = [i \in 1..Cardinality(h) |-> s[o[i]]]
  BY <1>2, <1>7, PickIs
<1>9. [i \in DOMAIN G |-> [G[i] EXCEPT !.items = OfFamily(@, family)]] = t
  BY <1>3, <1>6, <1>8
<1>10. PICK K \in SUBSET h : K = Offering(cs, family)
  BY Zenon, <1>1 DEF Offering
<1>11. {i \in DOMAIN t : t[i].items # <<>>} = {i \in 1..Cardinality(h) : o[i] \in K}
  <2>1. \A i \in 1..Cardinality(h) : t[i].items # <<>> <=> o[i] \in K
    BY Zenon, <1>1, <1>6, <1>8, <1>10 DEF Offering
  <2>2. QED
    BY <1>8, <2>1
<1>12. Pick(Pick(s, h), {i \in 1..Cardinality(h) : Order(h)[i] \in K}) = Pick(s, K)
  BY <1>4, <1>5, PickPicked
<1>13. filter_endpoint_candidate_groups(G, family) = Pick(t, {i \in DOMAIN t : t[i].items # <<>>})
  BY Zenon, <1>9 DEF filter_endpoint_candidate_groups
<1>14. QED
  BY Zenon, <1>2, <1>5, <1>7, <1>10, <1>11, <1>12, <1>13

(* select_group_pairs *)
LEMMA Selecting ==
  ASSUME NEW C, NEW cs \in Seq(C), NEW family, NEW A, NEW query,
         query.kind \in {"default", "exact", "limit", "all"}, query.n \in Nat
  PROVE  select_group_pairs(Pick(ChainsWith(cs, A), Offering(cs, family)), query)
           = Pick(ChainsWith(cs, A), Wanted(cs, family, query))
<1>1. PICK GS : /\ ChainsWith(cs, A) \in Seq(GS) /\ DOMAIN ChainsWith(cs, A) = DOMAIN cs
                /\ \A k \in DOMAIN cs :
                     ChainsWith(cs, A)[k] = [chain |-> Key(cs, k), items |-> Pick(Items(cs), A[k])]
  BY ChainsSeq
<1>2. PICK s \in Seq(GS) : s = ChainsWith(cs, A) /\ DOMAIN s = DOMAIN cs
  BY <1>1
<1>3. PICK H \in SUBSET DOMAIN cs : H = Offering(cs, family)
  BY Zenon DEF Offering, Heads, Listing
<1>4. PICK t, o : t = Pick(s, H) /\ o = Order(H)
  OBVIOUS
<1>5. /\ Cardinality(H) \in Nat /\ Counts(o, H)
      /\ DOMAIN t = 1..Cardinality(H) /\ \A n \in 1..Cardinality(H) : o[n] \in H /\ t[n] = s[o[n]]
  BY <1>2, <1>3, <1>4, Picking
<1>6. ASSUME NEW n \in Nat PROVE Take(t, n) = Pick(s, {k \in H : Rank(H, k) <= n})
  BY <1>2, <1>4, TakeOfPicked
<1>7. CASE query.kind = "exact"
  <2>1. PICK K \in SUBSET H : K = {k \in H : Key(cs, k).sequence = query.n}
    BY Zenon
  <2>2. \A n \in 1..Cardinality(H) : t[n].chain = Key(cs, o[n])
    <3> SUFFICES ASSUME NEW n \in 1..Cardinality(H) PROVE t[n].chain = Key(cs, o[n])
      OBVIOUS
    <3>1. PICK c, a : c = Key(cs, o[n]) /\ t[n] = [chain |-> c, items |-> a]
      BY <1>1, <1>2, <1>5
    <3>2. t[n].chain = c
      BY <3>1
    <3>3. QED
      BY <3>1, <3>2
  <2>3. {n \in DOMAIN t : t[n].chain.sequence = query.n} = {n \in 1..Cardinality(H) : o[n] \in K}
    BY <1>5, <2>1, <2>2
  <2>4. Pick(Pick(s, H), {n \in 1..Cardinality(H) : Order(H)[n] \in K}) = Pick(s, K)
    BY <1>2, PickPicked
  <2>5. K = Wanted(cs, family, query)
    BY <1>3, <1>7, <2>1 DEF Wanted
  <2>6. select_group_pairs(t, query) = Pick(t, {n \in DOMAIN t : t[n].chain.sequence = query.n})
    BY <1>7 DEF select_group_pairs
  <2>7. QED
    BY Zenon, <1>2, <1>3, <1>4, <2>3, <2>4, <2>5, <2>6
<1>8. CASE query.kind = "all"
  <2>1. H = Wanted(cs, family, query)
    BY <1>3, <1>8 DEF Wanted
  <2>2. select_group_pairs(t, query) = t
    BY <1>8 DEF select_group_pairs
  <2>3. QED
    BY <1>2, <1>3, <1>4, <2>1, <2>2
<1>9. CASE query.kind = "default"
  <2>1. {k \in H : Rank(H, k) <= 3} = Wanted(cs, family, query)
    BY <1>3, <1>9 DEF Wanted
  <2>2. select_group_pairs(t, query) = Take(t, 3)
    BY <1>9 DEF select_group_pairs
  <2>3. QED
    BY <1>2, <1>3, <1>4, <1>6, <2>1, <2>2
<1>10. CASE query.kind = "limit"
  <2>1. {k \in H : Rank(H, k) <= query.n} = Wanted(cs, family, query)
    BY <1>3, <1>10 DEF Wanted
  <2>2. select_group_pairs(t, query) = Take(t, query.n)
    BY <1>10 DEF select_group_pairs
  <2>3. QED
    BY <1>2, <1>3, <1>4, <1>6, <2>1, <2>2
<1>11. QED
  BY Zenon, <1>7, <1>8, <1>9, <1>10

-----------------------------------------------------------------------------
(* Counting the values of positions. *)
Values(e, I) == {e[j] : j \in I}
Below(I, i) == {j \in I : j < i}

LEMMA ImageBefore ==
  ASSUME NEW k \in Nat, NEW I \in SUBSET (1..k), NEW e, \A i, j \in I : e[i] = e[j] => i = j
  PROVE  /\ Cardinality(Values(e, I)) = Cardinality(I)
         /\ \A i \in I : Cardinality(Values(e, Below(I, i))) = Rank(I, i) - 1
<1>1. ASSUME NEW B \in SUBSET I PROVE Cardinality(Values(e, B)) = Cardinality(B)
  <2>1. B \in SUBSET (1..k)
    OBVIOUS
  <2>2. PICK T : T = {e[j] : j \in B} /\ T = Values(e, B)
    BY Zenon DEF Values
  <2>3. PICK f \in [B -> T] : f = [j \in B |-> e[j]]
    BY Zenon, <2>2
  <2>4. /\ \A i, j \in B : f[i] = f[j] => i = j
        /\ \A x \in T : \E i \in B : f[i] = x
    BY <2>2, <2>3
  <2>5. Cardinality(T) = Cardinality(B)
    BY Zenon, <2>1, <2>4, ImageCount
  <2>6. QED
    BY <2>2, <2>5
<1>2. Cardinality(Values(e, I)) = Cardinality(I)
  BY <1>1
<1>3. ASSUME NEW i \in I PROVE Cardinality(Values(e, Below(I, i))) = Rank(I, i) - 1
  <2>1. PICK B \in SUBSET I : B = {j \in I : j < i} /\ B = Below(I, i)
    BY Zenon DEF Below
  <2>2. Cardinality(B) = Rank(I, i) - 1
    BY Zenon, <2>1, RankBefore
  <2>3. QED
    BY <1>1, <2>1, <2>2
<1>4. QED
  BY <1>2, <1>3

(* The first position of each value of e among M: as many as there are     *)
(* values, in the order the values are met.                                *)
FirstOf(e, M) == {j \in M : \A l \in M : l < j => e[l] # e[j]}

LEMMA FirstMet ==
  ASSUME NEW k \in Nat, NEW M \in SUBSET (1..k), NEW e
  PROVE  /\ Values(e, M) = Values(e, FirstOf(e, M))
         /\ Cardinality(Values(e, M)) = Cardinality(FirstOf(e, M))
         /\ \A i \in FirstOf(e, M) :
              Cardinality(Values(e, Below(M, i))) = Rank(FirstOf(e, M), i) - 1
<1>1. \A j \in M : j \in Nat
  OBVIOUS
<1>9. PICK D \in SUBSET M : D = FirstOf(e, M)
  BY Zenon DEF FirstOf
<1>10. \A j \in M : j \in D <=> \A l \in M : l < j => e[l] # e[j]
  BY <1>9 DEF FirstOf
<1>2. ASSUME NEW j \in M PROVE \E i \in D : i <= j /\ e[i] = e[j]
  <2>1. PICK T \in SUBSET Nat : T = {i \in M : e[i] = e[j]}
    BY Zenon, <1>1
  <2>2. PICK i \in T : \A m \in T : i <= m
    BY <2>1, Least
  <2>3. i \in M /\ e[i] = e[j] /\ i <= j
    BY <2>1, <2>2
  <2>4. ASSUME NEW l \in M, l < i PROVE e[l] # e[i]
    BY <1>1, <2>1, <2>2, <2>3, <2>4
  <2>5. QED
    BY <1>10, <2>3, <2>4
<1>3. ASSUME NEW i \in D, NEW j \in D, e[i] = e[j] PROVE i = j
  <2>1. ~(i < j) /\ ~(j < i)
    BY <1>3, <1>10
  <2>2. i \in Nat /\ j \in Nat
    BY <1>1
  <2>3. QED
    BY <2>1, <2>2
<1>4. Values(e, M) = Values(e, D)
  <2>1. \A j \in M : \E i \in D : e[i] = e[j]
    BY <1>2
  <2>2. QED
    BY Zenon, <2>1 DEF Values
<1>5. D \in SUBSET (1..k)
  BY Zenon, <1>9
<1>6. /\ Cardinality(Values(e, D)) = Cardinality(D)
      /\ \A i \in D : Cardinality(Values(e, Below(D, i))) = Rank(D, i) - 1
  <2>1. PICK E \in SUBSET (1..k) : E = D
    BY <1>5
  <2>2. \A i, j \in E : e[i] = e[j] => i = j
    BY <1>3, <2>1
  <2>3. /\ Cardinality(Values(e, E)) = Cardinality(E)
        /\ \A i \in E : Cardinality(Values(e, Below(E, i))) = Rank(E, i) - 1
    BY Zenon, <2>2, ImageBefore
  <2>4. QED
    BY <2>1, <2>3
<1>7. ASSUME NEW i \in D
      PROVE  Values(e, Below(M, i)) = Values(e, Below(D, i))
  <2>1. ASSUME NEW j \in M, j < i PROVE \E l \in D : l < i /\ e[l] = e[j]
    <3>1. PICK l \in D : l <= j /\ e[l] = e[j]
      BY <1>2
    <3>2. l \in Nat /\ j \in Nat /\ i \in Nat
      BY <1>1
    <3>3. QED
      BY <2>1, <3>1, <3>2
  <2>2. QED
    BY <2>1 DEF Values, Below
<1>8. QED
  BY Zenon, <1>4, <1>6, <1>7, <1>9
=============================================================================

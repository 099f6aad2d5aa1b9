--------------------------- MODULE NaturalLemmas ---------------------------
(***************************************************************************)
(* Facts about natural numbers that the proofs about several components    *)
(* need: a set of natural numbers that is not empty has a least element,   *)
(* which is induction in a form that names no operator; a loop computes    *)
(* what its recursive definition says; multiples, sums and powers.  And    *)
(* what both cuckoo filters need: fingerprints matched with keys.          *)
(***************************************************************************)
EXTENDS Integers, Arithmetic, FiniteSetTheorems, WellFoundedInduction, TLAPS

(* The strict order of the naturals as a relation. *)
Below == {p \in Nat \X Nat : p[1] < p[2]}

(* It is well-founded. *)
LEMMA BelowWellFounded == IsWellFoundedOn(Below, Nat)
<1>1. OpToRel(<, Nat) = Below
  BY DEF OpToRel, Below
<1>2. QED
  BY <1>1, NatLessThanWellFounded

(* Every set of natural numbers that is not empty has a least element. *)
THEOREM LeastNat ==
  ASSUME NEW T, T \subseteq Nat, T # {}
  PROVE  \E m \in T : \A n \in T : m <= n
<1>1. PICK m \in T : \A n \in T : ~ (<<n, m>> \in Below)
  BY BelowWellFounded, WFMin
<1>2. ASSUME NEW n \in T
      PROVE  m <= n
  <2>1. m \in Nat /\ n \in Nat
    OBVIOUS
  <2>2. <<n, m>> \in Nat \X Nat /\ ~ (<<n, m>> \in Below)
    BY <1>1, <2>1
  <2>3. ~ (<<n, m>>[1] < <<n, m>>[2])
    BY <2>2 DEF Below
  <2>4. QED
    BY <2>1, <2>3
<1>3. QED
  BY <1>2

-----------------------------------------------------------------------------
(* Multiples. *)

(* Division of naturals, as Euclid has it. *)
LEMMA Division ==
  ASSUME NEW a \in Nat, NEW b \in Nat \ {0}
  PROVE  /\ a \div b \in Nat
         /\ b * (a \div b) <= a
         /\ a < b * (a \div b) + b
         /\ a % b = a - b * (a \div b)
OBVIOUS

(* A multiple below another one is below it by at least the factor.        *)
LEMMA MultiplesApart ==
  ASSUME NEW b \in Nat \ {0}, NEW p \in Nat, NEW q \in Nat
  PROVE  /\ b * p \in Nat
         /\ b * p < b * q => b * p + b <= b * q
         /\ p < q => b * p + b <= b * q
<1>1. b * p \in Nat /\ b * q \in Nat
  OBVIOUS
<1>2. ASSUME p < q PROVE b * p + b <= b * q
  <2>1. PICK d \in Nat : q = p + 1 + d
    <3>1. q - p - 1 \in Nat /\ q = p + 1 + (q - p - 1)
      BY <1>2
    <3>2. QED
      BY <3>1
  <2>2. b * q = b * p + b + b * d /\ b * d \in Nat
    BY <2>1
  <2>3. QED
    BY <2>2, <1>1
<1>3. ASSUME b * p < b * q PROVE p < q
  <2>1. CASE p < q
    BY <2>1
  <2>2. CASE p >= q
    <3>1. PICK d \in Nat : p = q + d
      <4>1. p - q \in Nat /\ p = q + (p - q)
        BY <2>2
      <4>2. QED
        BY <4>1
    <3>2. b * p = b * q + b * d /\ b * d \in Nat
      BY <3>1
    <3>3. QED
      BY <3>2, <1>1, <1>3
  <2>3. QED
    BY <2>1, <2>2
<1>4. QED
  BY <1>1, <1>2, <1>3

(* What the division leaves nothing of is a multiple, and conversely.      *)
LEMMA Multiple ==
  ASSUME NEW b \in Nat \ {0}
  PROVE  /\ \A a \in Nat : a % b = 0 => \E q \in Nat : a = b * q
         /\ \A q \in Nat : (b * q) % b = 0 /\ (b * q) \div b = q
<1>1. ASSUME NEW a \in Nat, a % b = 0
      PROVE  \E q \in Nat : a = b * q
  <2>1. a \div b \in Nat /\ a % b = a - b * (a \div b)
    BY Division
  <2>2. b * (a \div b) \in Nat
    BY <2>1, MultiplesApart
  <2>3. a = b * (a \div b)
    BY <2>1, <2>2, <1>1
  <2>4. QED
    BY <2>1, <2>3
<1>2. ASSUME NEW q \in Nat
      PROVE  (b * q) % b = 0 /\ (b * q) \div b = q
  <2>1. PICK a \in Nat : a = b * q
    BY MultiplesApart
  <2>2. PICK d \in Nat : d = a \div b
    BY Division
  <2>3. b * d \in Nat /\ b * d <= a /\ a < b * d + b /\ a % b = a - b * d
    BY <2>2, Division, MultiplesApart
  <2>4. ~ (d < q)
    BY <2>1, <2>3, MultiplesApart
  <2>5. ~ (q < d)
    BY <2>1, <2>3, MultiplesApart
  <2>6. d = q
    BY <2>4, <2>5
  <2>7. QED
    BY <2>1, <2>2, <2>3, <2>6
<1>3. QED
  BY <1>1, <1>2

-----------------------------------------------------------------------------
(* Loops. *)

(* A loop that begins with a and makes F[i][x] of x in its iteration i has *)
(* a value after each iteration.                                           *)
THEOREM Loop ==
  ASSUME NEW S, NEW a \in S, NEW F \in [Nat -> [S -> S]]
  PROVE  \A n \in Nat : \E g \in [0..n -> S] :
           g[0] = a /\ \A i \in 1..n : g[i] = F[i][g[i-1]]
<1> DEFINE Runs(n) == \E g \in [0..n -> S] :
                        g[0] = a /\ \A i \in 1..n : g[i] = F[i][g[i-1]]
<1>1. Runs(0)
  <2>1. PICK g : g = [i \in 0..0 |-> a]
    OBVIOUS
  <2>2. g \in [0..0 -> S] /\ g[0] = a
    BY <2>1
  <2>3. QED
    BY <2>2
<1>2. ASSUME NEW n \in Nat, Runs(n)
      PROVE  Runs(n+1)
  <2>1. PICK g \in [0..n -> S] : g[0] = a /\ \A i \in 1..n : g[i] = F[i][g[i-1]]
    BY <1>2
  <2>2. PICK h : h = [i \in 0..n+1 |-> IF i = n+1 THEN F[n+1][g[n]] ELSE g[i]]
    OBVIOUS
  <2>3. g[n] \in S /\ n+1 \in Nat
    OBVIOUS
  <2>4. F[n+1][g[n]] \in S
    BY <2>3
  <2>5. /\ h \in [0..n+1 -> S] /\ h[0] = a /\ h[n+1] = F[n+1][g[n]]
        /\ \A i \in 0..n : h[i] = g[i]
    BY <2>1, <2>2, <2>4
  <2>6. ASSUME NEW i \in 1..n+1
        PROVE  h[i] = F[i][h[i-1]]
    <3>1. CASE i = n+1
      BY <2>5, <3>1
    <3>2. CASE i # n+1
      <4>1. i \in 1..n /\ i \in 0..n /\ i-1 \in 0..n
        BY <3>2
      <4>2. QED
        BY <2>1, <2>5, <4>1
    <3>3. QED
      BY <3>1, <3>2
  <2>7. QED
    BY <2>5, <2>6
<1>3. SUFFICES ASSUME NEW k \in Nat, ~ Runs(k)
               PROVE  FALSE
  OBVIOUS
<1>4. PICK T : T = {n \in Nat : ~ Runs(n)}
  OBVIOUS
<1>5. T \subseteq Nat /\ T # {}
  BY <1>3, <1>4
<1>6. PICK m \in T : \A n \in T : m <= n
  BY <1>5, LeastNat
<1>7. m # 0 /\ m \in Nat
  BY <1>1, <1>4, <1>6
<1>8. m-1 \in Nat /\ m-1 \notin T
  BY <1>5, <1>6, <1>7
<1>9. Runs(m-1)
  BY <1>4, <1>8
<1>10. Runs((m-1)+1)
  BY <1>2, <1>8, <1>9
<1>11. (m-1)+1 = m
  BY <1>7
<1>12. QED
  BY <1>4, <1>6, <1>10, <1>11

(* A sum of naturals, term by term. *)
THEOREM SumSteps ==
  ASSUME NEW n \in Nat, NEW f, \A i \in 0 .. n-1 : f[i] \in Nat
  PROVE  /\ SumBelow(f, 0) = 0
         /\ \A k \in 0..n : SumBelow(f, k) \in Nat
         /\ \A k \in 0 .. n-1 : SumBelow(f, k+1) = SumBelow(f, k) + f[k]
<1> DEFINE Sums(g, k) == g = [i \in 0..k |-> IF i = 0 THEN 0 ELSE g[i-1] + f[i-1]]
           sum(k) == CHOOSE g : Sums(g, k)
<1>1. \A k : SumBelow(f, k) = sum(k)[k]
  BY DEF SumBelow
<1>2. ASSUME NEW k \in 0..n
      PROVE  Sums(sum(k), k)
  <2>1. PICK F : F = [i \in Nat |-> [x \in Nat |-> IF i \in 1..n THEN x + f[i-1] ELSE 0]]
    OBVIOUS
  <2>2. F \in [Nat -> [Nat -> Nat]] /\ k \in Nat /\ 0 \in Nat
    BY <2>1
  <2>3. PICK g \in [0..k -> Nat] : g[0] = 0 /\ \A i \in 1..k : g[i] = F[i][g[i-1]]
    <3>0. PICK S, a : S = Nat /\ a = 0
      OBVIOUS
    <3>1. a \in S /\ F \in [Nat -> [S -> S]]
      BY <2>2, <3>0
    <3>2. \A q \in Nat : \E g \in [0..q -> S] :
            g[0] = a /\ \A i \in 1..q : g[i] = F[i][g[i-1]]
      BY ONLY <3>1, Loop
    <3>3. QED
      BY <2>2, <3>0, <3>2
  <2>4. \A i \in 1..k : g[i] = g[i-1] + f[i-1]
    <3>1. SUFFICES ASSUME NEW i \in 1..k PROVE g[i] = g[i-1] + f[i-1]
      OBVIOUS
    <3>2. i-1 \in 0..k /\ i \in 1..n /\ i \in Nat
      OBVIOUS
    <3>3. g[i-1] \in Nat
      BY <3>2
    <3>4. F[i][g[i-1]] = g[i-1] + f[i-1]
      BY <2>1, <3>2, <3>3
    <3>5. QED
      BY <2>3, <3>4
  <2>5. Sums(g, k)
    BY <2>3, <2>4
  <2>6. QED
    BY <2>5
<1>3. ASSUME NEW k \in 0..n
      PROVE  /\ sum(k)[0] = 0
             /\ \A i \in 1..k : sum(k)[i] = sum(k)[i-1] + f[i-1]
  <2>1. PICK g : g = sum(k)
    OBVIOUS
  <2>2. g = [i \in 0..k |-> IF i = 0 THEN 0 ELSE g[i-1] + f[i-1]]
    BY <1>2, <2>1
  <2>3. 0 \in 0..k /\ \A i \in 1..k : i \in 0..k /\ i # 0
    OBVIOUS
  <2>4. QED
    BY <2>1, <2>2, <2>3
<1> DEFINE Agree(i) == \A k \in 0..n : i <= k => sum(k)[i] = sum(i)[i] /\ sum(k)[i] \in Nat
<1> HIDE DEF Sums, sum
<1>4. Agree(0)
  BY <1>3
<1>5. ASSUME NEW i \in 0 .. n-1, Agree(i)
      PROVE  Agree(i+1) /\ sum(i+1)[i+1] = sum(i)[i] + f[i]
  <2>1. i+1 \in 0..n /\ i \in 0..n /\ f[i] \in Nat
    OBVIOUS
  <2>2. ASSUME NEW k \in 0..n, i+1 <= k
        PROVE  sum(k)[i+1] = sum(i)[i] + f[i] /\ sum(k)[i+1] \in Nat
    <3>1. i+1 \in 1..k /\ (i+1)-1 = i
      BY <2>2
    <3>2. sum(k)[i+1] = sum(k)[i] + f[i]
      BY <1>3, <3>1
    <3>3. sum(k)[i] = sum(i)[i] /\ sum(k)[i] \in Nat
      BY <1>5, <2>2
    <3>4. QED
      BY <2>1, <3>2, <3>3
  <2>3. QED
    BY <2>1, <2>2
<1>6. \A i \in 0..n : Agree(i)
  <2>1. SUFFICES ASSUME NEW i \in 0..n, ~ Agree(i) PROVE FALSE
    OBVIOUS
  <2>2. PICK T : T = {k \in 0..n : ~ Agree(k)}
    OBVIOUS
  <2>3. T \subseteq Nat /\ T # {}
    BY <2>1, <2>2
  <2>4. PICK m \in T : \A k \in T : m <= k
    BY <2>3, LeastNat
  <2>5. m \in 0..n /\ m # 0
    BY <1>4, <2>2, <2>4
  <2>6. m-1 \in 0 .. n-1 /\ m-1 \in 0..n /\ ~ (m <= m-1) /\ (m-1)+1 = m
    BY <2>5
  <2>7. Agree(m-1)
    BY <2>2, <2>4, <2>6
  <2>8. Agree((m-1)+1)
    BY <1>5, <2>6, <2>7
  <2>9. QED
    BY <2>2, <2>4, <2>6, <2>8
<1>7. \A k \in 0..n : sum(k)[k] \in Nat
  BY <1>6
<1>8. \A k \in 0 .. n-1 : sum(k+1)[k+1] = sum(k)[k] + f[k]
  <2>1. \A k \in 0 .. n-1 : k \in 0..n
    OBVIOUS
  <2>2. QED
    BY <1>5, <1>6, <2>1
<1>9. sum(0)[0] = 0
  BY <1>3
<1>10. QED
  BY <1>1, <1>7, <1>8, <1>9

(* Sums of naturals grow with the number of terms.                         *)
THEOREM SumGrows ==
  ASSUME NEW n \in Nat, NEW f, \A i \in 0 .. n-1 : f[i] \in Nat,
         NEW j \in 0..n, NEW k \in j..n
  PROVE  /\ SumBelow(f, j) <= SumBelow(f, k)
         /\ j < k => SumBelow(f, j) + f[j] <= SumBelow(f, k)
<1>1. /\ \A i \in 0..n : SumBelow(f, i) \in Nat
      /\ \A i \in 0 .. n-1 : SumBelow(f, i+1) = SumBelow(f, i) + f[i]
  BY SumSteps
<1>2. \A r \in 0..n : \A q \in r..n : SumBelow(f, r) <= SumBelow(f, q)
  <2>1. SUFFICES ASSUME NEW r \in 0..n, NEW q \in r..n, ~ (SumBelow(f, r) <= SumBelow(f, q))
                 PROVE  FALSE
    OBVIOUS
  <2>2. PICK T : T = {m \in Nat : r <= m /\ m <= n /\ ~ (SumBelow(f, r) <= SumBelow(f, m))}
    OBVIOUS
  <2>3. T \subseteq Nat /\ T # {}
    BY <2>1, <2>2
  <2>4. PICK m \in T : \A p \in T : m <= p
    BY <2>3, LeastNat
  <2>5. m \in Nat /\ r <= m /\ m <= n /\ ~ (SumBelow(f, r) <= SumBelow(f, m))
    BY <2>2, <2>4
  <2>6. m # r
    BY <1>1, <2>5
  <2>7. m-1 \in 0 .. n-1 /\ r <= m-1 /\ m-1 \in Nat /\ (m-1)+1 = m /\ m-1 \in 0..n /\ m \in 0..n
    BY <2>5, <2>6
  <2>8. m-1 \notin T
    BY <2>4, <2>7
  <2>9. SumBelow(f, r) <= SumBelow(f, m-1)
    BY <2>2, <2>7, <2>8
  <2>10. SumBelow(f, m) = SumBelow(f, m-1) + f[m-1] /\ f[m-1] \in Nat
    BY <1>1, <2>7
  <2>11. /\ SumBelow(f, r) \in Nat /\ SumBelow(f, m) \in Nat /\ SumBelow(f, m-1) \in Nat
    BY <1>1, <2>7
  <2>12. QED
    BY <2>5, <2>9, <2>10, <2>11
<1>3. ASSUME j < k
      PROVE  SumBelow(f, j) + f[j] <= SumBelow(f, k)
  <2>1. j \in 0 .. n-1 /\ j+1 \in 0..n /\ k \in j+1 .. n
    BY <1>3
  <2>2. SumBelow(f, j+1) = SumBelow(f, j) + f[j]
    BY <1>1, <2>1
  <2>3. QED
    BY <1>2, <2>1, <2>2
<1>4. QED
  BY <1>2, <1>3

(* Functions that differ in one value, and their sums. *)
DifferAt(n, f, g, x) ==
  /\ n \in Nat /\ x \in 0 .. n-1
  /\ f \in [0 .. n-1 -> Nat] /\ g \in [0 .. n-1 -> Nat]
  /\ \A i \in 0 .. n-1 : i # x => g[i] = f[i]

LEMMA SumChanged ==
  ASSUME NEW n, NEW f, NEW g, NEW x, DifferAt(n, f, g, x)
  PROVE  \A k \in 0..n :
           /\ x < k => SumBelow(g, k) = SumBelow(f, k) + g[x] - f[x]
           /\ ~ (x < k) => SumBelow(g, k) = SumBelow(f, k)
<1>1. /\ n \in Nat /\ x \in 0 .. n-1
      /\ f \in [0 .. n-1 -> Nat] /\ g \in [0 .. n-1 -> Nat]
      /\ \A i \in 0 .. n-1 : i # x => g[i] = f[i]
  BY DEF DifferAt
<1>2. PICK y \in Nat : y = g[x]
  BY <1>1
<1>3. /\ SumBelow(f, 0) = 0 /\ SumBelow(g, 0) = 0
      /\ \A k \in 0..n : SumBelow(f, k) \in Nat /\ SumBelow(g, k) \in Nat
      /\ \A k \in 0 .. n-1 : /\ SumBelow(f, k+1) = SumBelow(f, k) + f[k]
                            /\ SumBelow(g, k+1) = SumBelow(g, k) + g[k]
  BY <1>1, SumSteps
<1> DEFINE Same(k) == SumBelow(g, k) = IF x < k THEN SumBelow(f, k) + y - f[x]
                                       ELSE SumBelow(f, k)
<1>4. PICK T : T = {m \in 0..n : ~ Same(m)}
  OBVIOUS
<1>5. T = {}
  <2>1. SUFFICES ASSUME T # {} PROVE FALSE
    OBVIOUS
  <2>2. T \subseteq Nat
    BY <1>1, <1>4
  <2>3. PICK m \in T : \A p \in T : m <= p
    BY <2>1, <2>2, LeastNat
  <2>4. m \in 0..n /\ m # 0
    BY <1>1, <1>3, <1>4, <2>3
  <2>5. PICK l \in 0 .. n-1 : m = l + 1 /\ l \in 0..n /\ l \notin T
    BY <1>1, <2>3, <2>4
  <2>6. Same(l)
    BY <1>1, <1>4, <2>5
  <2>7. /\ SumBelow(f, m) = SumBelow(f, l) + f[l] /\ SumBelow(g, m) = SumBelow(g, l) + g[l]
        /\ f[l] \in Nat /\ g[l] \in Nat /\ f[x] \in Nat
        /\ SumBelow(f, l) \in Nat /\ SumBelow(g, l) \in Nat
    BY <1>1, <1>3, <2>5
  <2>8. Same(m)
    BY <1>1, <1>2, <2>5, <2>6, <2>7
  <2> QED
    BY <1>4, <2>3, <2>8
<1> QED
  BY <1>2, <1>4, <1>5

(* A sum of nothing but zeros. *)
LEMMA SumOfZeros ==
  ASSUME NEW n \in Nat, NEW f, \A i \in 0 .. n-1 : f[i] = 0
  PROVE  \A k \in 0..n : SumBelow(f, k) = 0
<1>1. /\ SumBelow(f, 0) = 0
      /\ \A k \in 0..n : SumBelow(f, k) \in Nat
      /\ \A k \in 0 .. n-1 : SumBelow(f, k+1) = SumBelow(f, k) + f[k]
  BY SumSteps
<1>2. PICK T : T = {k \in Nat : k <= n /\ SumBelow(f, k) # 0}
  OBVIOUS
<1>3. SUFFICES ASSUME T # {} PROVE FALSE
  BY <1>2
<1>4. PICK m \in T : \A p \in T : m <= p
  BY <1>2, <1>3, LeastNat
<1>5. m \in Nat /\ m <= n /\ m # 0
  BY <1>1, <1>2, <1>4
<1>6. PICK l \in 0 .. n-1 : m = l + 1
  <2>1. m-1 \in 0 .. n-1 /\ m = (m-1) + 1
    BY <1>5
  <2> QED
    BY <2>1
<1>7. l \in Nat /\ l <= n /\ l < m
  BY <1>6
<1>8. SumBelow(f, l) = 0
  BY <1>2, <1>4, <1>7
<1>9. SumBelow(f, m) = 0
  BY <1>1, <1>6, <1>8
<1> QED
  BY <1>2, <1>4, <1>9

(* The powers of 2, and that they grow. *)
THEOREM Powers ==
  /\ PowerOf2(0) = 1
  /\ \A n \in Nat : PowerOf2(n) \in Nat \ {0} /\ PowerOf2(n+1) = 2 * PowerOf2(n)
<1> DEFINE Power(g, k) == g = [i \in 0..k |-> IF i = 0 THEN 1 ELSE 2 * g[i-1]]
           power(k) == CHOOSE g : Power(g, k)
<1>1. \A k : PowerOf2(k) = power(k)[k]
  BY DEF PowerOf2
<1>2. ASSUME NEW k \in Nat
      PROVE  Power(power(k), k)
  <2>1. PICK F : F = [i \in Nat |-> [x \in Nat \ {0} |-> 2 * x]]
    OBVIOUS
  <2>2. F \in [Nat -> [Nat \ {0} -> Nat \ {0}]] /\ 1 \in Nat \ {0}
    BY <2>1
  <2>3. PICK g \in [0..k -> Nat \ {0}] : g[0] = 1 /\ \A i \in 1..k : g[i] = F[i][g[i-1]]
    <3>0. PICK S, a : S = Nat \ {0} /\ a = 1
      OBVIOUS
    <3>1. a \in S /\ F \in [Nat -> [S -> S]]
      BY <2>2, <3>0
    <3>2. \A q \in Nat : \E g \in [0..q -> S] :
            g[0] = a /\ \A i \in 1..q : g[i] = F[i][g[i-1]]
      BY <3>1, Loop
    <3>3. QED
      BY <3>0, <3>2
  <2>4. \A i \in 1..k : g[i] = 2 * g[i-1]
    <3>1. SUFFICES ASSUME NEW i \in 1..k PROVE g[i] = 2 * g[i-1]
      OBVIOUS
    <3>2. i-1 \in 0..k /\ i \in Nat
      OBVIOUS
    <3>3. g[i-1] \in Nat \ {0}
      BY <3>2
    <3>4. F[i][g[i-1]] = 2 * g[i-1]
      BY <2>1, <3>2, <3>3
    <3>5. QED
      BY <2>3, <3>4
  <2>5. Power(g, k)
    BY <2>3, <2>4
  <2>6. QED
    BY <2>5
<1> HIDE DEF power
<1>3. ASSUME NEW k \in Nat
      PROVE  /\ power(k)[0] = 1
             /\ \A i \in 1..k : power(k)[i] = 2 * power(k)[i-1]
  <2>1. PICK g : g = power(k)
    OBVIOUS
  <2>2. g = [i \in 0..k |-> IF i = 0 THEN 1 ELSE 2 * g[i-1]]
    <3>1. Power(g, k)
      BY <1>2, <2>1
    <3>2. QED
      BY <3>1
  <2>3. 0 \in 0..k /\ \A i \in 1..k : i \in 0..k /\ i # 0
    OBVIOUS
  <2>4. QED
    BY <2>1, <2>2, <2>3
<1> DEFINE Agree(i) == \A k \in Nat : i <= k => power(k)[i] = power(i)[i] /\ power(k)[i] \in Nat \ {0}
<1> HIDE DEF Power
<1>4. Agree(0)
  BY <1>3
<1>5. ASSUME NEW i \in Nat, Agree(i)
      PROVE  Agree(i+1) /\ power(i+1)[i+1] = 2 * power(i)[i]
  <2>1. ASSUME NEW k \in Nat, i+1 <= k
        PROVE  power(k)[i+1] = 2 * power(i)[i] /\ power(k)[i+1] \in Nat \ {0}
    <3>1. i+1 \in 1..k /\ (i+1)-1 = i
      BY <2>1
    <3>2. power(k)[i+1] = 2 * power(k)[i]
      BY <1>3, <3>1
    <3>3. power(k)[i] = power(i)[i] /\ power(k)[i] \in Nat \ {0}
      BY <1>5, <2>1
    <3>4. QED
      BY <3>2, <3>3
  <2>2. i+1 \in Nat
    OBVIOUS
  <2>3. QED
    BY <2>1, <2>2
<1>6. \A i \in Nat : Agree(i)
  <2>1. SUFFICES ASSUME NEW i \in Nat, ~ Agree(i) PROVE FALSE
    OBVIOUS
  <2>2. PICK T : T = {k \in Nat : ~ Agree(k)}
    OBVIOUS
  <2>3. T \subseteq Nat /\ T # {}
    BY <2>1, <2>2
  <2>4. PICK m \in T : \A k \in T : m <= k
    BY <2>3, LeastNat
  <2>5. m \in Nat /\ m # 0
    BY <1>4, <2>2, <2>4
  <2>6. m-1 \in Nat /\ ~ (m <= m-1) /\ (m-1)+1 = m
    BY <2>5
  <2>7. Agree(m-1)
    BY <2>2, <2>4, <2>6
  <2>8. Agree((m-1)+1)
    BY <1>5, <2>6, <2>7
  <2>9. QED
    BY <2>2, <2>4, <2>6, <2>8
<1>7. PowerOf2(0) = 1
  BY <1>1, <1>3
<1>8. ASSUME NEW n \in Nat
      PROVE  PowerOf2(n) \in Nat \ {0} /\ PowerOf2(n+1) = 2 * PowerOf2(n)
  BY <1>1, <1>5, <1>6
<1>9. QED
  BY <1>7, <1>8

THEOREM PowersGrow ==
  ASSUME NEW m \in Nat, NEW n \in Nat
  PROVE  /\ m <= n => PowerOf2(m) <= PowerOf2(n)
         /\ m < n => PowerOf2(m) < PowerOf2(n)
<1>1. \A k \in Nat : PowerOf2(k) \in Nat \ {0} /\ PowerOf2(k+1) = 2 * PowerOf2(k)
  BY Powers
<1>2. \A r \in Nat : m <= r => PowerOf2(m) <= PowerOf2(r)
  <2>1. SUFFICES ASSUME NEW r \in Nat, m <= r, ~ (PowerOf2(m) <= PowerOf2(r))
                 PROVE  FALSE
    OBVIOUS
  <2>2. PICK T : T = {k \in Nat : m <= k /\ ~ (PowerOf2(m) <= PowerOf2(k))}
    OBVIOUS
  <2>3. T \subseteq Nat /\ T # {}
    BY <2>1, <2>2
  <2>4. PICK k \in T : \A p \in T : k <= p
    BY <2>3, LeastNat
  <2>5. k \in Nat /\ m <= k /\ ~ (PowerOf2(m) <= PowerOf2(k))
    BY <2>2, <2>4
  <2>6. k # m
    BY <1>1, <2>5
  <2>7. k-1 \in Nat /\ m <= k-1 /\ (k-1)+1 = k
    BY <2>5, <2>6
  <2>8. k-1 \notin T
    BY <2>4, <2>7
  <2>9. PowerOf2(m) <= PowerOf2(k-1)
    BY <2>2, <2>7, <2>8
  <2>10. PowerOf2(k) = 2 * PowerOf2(k-1)
    BY <1>1, <2>7
  <2>11. PowerOf2(m) \in Nat /\ PowerOf2(k-1) \in Nat /\ PowerOf2(k) \in Nat
    BY <1>1, <2>7
  <2>12. QED
    BY <2>5, <2>9, <2>10, <2>11
<1>3. ASSUME m < n
      PROVE  PowerOf2(m) < PowerOf2(n)
  <2>1. n-1 \in Nat /\ m <= n-1 /\ (n-1)+1 = n
    BY <1>3
  <2>2. PowerOf2(m) <= PowerOf2(n-1) /\ PowerOf2(n) = 2 * PowerOf2(n-1)
    BY <1>1, <1>2, <2>1
  <2>3. PowerOf2(m) \in Nat /\ PowerOf2(n-1) \in Nat \ {0}
    BY <1>1, <2>1
  <2>4. QED
    BY <2>2, <2>3
<1>4. QED
  BY <1>2, <1>3

-----------------------------------------------------------------------------
(* Fingerprints in slots, matched with the keys they are of. *)

(* The fingerprints that lie somewhere, of the classes given, belong to    *)
(* keys of the same classes, each to another one.                          *)
OneEach(slots, keys, inHand) ==
  \E owner \in [DOMAIN slots -> DOMAIN keys] :
    /\ \A t, u \in DOMAIN slots : owner[t] = owner[u] => t = u
    /\ \A t \in DOMAIN slots : keys[owner[t]] = slots[t]
    /\ \A k \in inHand : \E x \in DOMAIN keys :
         keys[x] = k /\ \A t \in DOMAIN slots : owner[t] # x

(* A key that is about to be inserted owns what is in hand. *)
LEMMA MatchInsert ==
  ASSUME NEW slots, NEW keys, NEW more, NEW x, OneEach(slots, keys, {}),
         x \notin DOMAIN keys, DOMAIN more = DOMAIN keys \cup {x},
         \A y \in DOMAIN keys : more[y] = keys[y]
  PROVE  OneEach(slots, more, {more[x]})
<1>1. PICK owner \in [DOMAIN slots -> DOMAIN keys] :
        /\ \A t, u \in DOMAIN slots : owner[t] = owner[u] => t = u
        /\ \A t \in DOMAIN slots : keys[owner[t]] = slots[t]
  BY DEF OneEach
<1>2. \A t \in DOMAIN slots : owner[t] \in DOMAIN keys /\ owner[t] # x
  BY <1>1
<1>3. owner \in [DOMAIN slots -> DOMAIN more]
  BY <1>1
<1>4. \A t \in DOMAIN slots : more[owner[t]] = slots[t]
  BY <1>1, <1>2
<1>5. \A k \in {more[x]} : \E y \in DOMAIN more :
        more[y] = k /\ \A t \in DOMAIN slots : owner[t] # y
  BY <1>2
<1> QED
  BY <1>1, <1>3, <1>4, <1>5 DEF OneEach

(* The owner of what was in hand owns the slot it is put into. *)
LEMMA MatchPlace ==
  ASSUME NEW slots, NEW keys, NEW more, NEW t, NEW k, OneEach(slots, keys, {k}),
         t \notin DOMAIN slots, DOMAIN more = DOMAIN slots \cup {t}, more[t] = k,
         \A u \in DOMAIN slots : more[u] = slots[u]
  PROVE  OneEach(more, keys, {})
<1>1. PICK owner \in [DOMAIN slots -> DOMAIN keys] :
        /\ \A u, w \in DOMAIN slots : owner[u] = owner[w] => u = w
        /\ \A u \in DOMAIN slots : keys[owner[u]] = slots[u]
        /\ \E x \in DOMAIN keys : keys[x] = k /\ \A u \in DOMAIN slots : owner[u] # x
  BY DEF OneEach
<1>2. PICK x \in DOMAIN keys : keys[x] = k /\ \A u \in DOMAIN slots : owner[u] # x
  BY <1>1
<1>3. PICK new : new = [u \in DOMAIN more |-> IF u = t THEN x ELSE owner[u]]
  OBVIOUS
<1>4. new \in [DOMAIN more -> DOMAIN keys]
  BY <1>1, <1>2, <1>3
<1>5. \A u, w \in DOMAIN more : new[u] = new[w] => u = w
  BY <1>1, <1>2, <1>3
<1>6. \A u \in DOMAIN more : keys[new[u]] = more[u]
  BY <1>1, <1>2, <1>3
<1> QED
  BY <1>4, <1>5, <1>6 DEF OneEach

(* Who is evicted takes its owner along. *)
LEMMA MatchEvict ==
  ASSUME NEW slots, NEW keys, NEW new, NEW t, NEW k, OneEach(slots, keys, {k}),
         t \in DOMAIN slots, DOMAIN new = DOMAIN slots, new[t] = k,
         \A u \in DOMAIN slots \ {t} : new[u] = slots[u]
  PROVE  OneEach(new, keys, {slots[t]})
<1>1. PICK owner \in [DOMAIN slots -> DOMAIN keys] :
        /\ \A u, w \in DOMAIN slots : owner[u] = owner[w] => u = w
        /\ \A u \in DOMAIN slots : keys[owner[u]] = slots[u]
        /\ \E x \in DOMAIN keys : keys[x] = k /\ \A u \in DOMAIN slots : owner[u] # x
  BY DEF OneEach
<1>2. PICK x \in DOMAIN keys : keys[x] = k /\ \A u \in DOMAIN slots : owner[u] # x
  BY <1>1
<1>3. PICK to : to = [u \in DOMAIN new |-> IF u = t THEN x ELSE owner[u]]
  OBVIOUS
<1>4. to \in [DOMAIN new -> DOMAIN keys]
  BY <1>1, <1>2, <1>3
<1>5. \A u, w \in DOMAIN new : to[u] = to[w] => u = w
  BY <1>1, <1>2, <1>3
<1>6. \A u \in DOMAIN new : keys[to[u]] = new[u]
  BY <1>1, <1>2, <1>3
<1>7. owner[t] \in DOMAIN keys /\ keys[owner[t]] = slots[t]
      /\ \A u \in DOMAIN new : to[u] # owner[t]
  BY <1>1, <1>2, <1>3
<1> QED
  BY <1>4, <1>5, <1>6, <1>7 DEF OneEach

(* What is in hand may get lost. *)
LEMMA MatchLose ==
  ASSUME NEW slots, NEW keys, NEW inHand, OneEach(slots, keys, inHand)
  PROVE  OneEach(slots, keys, {})
BY DEF OneEach

(* Of every class no more fingerprints lie in slots or in hand than keys   *)
(* have it.                                                                *)
LEMMA MatchCounts ==
  ASSUME NEW slots, NEW keys, NEW inHand, OneEach(slots, keys, inHand),
         IsFiniteSet(DOMAIN slots), IsFiniteSet(DOMAIN keys), NEW k
  PROVE  LET lie == Cardinality({t \in DOMAIN slots : slots[t] = k})
             have == Cardinality({x \in DOMAIN keys : keys[x] = k})
         IN  lie + (IF k \in inHand THEN 1 ELSE 0) <= have
<1>1. PICK owner \in [DOMAIN slots -> DOMAIN keys] :
        /\ \A t, u \in DOMAIN slots : owner[t] = owner[u] => t = u
        /\ \A t \in DOMAIN slots : keys[owner[t]] = slots[t]
        /\ k \in inHand => \E x \in DOMAIN keys :
             keys[x] = k /\ \A t \in DOMAIN slots : owner[t] # x
  BY DEF OneEach
<1>2. PICK S : S = {t \in DOMAIN slots : slots[t] = k}
  OBVIOUS
<1>3. PICK X : X = {x \in DOMAIN keys : keys[x] = k}
  OBVIOUS
<1>4. IsFiniteSet(S) /\ IsFiniteSet(X) /\ Cardinality(S) \in Nat /\ Cardinality(X) \in Nat
  <2>1. S \in SUBSET DOMAIN slots /\ X \in SUBSET DOMAIN keys
    BY <1>2, <1>3
  <2> QED
    BY <2>1, FS_Subset, FS_CardinalityType
<1>5. PICK f : f = [t \in S |-> owner[t]]
  OBVIOUS
<1>6. f \in [S -> X] /\ \A t, u \in S : f[t] = f[u] => t = u
  BY <1>1, <1>2, <1>3, <1>5
<1>7. CASE k \notin inHand
  <2>1. f \in Injection(S, X)
    BY <1>6 DEF Injection, IsInjective
  <2>2. Cardinality(S) <= Cardinality(X)
    BY <1>4, <2>1, FS_Injection
  <2> QED
    BY <1>2, <1>3, <1>4, <1>7, <2>2
<1>8. CASE k \in inHand
  <2>1. PICK x \in X : \A t \in DOMAIN slots : owner[t] # x
    BY <1>1, <1>3, <1>8
  <2>2. PICK Y : Y = X \ {x}
    OBVIOUS
  <2>3. f \in [S -> Y]
    BY <1>2, <1>5, <1>6, <2>1, <2>2
  <2>4. f \in Injection(S, Y)
    BY <1>6, <2>3 DEF Injection, IsInjective
  <2>5. IsFiniteSet(Y) /\ Cardinality(Y) = Cardinality(X) - 1
    BY <1>4, <2>1, <2>2, FS_RemoveElement
  <2>6. Cardinality(S) <= Cardinality(Y)
    BY <1>4, <2>4, <2>5, FS_Injection
  <2> QED
    BY <1>2, <1>3, <1>4, <1>8, <2>5, <2>6
<1> QED
  BY <1>7, <1>8

(* No more keys miss their fingerprint than there are more keys than slots *)
(* taken.                                                                  *)
LEMMA MatchMissing ==
  ASSUME NEW slots, NEW keys, NEW inHand, OneEach(slots, keys, inHand),
         IsFiniteSet(DOMAIN slots), IsFiniteSet(DOMAIN keys)
  PROVE  /\ Cardinality({x \in DOMAIN keys : \A t \in DOMAIN slots : slots[t] # keys[x]})
              <= Cardinality(DOMAIN keys) - Cardinality(DOMAIN slots)
         /\ IsFiniteSet({x \in DOMAIN keys : \A t \in DOMAIN slots : slots[t] # keys[x]})
<1>1. PICK owner \in [DOMAIN slots -> DOMAIN keys] :
        /\ \A t, u \in DOMAIN slots : owner[t] = owner[u] => t = u
        /\ \A t \in DOMAIN slots : keys[owner[t]] = slots[t]
  BY DEF OneEach
<1>2. PICK S, X : S = DOMAIN slots /\ X = DOMAIN keys
  OBVIOUS
<1>3. PICK M : M = {x \in X : \A t \in S : slots[t] # keys[x]}
  OBVIOUS
<1>4. PICK Y : Y = X \ M
  OBVIOUS
<1>5. owner \in [S -> Y]
  BY <1>1, <1>2, <1>3, <1>4
<1>6. owner \in Injection(S, Y)
  BY <1>1, <1>2, <1>5 DEF Injection, IsInjective
<1>7. M \in SUBSET X /\ Y \in SUBSET X /\ X \cap M = M
  BY <1>3, <1>4
<1>8. /\ IsFiniteSet(M) /\ IsFiniteSet(Y) /\ IsFiniteSet(X)
      /\ Cardinality(M) \in Nat /\ Cardinality(Y) \in Nat /\ Cardinality(X) \in Nat
  BY <1>2, <1>7, FS_Subset, FS_CardinalityType
<1>9. Cardinality(Y) = Cardinality(X) - Cardinality(X \cap M)
  BY <1>4, <1>8, FS_Difference
<1>10. Cardinality(S) <= Cardinality(Y) /\ Cardinality(S) \in Nat
  BY <1>2, <1>6, <1>8, FS_Injection, FS_CardinalityType
<1> QED
  BY <1>2, <1>3, <1>7, <1>8, <1>9, <1>10

(* Where the fingerprints in slots move, and what was in hand takes a slot, *)
(* their owners go along.                                                  *)
Carried(from, slots, new, h, k) ==
  /\ h \notin DOMAIN slots
  /\ from \in [DOMAIN new -> DOMAIN slots \cup {h}]
  /\ \A t, u \in DOMAIN new : from[t] = from[u] => t = u
  /\ \A t \in DOMAIN new : new[t] = IF from[t] = h THEN k ELSE slots[from[t]]

LEMMA MatchMove ==
  ASSUME NEW slots, NEW keys, NEW new, NEW k, OneEach(slots, keys, {k}),
         NEW h, NEW from, Carried(from, slots, new, h, k)
  PROVE  /\ OneEach(new, keys, {})
         /\ \A v \in DOMAIN slots :
              (\A t \in DOMAIN new : from[t] # v) => OneEach(new, keys, {slots[v]})
<1>1. PICK owner \in [DOMAIN slots -> DOMAIN keys] :
        /\ \A u, w \in DOMAIN slots : owner[u] = owner[w] => u = w
        /\ \A u \in DOMAIN slots : keys[owner[u]] = slots[u]
        /\ \E x \in DOMAIN keys : keys[x] = k /\ \A u \in DOMAIN slots : owner[u] # x
  BY DEF OneEach
<1>2. PICK x \in DOMAIN keys : keys[x] = k /\ \A u \in DOMAIN slots : owner[u] # x
  BY <1>1
<1>0. /\ h \notin DOMAIN slots
      /\ from \in [DOMAIN new -> DOMAIN slots \cup {h}]
      /\ \A t, u \in DOMAIN new : from[t] = from[u] => t = u
      /\ \A t \in DOMAIN new : new[t] = IF from[t] = h THEN k ELSE slots[from[t]]
  BY DEF Carried
<1>3. PICK to : to = [t \in DOMAIN new |-> IF from[t] = h THEN x ELSE owner[from[t]]]
  OBVIOUS
<1>4. \A t \in DOMAIN new : from[t] # h => from[t] \in DOMAIN slots
  BY <1>0
<1>5. to \in [DOMAIN new -> DOMAIN keys]
  BY <1>0, <1>1, <1>2, <1>3, <1>4
<1>6. \A t, u \in DOMAIN new : to[t] = to[u] => t = u
  BY <1>0, <1>1, <1>2, <1>3, <1>4
<1>7. \A t \in DOMAIN new : keys[to[t]] = new[t]
  BY <1>0, <1>1, <1>2, <1>3, <1>4
<1>8. OneEach(new, keys, {})
  BY <1>5, <1>6, <1>7 DEF OneEach
<1>9. ASSUME NEW v \in DOMAIN slots, \A t \in DOMAIN new : from[t] # v
      PROVE  OneEach(new, keys, {slots[v]})
  <2>1. /\ owner[v] \in DOMAIN keys /\ keys[owner[v]] = slots[v]
        /\ \A t \in DOMAIN new : to[t] # owner[v]
    BY <1>0, <1>1, <1>2, <1>3, <1>4, <1>9
  <2> QED
    BY <1>5, <1>6, <1>7, <2>1 DEF OneEach
<1> QED
  BY <1>8, <1>9
=============================================================================

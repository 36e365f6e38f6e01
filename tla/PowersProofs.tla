---------------------------- MODULE PowersProofs ----------------------------
(***************************************************************************)
(* Induction over the natural numbers stated with a set, which the provers *)
(* can instantiate, and what follows from it: functions defined by         *)
(* recursion on 0 .. N exist, powers of two are what they should be, and   *)
(* what becomes of a directory of 2^g entries when a segment of it is      *)
(* divided or the directory is doubled.                                    *)
(***************************************************************************)
EXTENDS Powers, TLAPS, WellFoundedInduction

\* A nonempty set of natural numbers has a least element.
LEMMA Least ==
  ASSUME NEW T \in SUBSET Nat, T # {}
  PROVE  \E n \in T : \A m \in T : n <= m
<1>1. PICK x \in T : \A y \in T : ~(<<y, x>> \in OpToRel(<, Nat))
  BY WFMin, NatLessThanWellFounded
<1>2. \A y \in T : ~(y < x)
  BY <1>1 DEF OpToRel
<1> QED
  BY <1>2

\* A set that has 0 and is closed under successor has every natural number.
LEMMA Induction ==
  ASSUME NEW T, 0 \in T, \A n \in Nat : n \in T => n + 1 \in T
  PROVE  Nat \subseteq T
<1> DEFINE C == Nat \ T
<1>1. SUFFICES ASSUME C # {} PROVE FALSE
  OBVIOUS
<1>2. PICK n \in C : \A m \in C : n <= m
  BY <1>1, Least
<1>3. n # 0 /\ n - 1 \in Nat /\ n - 1 \notin C
  BY <1>2
<1> QED
  BY <1>2, <1>3

\* The same up to a bound: the form for invariants of a counted loop.
LEMMA BoundedInduction ==
  ASSUME NEW N \in Nat, NEW T, 0 \in T, \A n \in 0 .. N - 1 : n \in T => n + 1 \in T
  PROVE  0 .. N \subseteq T
<1> DEFINE U == {n \in Nat : n <= N => n \in T}
<1>1. 0 \in U
  OBVIOUS
<1>2. \A n \in Nat : n \in U => n + 1 \in U
  OBVIOUS
<1> HIDE DEF U
<1>3. Nat \subseteq U
  BY <1>1, <1>2, Induction
<1> QED
  BY <1>3 DEF U

\* The bodies of a loop of N turns over a value in S: turn i makes step[i][v] of v.
LoopBodies(N, S) == [1 .. N -> [S -> S]]

\* f[i] is the value after turn i of the loop that starts with c.
IsRun(N, S, c, step, f) ==
  f \in [0 .. N -> S] /\ f[0] = c /\ \A i \in 1 .. N : f[i] = step[i][f[i - 1]]

\* A counted loop has a value after each turn.
LEMMA LoopExists ==
  ASSUME NEW N \in Nat, NEW S, NEW c \in S, NEW step \in LoopBodies(N, S)
  PROVE  \E f : IsRun(N, S, c, step, f)
<1> USE DEF LoopBodies
<1> DEFINE Upto(n, f) == f[0] = c /\ \A i \in 1 .. n : f[i] = step[i][f[i - 1]]
           T == {n \in 0 .. N : \E f \in [0 .. N -> S] : Upto(n, f)}
<1>1. 0 \in T
  <2> DEFINE f == [i \in 0 .. N |-> c]
  <2>1. f \in [0 .. N -> S] /\ Upto(0, f)
    OBVIOUS
  <2> HIDE DEF f
  <2> QED
    BY <2>1
<1>2. \A n \in 0 .. N - 1 : n \in T => n + 1 \in T
  <2> SUFFICES ASSUME NEW n \in 0 .. N - 1, n \in T PROVE n + 1 \in T
    OBVIOUS
  <2>1. PICK f \in [0 .. N -> S] : Upto(n, f)
    OBVIOUS
  <2> DEFINE g == [f EXCEPT ![n + 1] = step[n + 1][f[n]]]
  <2>2. g \in [0 .. N -> S]
    OBVIOUS
  <2>3. Upto(n + 1, g)
    BY <2>1
  <2> HIDE DEF g
  <2> QED
    BY <2>2, <2>3
<1> HIDE DEF T
<1>3. 0 .. N \subseteq T
  BY <1>1, <1>2, BoundedInduction
<1>4. N \in T
  BY <1>3
<1> QED
  BY <1>4 DEF T, IsRun

\* Two runs of the same loop agree.
LEMMA LoopUnique ==
  ASSUME NEW N \in Nat, NEW S, NEW c, NEW step, NEW f, NEW g,
         IsRun(N, S, c, step, f), IsRun(N, S, c, step, g)
  PROVE  f = g
<1> USE DEF IsRun
<1> DEFINE T == {n \in 0 .. N : f[n] = g[n]}
<1>1. 0 \in T
  OBVIOUS
<1>2. \A n \in 0 .. N - 1 : n \in T => n + 1 \in T
  OBVIOUS
<1> HIDE DEF T
<1>3. 0 .. N \subseteq T
  BY <1>1, <1>2, BoundedInduction
<1>4. \A n \in 0 .. N : f[n] = g[n]
  BY <1>3 DEF T
<1> QED
  BY <1>4

-----------------------------------------------------------------------------
(* Powers of two                                                            *)

\* Its defining equation holds.
LEMMA Pow2Def ==
  Pow2 = [n \in Nat |-> IF n = 0 THEN 1 ELSE 2 * Pow2[n - 1]]
<1> DEFINE Good(n, g) == g[0] = 1 /\ \A i \in 1 .. n : g[i] = 2 * g[i - 1]
           G(n) == CHOOSE g \in [0 .. n -> Nat] : Good(n, g)
           f == [n \in Nat |-> G(n)[n]]
<1>1. \A n \in Nat : G(n) \in [0 .. n -> Nat] /\ Good(n, G(n))
  <2> SUFFICES ASSUME NEW n \in Nat
               PROVE  \E g \in [0 .. n -> Nat] : Good(n, g)
    OBVIOUS
  <2>1. PICK S : S = Nat
    OBVIOUS
  <2>2. PICK c \in S : c = 1
    BY <2>1
  <2> DEFINE twice == [v \in S |-> 2 * v]
             step == [i \in 1 .. n |-> twice]
  <2>3. step \in LoopBodies(n, S) /\ \A i \in 1 .. n : \A v \in S : step[i][v] = 2 * v
    BY <2>1 DEF LoopBodies
  <2> HIDE DEF step
  <2>4. PICK g : IsRun(n, S, c, step, g)
    BY <2>2, <2>3, LoopExists
  <2>5. g \in [0 .. n -> S] /\ Good(n, g)
    <3>1. \A i \in 1 .. n : i - 1 \in 0 .. n /\ g[i - 1] \in S
      BY <2>4 DEF IsRun
    <3> QED
      BY <2>2, <2>3, <2>4, <3>1 DEF IsRun
  <2> QED
    BY <2>1, <2>5
<1> HIDE DEF G
<1>2. \A n \in Nat \ {0} : G(n)[n - 1] = G(n - 1)[n - 1]
  <2> SUFFICES ASSUME NEW n \in Nat \ {0}
               PROVE  G(n)[n - 1] = G(n - 1)[n - 1]
    OBVIOUS
  <2>0. PICK N \in Nat : N = n - 1
    OBVIOUS
  <2> DEFINE T == {m \in 0 .. N : G(n)[m] = G(N)[m]}
  <2>1. /\ G(n)[0] = 1 /\ \A i \in 1 .. n : G(n)[i] = 2 * G(n)[i - 1]
        /\ G(N)[0] = 1 /\ \A i \in 1 .. N : G(N)[i] = 2 * G(N)[i - 1]
    BY <1>1
  <2>2. 0 \in T
    BY <2>1
  <2>3. \A m \in 0 .. N - 1 : m \in T => m + 1 \in T
    <3> SUFFICES ASSUME NEW m \in 0 .. N - 1, m \in T PROVE m + 1 \in T
      OBVIOUS
    <3>1. m + 1 \in 1 .. n /\ m + 1 \in 1 .. N /\ m + 1 \in 0 .. N /\ (m + 1) - 1 = m
      BY <2>0
    <3>2. G(n)[m + 1] = 2 * G(n)[m] /\ G(N)[m + 1] = 2 * G(N)[m]
      BY <2>1, <3>1
    <3> QED
      BY <3>1, <3>2
  <2> HIDE DEF T
  <2>4. 0 .. N \subseteq T
    BY <2>2, <2>3, BoundedInduction
  <2>5. N \in T
    BY <2>4
  <2> QED
    BY <2>0, <2>5 DEF T
<1>3. f = [n \in Nat |-> IF n = 0 THEN 1 ELSE 2 * f[n - 1]]
  <2>1. ASSUME NEW n \in Nat PROVE f[n] = IF n = 0 THEN 1 ELSE 2 * f[n - 1]
    <3>1. f[n] = G(n)[n] /\ (n # 0 => n - 1 \in Nat /\ f[n - 1] = G(n - 1)[n - 1])
      OBVIOUS
    <3> HIDE DEF f
    <3>2. CASE n = 0
      BY <1>1, <3>1, <3>2
    <3>3. CASE n # 0
      <4>1. n \in 1 .. n /\ G(n)[n] = 2 * G(n)[n - 1]
        BY <1>1, <3>3
      <4> QED
        BY <1>2, <3>1, <3>3, <4>1
    <3> QED
      BY <3>2, <3>3
  <2> QED
    BY <2>1
<1> HIDE DEF f
<1> QED
  BY <1>3 DEF Pow2

\* Powers of two are positive, and doubling adds one to the exponent.
LEMMA Pow2Step ==
  /\ Pow2[0] = 1
  /\ \A n \in Nat : Pow2[n] \in Nat \ {0} /\ Pow2[n + 1] = 2 * Pow2[n]
<1>1. Pow2[0] = 1 /\ \A n \in Nat : Pow2[n + 1] = 2 * Pow2[n]
  <2>1. \A n \in Nat : Pow2[n] = IF n = 0 THEN 1 ELSE 2 * Pow2[n - 1]
    BY Pow2Def, Zenon
  <2>2. \A n \in Nat : n + 1 \in Nat /\ n + 1 # 0 /\ (n + 1) - 1 = n
    OBVIOUS
  <2> QED
    BY <2>1, <2>2
<1> DEFINE T == {n \in Nat : Pow2[n] \in Nat \ {0}}
<1>2. 0 \in T /\ \A n \in Nat : n \in T => n + 1 \in T
  BY <1>1
<1> HIDE DEF T
<1>3. Nat \subseteq T
  BY <1>2, Induction
<1> QED
  BY <1>1, <1>3 DEF T

\* Powers of two multiply.
LEMMA Pow2Sum ==
  ASSUME NEW a \in Nat, NEW b \in Nat
  PROVE  Pow2[a + b] = Pow2[a] * Pow2[b]
<1> DEFINE T == {n \in Nat : Pow2[a + n] = Pow2[a] * Pow2[n]}
<1>1. 0 \in T
  BY Pow2Step
<1>2. ASSUME NEW n \in Nat, n \in T PROVE n + 1 \in T
  <2>1. a + (n + 1) = (a + n) + 1 /\ a + n \in Nat
    OBVIOUS
  <2>2. Pow2[a + (n + 1)] = 2 * (Pow2[a] * Pow2[n])
    BY <1>2, <2>1, Pow2Step
  <2>3. Pow2[n + 1] = 2 * Pow2[n] /\ Pow2[a] \in Nat /\ Pow2[n] \in Nat
    BY Pow2Step
  <2>4. \A p, q \in Nat : 2 * (p * q) = p * (2 * q)
    OBVIOUS
  <2> QED
    BY <2>2, <2>3, <2>4
<1> HIDE DEF T
<1>3. Nat \subseteq T
  BY <1>1, <1>2, Induction
<1> QED
  BY <1>3 DEF T

\* Powers of two divide and bound larger ones.
LEMMA Pow2Diff ==
  ASSUME NEW a \in Nat, NEW b \in Nat, a <= b
  PROVE  /\ Pow2[b] = Pow2[a] * Pow2[b - a]
         /\ Pow2[a] <= Pow2[b]
         /\ a < b => Pow2[a] < Pow2[b]
<1>1. Pow2[b] = Pow2[a] * Pow2[b - a]
  <2>1. b - a \in Nat /\ a + (b - a) = b
    OBVIOUS
  <2> QED
    BY <2>1, Pow2Sum
<1>2. Pow2[a] \in Nat \ {0} /\ Pow2[b - a] \in Nat \ {0}
  BY Pow2Step
<1>3. Pow2[a] <= Pow2[b]
  BY <1>1, <1>2
<1>4. ASSUME a < b PROVE Pow2[b - a] >= 2
  <2>1. b - a - 1 \in Nat /\ (b - a - 1) + 1 = b - a
    BY <1>4
  <2>2. Pow2[b - a] = 2 * Pow2[b - a - 1] /\ Pow2[b - a - 1] \in Nat \ {0}
    BY <2>1, Pow2Step
  <2> QED
    BY <2>2
<1> QED
  BY <1>1, <1>2, <1>3, <1>4

-----------------------------------------------------------------------------
(* Bits of a number: remainders and quotients                               *)

\* A quotient and a remainder, and their equation.
LEMMA DivMod ==
  ASSUME NEW a \in Nat, NEW m \in Nat \ {0}
  PROVE  \E q \in Nat, r \in 0 .. m - 1 : a \div m = q /\ a % m = r /\ a = m * q + r
<1>1. a \div m \in Nat /\ a % m \in 0 .. m - 1 /\ a = m * (a \div m) + (a % m)
  OBVIOUS
<1> QED
  BY <1>1

\* The equation determines them.
LEMMA DivModUnique ==
  ASSUME NEW a \in Nat, NEW m \in Nat \ {0}, NEW q \in Int, NEW r \in 0 .. m - 1, a = m * q + r
  PROVE  a \div m = q /\ a % m = r
OBVIOUS

\* The quotient is bounded when the dividend is.
LEMMA DivBound ==
  ASSUME NEW a \in Nat, NEW x \in Nat, NEW y \in Nat \ {0}, a < x * y
  PROVE  a \div y \in 0 .. x - 1
OBVIOUS

\* The low bits of the low bits.
LEMMA ModMod ==
  ASSUME NEW a \in Nat, NEW p \in Nat \ {0}, NEW q \in Nat \ {0}
  PROVE  (a % (p * q)) % p = a % p
<1>1. PICK m \in Nat \ {0} : m = p * q
  OBVIOUS
<1>2. PICK i \in Nat, j \in 0 .. m - 1 : a \div m = i /\ a % m = j /\ a = m * i + j
  BY DivMod
<1>3. PICK k \in Nat, r \in 0 .. p - 1 : j \div p = k /\ j % p = r /\ j = p * k + r
  BY DivMod
<1>4. a = p * (q * i + k) + r /\ q * i + k \in Nat
  <2>1. a = (p * q) * i + (p * k + r)
    BY <1>1, <1>2, <1>3
  <2>2. \A b, c, d, e, f \in Nat : (b * c) * d + (b * e + f) = b * (c * d + e) + f
    OBVIOUS
  <2>3. \A b, c, d \in Nat : b * c + d \in Nat
    OBVIOUS
  <2> QED
    BY <2>1, <2>2, <2>3
<1>5. a % p = r
  BY <1>4, DivModUnique
<1> QED
  BY <1>1, <1>2, <1>3, <1>5

\* The high bits of the high bits.
LEMMA DivDiv ==
  ASSUME NEW a \in Nat, NEW p \in Nat \ {0}, NEW q \in Nat \ {0}
  PROVE  (a \div p) \div q = a \div (p * q)
<1>1. PICK m \in Nat \ {0} : m = p * q
  OBVIOUS
<1>2. PICK i \in Nat, j \in 0 .. p - 1 : a \div p = i /\ a % p = j /\ a = p * i + j
  BY DivMod
<1>3. PICK k \in Nat, r \in 0 .. q - 1 : i \div q = k /\ i % q = r /\ i = q * k + r
  BY DivMod
<1>4. a = m * k + (p * r + j)
  <2>1. a = p * (q * k + r) + j
    BY <1>2, <1>3
  <2>2. \A b, c, d, e, f \in Nat : b * (c * d + e) + f = (b * c) * d + (b * e + f)
    OBVIOUS
  <2> QED
    BY <1>1, <2>1, <2>2
<1>5. p * r + j \in 0 .. m - 1
  <2>1. p * r <= p * (q - 1) /\ p * (q - 1) = (p * q) - p /\ p * r \in Nat
    OBVIOUS
  <2> QED BY <1>1, <2>1
<1>6. a \div m = k
  BY <1>4, <1>5, DivModUnique
<1> QED
  BY <1>1, <1>2, <1>3, <1>6

\* Dividing by a power of two and then by two.
LEMMA DivTwice ==
  ASSUME NEW a \in Nat, NEW p \in Nat \ {0}, NEW d \in Nat \ {0}, d = 2 * p
  PROVE  (a \div p) \div 2 = a \div d
<1>1. \A q \in Nat \ {0} : (a \div p) \div q = a \div (p * q)
  BY DivDiv
<1>2. PICK q \in Nat \ {0} : q = 2
  OBVIOUS
<1>3. p * q = d
  BY <1>2
<1>4. (a \div p) \div q = a \div d
  BY <1>1, <1>3
<1> QED
  BY <1>2, <1>4

\* One more low bit.
LEMMA ModTwice ==
  ASSUME NEW a \in Nat, NEW m \in Nat \ {0}, NEW n \in Nat \ {0}, n = 2 * m
  PROVE  a % n = (a % m) + m * ((a \div m) % 2)
<1>0. \A p \in Nat \ {0} : \A k \in Nat : \A s \in 0 .. p - 1 : a = p * k + s => a % p = s
  BY DivModUnique
<1>1. PICK i \in Nat, j \in 0 .. m - 1 : a \div m = i /\ a % m = j /\ a = m * i + j
  BY DivMod
<1>2. PICK k \in Nat, r \in 0 .. 1 : i \div 2 = k /\ i % 2 = r /\ i = 2 * k + r
  BY DivMod
<1>3. a = n * k + (m * r + j)
  <2>1. a = m * (2 * k + r) + j
    BY <1>1, <1>2
  <2>2. \A b, d, e, f \in Nat : b * (2 * d + e) + f = (2 * b) * d + (b * e + f)
    OBVIOUS
  <2> QED
    BY <2>1, <2>2
<1>4. m * r + j \in 0 .. n - 1
  <2>1. m * r \in {0, m}
    OBVIOUS
  <2> QED BY <2>1
<1>5. a % n = m * r + j
  <2>1. PICK s \in 0 .. n - 1 : s = m * r + j
    BY <1>4
  <2>2. a = n * k + s
    BY <1>3, <2>1
  <2>3. a % n = s
    BY <1>0, <2>2
  <2> QED
    BY <2>1, <2>3
<1>6. m * r + j = j + m * r
  OBVIOUS
<1> QED
  BY <1>1, <1>2, <1>5, <1>6

-----------------------------------------------------------------------------
(* Directories as functions: F gives a segment to each of Pow2[g] entries,  *)
(* D a depth to each segment                                                *)

\* The entries of a segment are those with one prefix of as many bits as the
\* depth of the segment.
Ranged(g, F, D) ==
  \A x, y \in 0 .. Pow2[g] - 1 :
    /\ D[F[x]] <= g
    /\ x \div Pow2[g - D[F[x]]] = y \div Pow2[g - D[F[x]]] <=> F[x] = F[y]

\* A range of 2 * h entries and its two halves.
LEMMA HalfRange ==
  ASSUME NEW h \in Nat \ {0}, NEW r \in Nat \ {0}, r = 2 * h, NEW x \in Nat, NEW y \in Nat
  PROVE  x \div h = y \div h <=> x \div r = y \div r /\ (x \div h) % 2 = (y \div h) % 2
<1>1. (x \div h) \div 2 = x \div r /\ (y \div h) \div 2 = y \div r
  BY DivTwice
<1>2. PICK a, b \in Nat : a = x \div h /\ b = y \div h
  <2>1. x \div h \in Nat /\ y \div h \in Nat
    <3>1. x \div h \in Nat
      BY DivMod
    <3>2. y \div h \in Nat
      BY DivMod
    <3> QED
      BY <3>1, <3>2
  <2> QED
    BY <2>1
<1>3. a = b <=> a \div 2 = b \div 2 /\ a % 2 = b % 2
  OBVIOUS
<1> QED
  BY <1>1, <1>2, <1>3

\* G is F with the range of i divided between two segments.
Divided(g, F, i, d, a, b, G) ==
  \A x \in 0 .. Pow2[g] - 1 :
    G[x] = IF F[x] # i THEN F[x] ELSE IF (x \div Pow2[g - d - 1]) % 2 = 0 THEN a ELSE b

\* D gives a and b the depth d + 1, and E gives it to them too, and agrees
\* otherwise but for i.
Deepened(P, D, i, d, a, b, E) ==
  /\ D \in [P -> Nat] /\ E \in [P -> Nat]
  /\ a \in P /\ b \in P /\ i \in P /\ d = D[i]
  /\ E[a] = d + 1 /\ E[b] = d + 1
  /\ \A j \in P : j \notin {a, b, i} => E[j] = D[j]

\* b is new, and so is a unless it is i.
Unused(g, F, i, a, b) ==
  a # b /\ \A x \in 0 .. Pow2[g] - 1 : F[x] # b /\ (F[x] = a => a = i)

\* Dividing the range of one segment between two of a depth one greater.
LEMMA RangeSplit ==
  ASSUME NEW g \in Nat, NEW P, NEW F, NEW D, NEW E, NEW G, NEW d \in Nat, d < g,
         NEW i, NEW a, NEW b, NEW p \in 0 .. Pow2[g] - 1, F[p] = i,
         F \in [0 .. Pow2[g] - 1 -> P], Ranged(g, F, D), Unused(g, F, i, a, b),
         Deepened(P, D, i, d, a, b, E), Divided(g, F, i, d, a, b, G)
  PROVE  Ranged(g, G, E)
<1>1. g - d \in Nat /\ g - d - 1 \in Nat /\ g - (d + 1) = g - d - 1 /\ (g - d - 1) + 1 = g - d
  OBVIOUS
<1>2. PICK h \in Nat \ {0}, r \in Nat \ {0} : h = Pow2[g - d - 1] /\ r = Pow2[g - d] /\ r = 2 * h
  BY <1>1, Pow2Step
<1>3. Pow2[g] \in Nat
  BY Pow2Step
<1> SUFFICES ASSUME NEW x \in 0 .. Pow2[g] - 1, NEW y \in 0 .. Pow2[g] - 1
             PROVE  /\ E[G[x]] <= g
                    /\ x \div Pow2[g - E[G[x]]] = y \div Pow2[g - E[G[x]]] <=> G[x] = G[y]
  BY DEF Ranged
<1>4. x \in Nat /\ y \in Nat
  BY <1>3
<1>5. \A z \in 0 .. Pow2[g] - 1 : p \div r = z \div r <=> F[z] = i
  <2>1. D[F[p]] = d /\ Pow2[g - D[F[p]]] = r
    BY <1>2 DEF Deepened
  <2>2. \A z \in 0 .. Pow2[g] - 1 : p \div Pow2[g - D[F[p]]] = z \div Pow2[g - D[F[p]]] <=> F[p] = F[z]
    BY DEF Ranged
  <2> QED
    BY <2>1, <2>2
<1>6. x \div h = y \div h <=> x \div r = y \div r /\ (x \div h) % 2 = (y \div h) % 2
  <2>1. \A m, n \in Nat \ {0} : n = 2 * m =>
          \A u, v \in Nat : u \div m = v \div m <=> u \div n = v \div n /\ (u \div m) % 2 = (v \div m) % 2
    BY HalfRange
  <2>2. \A u, v \in Nat : u \div h = v \div h <=> u \div r = v \div r /\ (u \div h) % 2 = (v \div h) % 2
    BY <1>2, <2>1, Zenon
  <2> QED
    BY <1>4, <2>2, Zenon
<1>7. (x \div h) % 2 \in {0, 1} /\ (y \div h) % 2 \in {0, 1}
  <2>1. x \div h \in Nat /\ y \div h \in Nat
    <3>1. x \div h \in Nat
      BY <1>4, DivMod
    <3>2. y \div h \in Nat
      BY <1>4, DivMod
    <3> QED
      BY <3>1, <3>2
  <2> QED
    BY <2>1
<1>8. CASE F[x] = i
  <2>1. G[x] = (IF (x \div h) % 2 = 0 THEN a ELSE b) /\ E[G[x]] = d + 1
    BY <1>2, <1>8 DEF Divided, Deepened
  <2>2. Pow2[g - E[G[x]]] = h /\ E[G[x]] <= g
    BY <1>1, <1>2, <2>1
  <2>3. x \div h = y \div h <=> G[x] = G[y]
    <3>1. CASE F[y] = i
      <4>1. G[y] = IF (y \div h) % 2 = 0 THEN a ELSE b
        BY <1>2, <3>1 DEF Divided
      <4>2. x \div r = y \div r
        BY <1>5, <1>8, <3>1
      <4> QED
        BY <1>6, <1>7, <2>1, <4>1, <4>2 DEF Unused
    <3>2. CASE F[y] # i
      <4>1. G[y] = F[y] /\ F[y] \notin {a, b}
        BY <3>2 DEF Divided, Unused
      <4>2. x \div r # y \div r
        BY <1>5, <1>8, <3>2
      <4> QED
        BY <1>6, <2>1, <4>1, <4>2
    <3> QED
      BY <3>1, <3>2
  <2> QED
    BY <2>2, <2>3
<1>9. CASE F[x] # i
  <2>1. G[x] = F[x] /\ F[x] \in P /\ F[x] \notin {a, b, i}
    BY <1>9 DEF Divided, Unused
  <2>2. E[G[x]] = D[F[x]]
    BY <2>1 DEF Deepened
  <2>3. /\ D[F[x]] <= g
        /\ x \div Pow2[g - D[F[x]]] = y \div Pow2[g - D[F[x]]] <=> F[x] = F[y]
    BY DEF Ranged
  <2>4. F[x] = F[y] <=> G[x] = G[y]
    <3>1. CASE F[y] = i
      <4>1. G[y] \in {a, b}
        BY <3>1 DEF Divided
      <4> QED
        BY <1>9, <2>1, <3>1, <4>1
    <3>2. CASE F[y] # i
      BY <2>1, <3>2 DEF Divided
    <3> QED
      BY <3>1, <3>2
  <2> QED
    BY <2>2, <2>3, <2>4
<1> QED
  BY <1>8, <1>9

\* G is F with every entry repeated.
Repeated(g, F, G) == \A n \in 0 .. Pow2[g + 1] - 1 : G[n] = F[n \div 2]

\* Repeating every entry.
LEMMA RangeRepeat ==
  ASSUME NEW g \in Nat, NEW P, NEW F, NEW D, NEW G,
         F \in [0 .. Pow2[g] - 1 -> P], D \in [P -> Nat], Ranged(g, F, D), Repeated(g, F, G)
  PROVE  Ranged(g + 1, G, D)
<1>1. Pow2[g + 1] = 2 * Pow2[g] /\ Pow2[g] \in Nat \ {0}
  BY Pow2Step
<1>0. PICK e \in Nat : e = g + 1
  OBVIOUS
<1> SUFFICES Ranged(e, G, D)
  BY <1>0
<1> SUFFICES ASSUME NEW x \in 0 .. Pow2[e] - 1, NEW y \in 0 .. Pow2[e] - 1
             PROVE  /\ D[G[x]] <= e
                    /\ x \div Pow2[e - D[G[x]]] = y \div Pow2[e - D[G[x]]] <=> G[x] = G[y]
  BY DEF Ranged
<1>2. PICK N \in Nat \ {0} : N = Pow2[g]
  BY <1>1
<1>3. x \in Nat /\ y \in Nat /\ x \div 2 \in 0 .. N - 1 /\ y \div 2 \in 0 .. N - 1
  BY <1>0, <1>1, <1>2
<1>4. G[x] = F[x \div 2] /\ G[y] = F[y \div 2]
  BY <1>0 DEF Repeated
<1>5. PICK d \in Nat : d = D[F[x \div 2]]
  BY <1>2, <1>3
<1>6. d <= g /\ ((x \div 2) \div Pow2[g - d] = (y \div 2) \div Pow2[g - d] <=> F[x \div 2] = F[y \div 2])
  BY <1>2, <1>3, <1>5 DEF Ranged
<1>7. g - d \in Nat /\ e - d = (g - d) + 1 /\ d <= e
  BY <1>0, <1>6
<1>8. PICK h \in Nat \ {0} : h = Pow2[g - d] /\ Pow2[e - d] = 2 * h
  BY <1>7, Pow2Step
<1>9. (x \div 2) \div h = x \div (2 * h) /\ (y \div 2) \div h = y \div (2 * h)
  <2>1. PICK two \in Nat \ {0} : two = 2
    OBVIOUS
  <2>2. (x \div two) \div h = x \div (two * h)
    BY <1>3, DivDiv
  <2>3. (y \div two) \div h = y \div (two * h)
    BY <1>3, DivDiv
  <2> QED
    BY <2>1, <2>2, <2>3
<1> QED
  BY <1>4, <1>5, <1>6, <1>7, <1>8, <1>9

\* Doubling a directory for a segment with one entry.
LEMMA RangeDouble ==
  ASSUME NEW g \in Nat, NEW P, NEW F, NEW D, NEW E, NEW G,
         NEW i, NEW a, NEW b, NEW p \in 0 .. Pow2[g] - 1, F[p] = i,
         F \in [0 .. Pow2[g] - 1 -> P], Ranged(g, F, D), Unused(g, F, i, a, b),
         Deepened(P, D, i, g, a, b, E),
         \A n \in 0 .. Pow2[g + 1] - 1 :
           G[n] = IF n \div 2 # p THEN F[n \div 2] ELSE IF n % 2 = 0 THEN a ELSE b
  PROVE  Ranged(g + 1, G, E)
<1>0. PICK e \in Nat : e = g + 1
  OBVIOUS
<1>1. PICK N \in Nat \ {0} : N = Pow2[g] /\ Pow2[e] = 2 * N
  BY <1>0, Pow2Step
<1>2. PICK M \in Nat : M = Pow2[e]
  BY <1>1
<1>3. \A n \in 0 .. M - 1 : n \div 2 \in 0 .. N - 1
  BY <1>1, <1>2
<1>4. PICK H : H = [n \in 0 .. M - 1 |-> F[n \div 2]]
  OBVIOUS
<1>5. H \in [0 .. M - 1 -> P] /\ \A n \in 0 .. M - 1 : H[n] = F[n \div 2]
  BY <1>1, <1>3, <1>4
<1>6. Ranged(e, H, D)
  <2>1. D \in [P -> Nat]
    BY DEF Deepened
  <2>2. Repeated(g, F, H)
    BY <1>0, <1>2, <1>5 DEF Repeated
  <2> QED
    BY <1>0, <2>1, <2>2, RangeRepeat
<1>7. \A x \in 0 .. N - 1 : F[x] = i <=> x = p
  <2>1. D[F[p]] = g /\ g - g = 0 /\ Pow2[0] = 1
    BY Pow2Step DEF Deepened
  <2>2. \A x \in 0 .. N - 1 : p \div Pow2[g - D[F[p]]] = x \div Pow2[g - D[F[p]]] <=> F[p] = F[x]
    BY <1>1 DEF Ranged
  <2>3. \A x \in 0 .. N - 1 : p \div 1 = x \div 1 <=> F[p] = F[x]
    BY <2>1, <2>2
  <2>4. \A x \in 0 .. N - 1 : x \div 1 = x
    OBVIOUS
  <2> QED
    BY <1>1, <2>3, <2>4
<1>8. \A n \in 0 .. M - 1 : H[n] = i <=> n \div 2 = p
  BY <1>3, <1>5, <1>7
<1>9. Divided(e, H, i, g, a, b, G)
  <2>1. e - g - 1 = 0 /\ Pow2[0] = 1 /\ \A n \in 0 .. M - 1 : n \div 1 = n
    BY <1>0, Pow2Step
  <2>2. \A n \in 0 .. M - 1 :
          G[n] = IF n \div 2 # p THEN F[n \div 2] ELSE IF n % 2 = 0 THEN a ELSE b
    BY <1>0, <1>2
  <2>3. \A n \in 0 .. M - 1 : G[n] = IF H[n] # i THEN H[n] ELSE IF n % 2 = 0 THEN a ELSE b
    BY <1>5, <1>8, <2>2
  <2>4. \A n \in 0 .. M - 1 : G[n] = IF H[n] # i THEN H[n] ELSE IF (n \div Pow2[e - g - 1]) % 2 = 0 THEN a ELSE b
    BY <2>1, <2>3
  <2> QED
    BY <1>2, <2>4 DEF Divided
<1>10. Unused(e, H, i, a, b)
  BY <1>1, <1>2, <1>3, <1>5 DEF Unused
<1>11. PICK q \in 0 .. M - 1 : H[q] = i
  <2>1. p \in Nat /\ 2 * p \in 0 .. M - 1 /\ (2 * p) \div 2 = p
    BY <1>1, <1>2
  <2> QED
    BY <1>8, <2>1
<1>12. g < e
  BY <1>0
<1>13. Ranged(e, G, E)
  BY <1>2, <1>5, <1>6, <1>9, <1>10, <1>11, <1>12, RangeSplit
<1> QED
  BY <1>0, <1>13

\* Multiples of w are w apart.
LEMMA Multiples ==
  ASSUME NEW u \in Nat, NEW v \in Nat, NEW w \in Nat, u < v
  PROVE  w * u + w <= w * v
<1>1. PICK z \in Nat : v = u + 1 + z
  <2>1. v - u - 1 \in Nat /\ v = u + 1 + (v - u - 1)
    OBVIOUS
  <2> QED
    BY <2>1
<1>2. w * v = w * u + w + w * z /\ w * z >= 0
  BY <1>1
<1> QED
  BY <1>2

\* x is one of the h numbers from a on.
Within(x, a, h) == a <= x /\ x < a + h

\* Entry x is in the lower or the upper half of range q.
LowerOf(x, r, h, q) == x \div r = q /\ (x \div h) % 2 = 0
UpperOf(x, r, h, q) == x \div r = q /\ (x \div h) % 2 # 0

\* Where the two halves of a range of r = 2 * h entries begin.
LEMMA Halves ==
  ASSUME NEW h \in Nat \ {0}, NEW r \in Nat \ {0}, r = h + h, NEW q \in Nat, NEW x \in Nat
  PROVE  /\ LowerOf(x, r, h, q) <=> Within(x, r * q, h)
         /\ UpperOf(x, r, h, q) <=> Within(x, r * q + h, h)
<1>1. PICK k \in Nat, j \in 0 .. h - 1 : x \div h = k /\ x = h * k + j
  BY DivMod
<1>2. x \div r = k \div 2
  <2>1. r = 2 * h
    OBVIOUS
  <2> QED
    BY <1>1, <2>1, DivTwice
<1>3. PICK c \in Nat, e \in 0 .. 1 : k \div 2 = c /\ k % 2 = e /\ k = 2 * c + e
  OBVIOUS
<1>4. x = r * c + h * e + j
  <2>1. x = h * (2 * c + e) + j
    BY <1>1, <1>3
  <2>2. \A u, v, w \in Nat : u * (2 * v + w) = (2 * u) * v + u * w
    OBVIOUS
  <2> QED
    BY <2>1, <2>2
<1>5. (c < q => r * c + r <= r * q) /\ (q < c => r * q + r <= r * c)
  BY Multiples
<1>7. PICK A \in Nat, B \in Nat : A = r * q /\ B = r * c
  OBVIOUS
<1>8. (h * e = 0 /\ e = 0) \/ (h * e = h /\ e = 1)
  OBVIOUS
<1>9. c = q => A = B
  BY <1>7
<1>10. /\ c = q /\ e = 0 <=> A <= x /\ x < A + h
       /\ c = q /\ e # 0 <=> A + h <= x /\ x < A + r
  BY <1>4, <1>5, <1>7, <1>8, <1>9
<1>11. /\ c = q /\ e = 0 <=> Within(x, A, h)
       /\ c = q /\ e # 0 <=> Within(x, A + h, h)
  BY <1>10 DEF Within
<1> QED
  BY <1>1, <1>2, <1>3, <1>7, <1>11 DEF LowerOf, UpperOf

=============================================================================

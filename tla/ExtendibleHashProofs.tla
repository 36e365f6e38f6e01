------------------------ MODULE ExtendibleHashProofs ------------------------
(***************************************************************************)
(* Extendible hashing: types, indices within bounds, and the shape of the  *)
(* directory.                                                              *)
(*                                                                         *)
(* Inv is the inductive invariant.  Array number a has Pow2[DepthOf(a)]    *)
(* entries; the newest one is published; `capacity' and `global_depth'     *)
(* agree with it but for the owner of the lock, between its two stores;    *)
(* and capacity never exceeds the size of the newest array, so an index    *)
(* computed from an older capacity is within every later array.            *)
(* LSBUpdateStores says what the recursion of Directory::LSBUpdate stores: *)
(* every entry with the low bits of the block, once its half is known.     *)
(*                                                                         *)
(* Shape, in the second half, says which block owns which entries while    *)
(* threads split, redirect entries one by one, and double.  An entry leads *)
(* to the block that it will have once the stores under way are made       *)
(* (Leads); a block that was not split owns all the entries that its       *)
(* pattern selects (Whole), a block that was split owns them until its     *)
(* halves are published, and the halves are known to nobody else until     *)
(* then (Hidden).  A second split of a block breaks this, so Shape is      *)
(* claimed as long as "resplit" is not recorded.                           *)
(***************************************************************************)
EXTENDS ExtendibleHash, PowersProofs, FiniteSetTheorems, SequenceTheorems

-----------------------------------------------------------------------------
(* Types                                                                    *)

Pair == [key : KeyWords, value : Values \cup {NONE}, durable : BOOLEAN]
Block == [slot : [Slots -> Pair], sema : Int, local_depth : 0 .. HashBits, pattern : Nat,
          split : BOOLEAN]
Array == UNION {[0 .. n -> Nat] : n \in Nat}
Locals == [x : Nat, arr : Nat, target : Nat, ret : -1 .. NumSlot - 1, s : Nat \X Nat,
           writes : Seq(Nat \X Nat), must : BOOLEAN, result : Values \cup {NONE}]

\* Array number a was made by doubling number a - 1.
DepthOf(a) == InitDepth + a - 1
Entries(a) == 0 .. Pow2[DepthOf(a)] - 1
Newest == Len(arrays)
Pointers == 1 .. Len(blocks)

OwnerPCs == {"i_update", "i_double", "i_capacity", "i_delete", "i_release"}
Owner(t) == pc[t] \in OwnerPCs
Doubling(t) == pc[t] \in {"i_capacity", "i_delete"}

\* Every variable has its type, every pointer is the index of a block.
Typed ==
  /\ blocks \in Seq(Block)
  /\ arrays \in Seq(Array) /\ Newest >= 1
  /\ \A a \in 1 .. Newest : arrays[a] \in [Entries(a) -> Pointers]
  /\ freed \in SUBSET (1 .. Newest - 1)
  /\ dir \in [arr : Nat, capacity : Nat, lock : BOOLEAN]
  /\ global_depth \in Nat
  /\ pc \in [Threads -> PCs]
  /\ loc \in [Threads -> Locals]
  /\ todo \in [Threads -> Seq(Calls)]
  /\ acked \in SUBSET Keys
  /\ races \in SUBSET {"resplit", "freed", "torn"}

\* What the local variables hold where they are used.
LocalOK(t) ==
  /\ pc[t] # "idle" => todo[t] # <<>>
  /\ loc[t].target \in Pointers
  /\ loc[t].arr \in 1 .. Newest
  /\ loc[t].x < dir.capacity
  /\ pc[t] \in {"i_entry", "i_flushentry", "g_entry"} => loc[t].x \in Entries(loc[t].arr)
  /\ pc[t] \in {"i_value", "i_key", "i_flusharr", "i_flushentry", "i_flush"} => loc[t].ret # -1
  /\ pc[t] \in {"i_acquire", "i_update", "i_double"} =>
       /\ loc[t].s \in Pointers \X Pointers
       /\ blocks[loc[t].s[1]].local_depth >= 1
  /\ pc[t] = "i_update" => loc[t].writes \in Seq(Entries(Newest) \X Pointers)
  /\ Doubling(t) => Newest >= 2 /\ loc[t].arr = Newest - 1

LocalsOK == \A t \in Threads : LocalOK(t)

\* One thread owns dir.lock, and only it sees `dir._', `capacity' and
\* `global_depth' out of step.
Locked ==
  /\ \A t \in Threads : Owner(t) => dir.lock
  /\ \A t, u \in Threads : Owner(t) /\ Owner(u) => t = u

Sizes ==
  /\ dir.arr = Newest
  /\ \/ /\ \A t \in Threads : ~Doubling(t)
        /\ global_depth = DepthOf(Newest) /\ dir.capacity = Pow2[global_depth]
     \/ /\ \E t \in Threads : pc[t] = "i_capacity"
        /\ global_depth + 1 = DepthOf(Newest) /\ dir.capacity = Pow2[global_depth]
     \/ /\ \E t \in Threads : pc[t] = "i_delete"
        /\ global_depth + 1 = DepthOf(Newest) /\ dir.capacity = Pow2[global_depth + 1]

Inv == Typed /\ LocalsOK /\ Locked /\ Sizes

-----------------------------------------------------------------------------
(* What LSBUpdate stores                                                    *)

\* Bit n of x.
Bit(x, n) == (x \div Pow2[n]) % 2

\* The entries that one call of the recursion with the directory size 2^m
\* redirects: those that agree with y above bit m and below bit n.
Visited(n, m, y, z) == z \div Pow2[m] = y \div Pow2[m] /\ z % Pow2[n] = y % Pow2[n]

\* w stores the half that owns each of these entries, and nothing else.
StoresHalves(n, m, cap, y, s, w) ==
  /\ w \in Seq((0 .. cap - 1) \X {s[1], s[2]})
  /\ \A i \in 1 .. Len(w) : Visited(n, m, y, w[i][1]) /\ w[i][2] = s[Bit(w[i][1], n) + 1]
  /\ \A z \in 0 .. cap - 1 : Visited(n, m, y, z) => \E i \in 1 .. Len(w) : w[i][1] = z

\* One halving step of the recursion, for a directory size d = 2p: y with the
\* bit of p cleared.
Lower(p, d, y) == IF y % d >= p THEN y - p ELSE y

\* lo and lo + p are y with the bit of p cleared and set, inside a directory
\* of c entries.
Halved(p, d, c, y, lo) ==
  /\ lo \in 0 .. c - 1 /\ lo + p \in 0 .. c - 1
  /\ lo \div p = 2 * (y \div d)
  /\ (lo + p) \div p = 2 * (y \div d) + 1
  /\ lo % p = y % p /\ (lo + p) % p = y % p

\* One level of LSBUpdate: y and its partner at half the distance.
LEMMA HalvingArith ==
  ASSUME NEW p \in Nat \ {0}, NEW d \in Nat \ {0}, NEW k \in Nat \ {0}, NEW c \in Nat \ {0},
         d = 2 * p, c = d * k, NEW y \in 0 .. c - 1
  PROVE  Halved(p, d, c, y, Lower(p, d, y))
<1> DEFINE lo == Lower(p, d, y)
<1> USE DEF Lower
<1>0. \A a, i \in Nat : \A r \in 0 .. p - 1 : a = p * i + r => a \div p = i /\ a % p = r
  BY DivModUnique
<1>1. PICK q \in Nat, r \in 0 .. d - 1 : y \div d = q /\ y % d = r /\ y = d * q + r
  BY DivMod
<1>2. q + 1 <= k
  <2> SUFFICES ASSUME k <= q PROVE FALSE
    OBVIOUS
  <2>1. \A a, b, e \in Nat : b <= e => a * b <= a * e
    OBVIOUS
  <2>2. d * k <= d * q
    BY <2>1
  <2> QED
    BY <1>1, <2>2
<1>3. d * q + d <= c
  <2>1. \A a, b, e \in Nat : b <= e => a * b <= a * e
    OBVIOUS
  <2>2. d * (q + 1) <= d * k
    BY <1>2, <2>1
  <2>3. d * (q + 1) = d * q + d
    OBVIOUS
  <2> QED
    BY <2>2, <2>3
<1>4. PICK u \in Nat : u = d * q
  OBVIOUS
<1>5. u = p * (2 * q) /\ u + p = p * (2 * q + 1)
  <2>1. \A a, b \in Nat : (2 * a) * b = a * (2 * b) /\ a * (2 * b) + a = a * (2 * b + 1)
    OBVIOUS
  <2> QED
    BY <1>4, <2>1
<1>6. PICK e \in 0 .. p - 1 : lo = u + e /\ (y = u + e \/ y = (u + p) + e)
  <2>1. CASE r >= p
    <3>1. r - p \in 0 .. p - 1 /\ lo = u + (r - p) /\ y = (u + p) + (r - p)
      BY <1>1, <1>4, <2>1
    <3> QED BY <3>1
  <2>2. CASE r < p
    <3>1. r \in 0 .. p - 1 /\ lo = u + r /\ y = u + r
      BY <1>1, <1>4, <2>2
    <3> QED BY <3>1
  <2> QED BY <1>1, <2>1, <2>2
<1>7. lo \in 0 .. c - 1 /\ lo + p \in 0 .. c - 1
  BY <1>3, <1>4, <1>6
<1>8. /\ lo \div p = 2 * q /\ lo % p = e
      /\ (lo + p) \div p = 2 * q + 1 /\ (lo + p) % p = e
      /\ y % p = e
  <2>1. PICK i \in Nat, j \in Nat : i = 2 * q /\ j = 2 * q + 1
    OBVIOUS
  <2>2. lo = p * i + e /\ lo + p = p * j + e /\ (y = p * i + e \/ y = p * j + e)
    BY <1>5, <1>6, <2>1
  <2>3. lo \in Nat /\ lo + p \in Nat /\ y \in Nat
    BY <1>7
  <2>4. lo \div p = i /\ lo % p = e
    BY <1>0, <2>2, <2>3
  <2>5. (lo + p) \div p = j /\ (lo + p) % p = e
    BY <1>0, <2>2, <2>3
  <2>6. y % p = e
    BY <1>0, <2>2, <2>3
  <2> QED
    BY <2>1, <2>4, <2>5, <2>6
<1> QED
  BY <1>1, <1>7, <1>8 DEF Halved

\* The same, for the powers of two that LSBUpdate computes with.
LEMMA Halving ==
  ASSUME NEW m \in Nat, NEW g \in Nat, m < g, NEW y \in 0 .. Pow2[g] - 1
  PROVE  Halved(Pow2[m], Pow2[m + 1], Pow2[g], y, Lower(Pow2[m], Pow2[m + 1], y))
<1>1. Pow2[m] \in Nat \ {0} /\ Pow2[m + 1] \in Nat \ {0} /\ Pow2[m + 1] = 2 * Pow2[m]
  BY Pow2Step
<1>2. m + 1 \in Nat /\ m + 1 <= g /\ g - (m + 1) \in Nat
  OBVIOUS
<1>3. Pow2[g] \in Nat \ {0} /\ Pow2[g - (m + 1)] \in Nat \ {0}
  BY <1>2, Pow2Step
<1>4. Pow2[g] = Pow2[m + 1] * Pow2[g - (m + 1)]
  BY <1>2, Pow2Diff
<1> QED
  BY <1>1, <1>3, <1>4, HalvingArith

\* An entry has y's bits above bit m exactly if it has lo's or (lo + 2^m)'s bits
\* from bit m on.
LEMMA HalvesMeet ==
  ASSUME NEW m \in Nat, NEW g \in Nat, m < g, NEW y \in 0 .. Pow2[g] - 1, NEW lo,
         Halved(Pow2[m], Pow2[m + 1], Pow2[g], y, lo), NEW z \in Nat
  PROVE  /\ z \div Pow2[m + 1] = y \div Pow2[m + 1]
              <=> \/ z \div Pow2[m] = lo \div Pow2[m]
                  \/ z \div Pow2[m] = (lo + Pow2[m]) \div Pow2[m]
         /\ Bit(lo, m) = 0 /\ Bit(lo + Pow2[m], m) = 1
<1>1. PICK p \in Nat \ {0}, d \in Nat \ {0} : p = Pow2[m] /\ d = Pow2[m + 1] /\ d = 2 * p
  <2>1. Pow2[m] \in Nat \ {0} /\ Pow2[m + 1] \in Nat \ {0} /\ Pow2[m + 1] = 2 * Pow2[m]
    BY Pow2Step
  <2> QED
    BY <2>1
<1>2. PICK q \in Nat, r \in 0 .. d - 1 : y \div d = q /\ y % d = r /\ y = d * q + r
  <2>1. y \in Nat
    BY Pow2Step
  <2> QED
    BY <2>1, DivMod
<1>3. lo \div p = 2 * q /\ (lo + p) \div p = 2 * q + 1
  BY <1>1, <1>2 DEF Halved
<1>4. PICK i \in Nat : i = z \div p /\ i \div 2 = z \div d
  <2>1. (z \div p) \div 2 = z \div d
    BY <1>1, DivTwice
  <2>2. z \div p \in Nat
    BY DivMod
  <2> QED
    BY <1>1, <2>1, <2>2
<1>5. i \div 2 = q <=> (i = 2 * q \/ i = 2 * q + 1)
  OBVIOUS
<1>6. (2 * q) % 2 = 0 /\ (2 * q + 1) % 2 = 1
  OBVIOUS
<1> QED
  BY <1>1, <1>2, <1>3, <1>4, <1>5, <1>6 DEF Bit

\* The two stores of the last call.
LEMMA StoresTwo ==
  ASSUME NEW n \in Nat, NEW g \in Nat, n < g, NEW y \in 0 .. Pow2[g] - 1, NEW lo,
         Halved(Pow2[n], Pow2[n + 1], Pow2[g], y, lo), NEW s
  PROVE  StoresHalves(n, n + 1, Pow2[g], y, s, <<<<lo, s[1]>>, <<lo + Pow2[n], s[2]>>>>)
<1>1. PICK p \in Nat \ {0}, cap \in Nat \ {0} : p = Pow2[n] /\ cap = Pow2[g]
  BY Pow2Step
<1> DEFINE w == <<<<lo, s[1]>>, <<lo + p, s[2]>>>>
           V(z) == Visited(n, n + 1, y, z)
<1>2. lo \in 0 .. cap - 1 /\ lo + p \in 0 .. cap - 1 /\ lo % p = y % p /\ (lo + p) % p = y % p
  BY <1>1 DEF Halved
<1>3. lo \in Nat /\ lo + p \in Nat
  BY <1>2
<1>4. V(lo) /\ V(lo + p) /\ Bit(lo, n) = 0 /\ Bit(lo + p, n) = 1
  BY <1>1, <1>2, <1>3, HalvesMeet DEF Visited
<1>5. ASSUME NEW z \in 0 .. cap - 1, V(z) PROVE z = lo \/ z = lo + p
  <2>1. z \in Nat /\ (z \div p = lo \div p \/ z \div p = (lo + p) \div p)
    BY <1>1, <1>5, HalvesMeet DEF Visited
  <2>2. z % p = lo % p /\ z % p = (lo + p) % p
    BY <1>1, <1>2, <1>5 DEF Visited
  <2>3. \A a \in Nat : a = p * (a \div p) + (a % p)
    BY DivMod
  <2> QED
    BY <1>3, <2>1, <2>2, <2>3
<1>6. w \in Seq((0 .. cap - 1) \X {s[1], s[2]}) /\ Len(w) = 2
  BY <1>2
<1>7. \A i \in 1 .. 2 : V(w[i][1]) /\ w[i][2] = s[Bit(w[i][1], n) + 1]
  BY <1>4
<1>8. \A z \in 0 .. cap - 1 : V(z) => \E i \in 1 .. 2 : w[i][1] = z
  BY <1>5
<1> QED
  BY <1>1, <1>6, <1>7, <1>8 DEF StoresHalves

\* Two calls one level down make the stores of the call above them.
LEMMA StoresBoth ==
  ASSUME NEW n \in Nat, NEW m \in Nat, n <= m, NEW g \in Nat, m < g,
         NEW y \in 0 .. Pow2[g] - 1, NEW lo,
         Halved(Pow2[m], Pow2[m + 1], Pow2[g], y, lo), NEW s, NEW v, NEW w,
         StoresHalves(n, m, Pow2[g], lo, s, v),
         StoresHalves(n, m, Pow2[g], lo + Pow2[m], s, w)
  PROVE  StoresHalves(n, m + 1, Pow2[g], y, s, v \o w)
<1>0. \A z \in Nat : z \div Pow2[m + 1] = y \div Pow2[m + 1]
                       <=> \/ z \div Pow2[m] = lo \div Pow2[m]
                           \/ z \div Pow2[m] = (lo + Pow2[m]) \div Pow2[m]
  BY HalvesMeet
<1>1. PICK p \in Nat \ {0}, l \in Nat \ {0}, k \in Nat \ {0}, cap \in Nat \ {0} :
        p = Pow2[m] /\ l = Pow2[n] /\ p = l * k /\ cap = Pow2[g]
  <2>1. m - n \in Nat /\ Pow2[m] = Pow2[n] * Pow2[m - n]
    BY Pow2Diff
  <2>2. /\ Pow2[m] \in Nat \ {0} /\ Pow2[n] \in Nat \ {0}
        /\ Pow2[m - n] \in Nat \ {0} /\ Pow2[g] \in Nat \ {0}
    BY <2>1, Pow2Step
  <2> QED
    BY <2>1, <2>2
<1> DEFINE V(z) == Visited(n, m + 1, y, z)
<1>2. /\ lo \in 0 .. cap - 1 /\ lo + p \in 0 .. cap - 1
      /\ lo % p = y % p /\ (lo + p) % p = y % p
  BY <1>1 DEF Halved
<1>3. lo \in Nat /\ lo + p \in Nat /\ y \in Nat
  BY <1>1, <1>2
<1>4. lo % l = y % l /\ (lo + p) % l = y % l
  <2>1. \A a \in Nat : (a % p) % l = a % l
    BY <1>1, ModMod
  <2> QED
    BY <1>2, <1>3, <2>1
<1>5. \A z \in 0 .. cap - 1 : V(z) <=> Visited(n, m, lo, z) \/ Visited(n, m, lo + p, z)
  <2> SUFFICES ASSUME NEW z \in 0 .. cap - 1
               PROVE  V(z) <=> Visited(n, m, lo, z) \/ Visited(n, m, lo + p, z)
    OBVIOUS
  <2>1. z \div Pow2[m + 1] = y \div Pow2[m + 1]
           <=> z \div p = lo \div p \/ z \div p = (lo + p) \div p
    BY <1>0, <1>1
  <2> QED
    BY <1>1, <1>4, <2>1 DEF Visited
<1> DEFINE P == (0 .. cap - 1) \X {s[1], s[2]}
           u == v \o w
<1>6. /\ v \in Seq(P) /\ w \in Seq(P)
      /\ \A i \in 1 .. Len(v) : Visited(n, m, lo, v[i][1]) /\ v[i][2] = s[Bit(v[i][1], n) + 1]
      /\ \A i \in 1 .. Len(w) : Visited(n, m, lo + p, w[i][1]) /\ w[i][2] = s[Bit(w[i][1], n) + 1]
      /\ \A z \in 0 .. cap - 1 : Visited(n, m, lo, z) => \E i \in 1 .. Len(v) : v[i][1] = z
      /\ \A z \in 0 .. cap - 1 : Visited(n, m, lo + p, z) => \E i \in 1 .. Len(w) : w[i][1] = z
  BY <1>1 DEF StoresHalves
<1>7. /\ u \in Seq(P) /\ Len(u) = Len(v) + Len(w)
      /\ \A i \in 1 .. Len(u) : u[i] = IF i <= Len(v) THEN v[i] ELSE w[i - Len(v)]
  BY <1>6
<1>8. ASSUME NEW i \in 1 .. Len(u)
      PROVE  V(u[i][1]) /\ u[i][2] = s[Bit(u[i][1], n) + 1]
  <2>1. u[i] \in P
    <3> HIDE DEF u, P
    <3> QED BY <1>7
  <2>4. u[i][1] \in 0 .. cap - 1
    <3> HIDE DEF u
    <3> QED BY <2>1
  <2>2. CASE i <= Len(v)
    BY <1>5, <1>6, <1>7, <2>4, <2>2
  <2>3. CASE i > Len(v)
    <3>1. i - Len(v) \in 1 .. Len(w) /\ u[i] = w[i - Len(v)]
      BY <1>6, <1>7, <2>3
    <3> QED
      BY <1>5, <1>6, <2>4, <3>1
  <2>5. Len(v) \in Nat /\ Len(w) \in Nat
    BY <1>6
  <2>6. i <= Len(v) \/ i > Len(v)
    BY <1>7, <2>5
  <2> HIDE DEF u, V, P
  <2> QED
    BY <2>2, <2>3, <2>6
<1>9. ASSUME NEW z \in 0 .. cap - 1, V(z) PROVE \E i \in 1 .. Len(u) : u[i][1] = z
  <2>1. CASE Visited(n, m, lo, z)
    <3>1. PICK i \in 1 .. Len(v) : v[i][1] = z
      BY <1>6, <2>1
    <3>2. i \in 1 .. Len(u) /\ u[i] = v[i]
      <4> HIDE DEF u, P
      <4>1. Len(v) \in Nat /\ Len(w) \in Nat
        BY <1>6
      <4> QED BY <1>7, <4>1
    <3> QED
      BY <3>1, <3>2
  <2>2. CASE Visited(n, m, lo + p, z)
    <3>1. PICK i \in 1 .. Len(w) : w[i][1] = z
      BY <1>6, <2>2
    <3>2. Len(v) + i \in 1 .. Len(u) /\ u[Len(v) + i] = w[i]
      BY <1>6, <1>7
    <3> QED
      BY <3>1, <3>2
  <2> QED
    BY <1>5, <1>9, <2>1, <2>2
<1> HIDE DEF u, V
<1> QED
  BY <1>1, <1>7, <1>8, <1>9 DEF StoresHalves, u, V

\* LSBUpdate redirects all entries that agree with x on the n low bits, each to
\* the half that has its bit n.
LEMMA LSBUpdateStores ==
  ASSUME NEW n \in Nat, NEW g \in Nat, n < g, NEW x \in 0 .. Pow2[g] - 1, NEW s
  PROVE  StoresHalves(n, g, Pow2[g], x, s, LSBUpdate(g - (n + 1), Pow2[g], x, s))
<1> DEFINE dd == g - (n + 1)
           cap == Pow2[g]
           Y == 0 .. cap - 1
           dir_cap(d) == cap \div Pow2[dd - d]
           half(d) == dir_cap(d) \div 2
           lo(d, y) == IF y % dir_cap(d) >= half(d) THEN y - half(d) ELSE y
           Body(u) == [d \in 0 .. dd |->
             [y \in Y |->
                IF d = 0 THEN <<<<lo(d, y), s[1]>>, <<lo(d, y) + half(d), s[2]>>>>
                ELSE u[d - 1][lo(d, y)] \o u[d - 1][lo(d, y) + half(d)]]]
           U == CHOOSE u : u = Body(u)
<1>0. dd \in Nat /\ cap \in Nat \ {0}
  BY Pow2Step
<1>1. ASSUME NEW d \in 0 .. dd
      PROVE  dir_cap(d) = Pow2[n + d + 1] /\ half(d) = Pow2[n + d]
  <2>1. PICK i \in Nat, j \in Nat : i = n + d /\ j = dd - d /\ g = (i + 1) + j
    OBVIOUS
  <2>2. PICK p \in Nat \ {0}, q \in Nat \ {0}, r \in Nat \ {0}, c \in Nat \ {0} :
           p = Pow2[i] /\ q = Pow2[i + 1] /\ r = Pow2[j] /\ c = Pow2[g] /\ q = 2 * p
    <3>1. Pow2[i] \in Nat \ {0} /\ Pow2[i + 1] = 2 * Pow2[i]
      BY Pow2Step
    <3>2. Pow2[i + 1] \in Nat \ {0} /\ Pow2[j] \in Nat \ {0} /\ Pow2[g] \in Nat \ {0}
      BY Pow2Step
    <3> QED
      BY <3>1, <3>2
  <2>3. c = q * r
    <3>1. i + 1 \in Nat
      OBVIOUS
    <3>2. Pow2[(i + 1) + j] = Pow2[i + 1] * Pow2[j]
      BY <3>1, Pow2Sum
    <3> QED
      BY <2>1, <2>2, <3>2
  <2>4. c = r * q + 0 /\ 0 \in 0 .. r - 1
    BY <2>3
  <2>5. c \div r = q
    BY <2>4, DivModUnique
  <2>6. q \div 2 = p
    BY <2>2
  <2> QED
    BY <2>1, <2>2, <2>5, <2>6
<1>2. ASSUME NEW d \in 0 .. dd, NEW y \in Y
      PROVE  Halved(Pow2[n + d], Pow2[n + d + 1], cap, y, lo(d, y))
  <2>1. lo(d, y) = Lower(Pow2[n + d], Pow2[n + d + 1], y)
    BY <1>1 DEF Lower
  <2>2. n + d \in Nat /\ n + d < g
    OBVIOUS
  <2>3. Halved(Pow2[n + d], Pow2[n + d + 1], cap, y, Lower(Pow2[n + d], Pow2[n + d + 1], y))
    BY <2>2, Halving
  <2> QED
    BY <2>1, <2>3
<1>3. ASSUME NEW d \in 0 .. dd, NEW y \in Y
      PROVE  lo(d, y) \in Y /\ lo(d, y) + half(d) \in Y
  BY <1>1, <1>2 DEF Halved
<1> HIDE DEF lo, half, cap
<1>4. \E u : u = Body(u)
  <2> DEFINE P == Y \X {s[1], s[2]}
             S == [Y -> Seq(P)]
             c == [y \in Y |-> <<<<lo(0, y), s[1]>>, <<lo(0, y) + half(0), s[2]>>>>]
             turn(d) == [v \in S |-> [y \in Y |-> v[lo(d, y)] \o v[lo(d, y) + half(d)]]]
             step == [d \in 1 .. dd |-> turn(d)]
  <2>1. c \in S
    <3>1. 0 \in 0 .. dd
      BY <1>0
    <3> QED
      BY <1>3, <3>1
  <2>2. ASSUME NEW d \in 1 .. dd PROVE turn(d) \in [S -> S]
    <3> SUFFICES ASSUME NEW v \in S, NEW y \in Y
                 PROVE  v[lo(d, y)] \o v[lo(d, y) + half(d)] \in Seq(P)
      OBVIOUS
    <3>0. d \in 0 .. dd
      BY <1>0
    <3>1. lo(d, y) \in Y /\ lo(d, y) + half(d) \in Y
      BY <1>3, <3>0
    <3>2. v[lo(d, y)] \in Seq(P) /\ v[lo(d, y) + half(d)] \in Seq(P)
      <4> HIDE DEF P, Y
      <4> QED BY <3>1
    <3> HIDE DEF P
    <3> QED
      BY <3>2
  <2> HIDE DEF S, c
  <2>3. step \in LoopBodies(dd, S)
    BY <2>2 DEF LoopBodies
  <2>4. \A d \in 1 .. dd : step[d] = turn(d)
    OBVIOUS
  <2> HIDE DEF step, dd
  <2>5. PICK f : IsRun(dd, S, c, step, f)
    BY <1>0, <2>1, <2>3, LoopExists
  <2>6. f \in [0 .. dd -> S] /\ f[0] = c /\ \A d \in 1 .. dd : f[d] = step[d][f[d - 1]]
    BY <2>5 DEF IsRun
  <2>7. ASSUME NEW d \in 0 .. dd
        PROVE  f[d] = [y \in Y |->
                 IF d = 0 THEN <<<<lo(d, y), s[1]>>, <<lo(d, y) + half(d), s[2]>>>>
                 ELSE f[d - 1][lo(d, y)] \o f[d - 1][lo(d, y) + half(d)]]
    <3>1. CASE d = 0
      BY <2>6, <3>1 DEF c
    <3>2. CASE d # 0
      <4>1. d \in 1 .. dd /\ d - 1 \in 0 .. dd /\ f[d - 1] \in S
        BY <1>0, <2>6, <3>2
      <4>2. f[d] = turn(d)[f[d - 1]]
        BY <2>4, <2>6, <4>1
      <4>3. turn(d)[f[d - 1]] = [y \in Y |-> f[d - 1][lo(d, y)] \o f[d - 1][lo(d, y) + half(d)]]
        BY <4>1
      <4> HIDE DEF turn
      <4> QED
        BY <3>2, <4>2, <4>3
    <3> QED
      BY <3>1, <3>2
  <2>8. f = Body(f)
    BY <2>6, <2>7
  <2> HIDE DEF Body
  <2> QED
    BY <2>8
<1>5. LSBUpdate(dd, cap, x, s) = U[dd][x]
  BY DEF LSBUpdate, lo, half
<1>6. U = Body(U)
  <2> HIDE DEF Body
  <2> QED BY <1>4
<1> HIDE DEF U
<1>7. ASSUME NEW d \in 0 .. dd, NEW y \in Y
      PROVE  U[d][y] = IF d = 0 THEN <<<<lo(d, y), s[1]>>, <<lo(d, y) + half(d), s[2]>>>>
                       ELSE U[d - 1][lo(d, y)] \o U[d - 1][lo(d, y) + half(d)]
  <2>1. U[d] = Body(U)[d]
    <3> HIDE DEF Body
    <3> QED BY <1>6
  <2>2. \A u : Body(u)[d] = [z \in Y |->
                IF d = 0 THEN <<<<lo(d, z), s[1]>>, <<lo(d, z) + half(d), s[2]>>>>
                ELSE u[d - 1][lo(d, z)] \o u[d - 1][lo(d, z) + half(d)]]
    <3> HIDE DEF lo, half, Y
    <3> QED BY DEF Body
  <2>3. U[d] = [z \in Y |->
           IF d = 0 THEN <<<<lo(d, z), s[1]>>, <<lo(d, z) + half(d), s[2]>>>>
           ELSE U[d - 1][lo(d, z)] \o U[d - 1][lo(d, z) + half(d)]]
    <3> HIDE DEF Body, lo, half, Y
    <3> QED BY <2>1, <2>2
  <2> HIDE DEF Body, lo, half, Y
  <2>4. CASE d = 0
    BY <2>3, <2>4
  <2>5. CASE d # 0
    BY <2>3, <2>5
  <2> QED
    BY <2>4, <2>5
<1> DEFINE T == {d \in 0 .. dd : \A y \in Y : StoresHalves(n, n + d + 1, cap, y, s, U[d][y])}
<1>8. 0 \in T
  <2> SUFFICES ASSUME NEW y \in Y PROVE StoresHalves(n, n + 1, cap, y, s, U[0][y])
    BY <1>0
  <2>1. 0 \in 0 .. dd /\ n + 0 = n /\ n + 0 + 1 = n + 1
    BY <1>0
  <2>2. U[0][y] = <<<<lo(0, y), s[1]>>, <<lo(0, y) + half(0), s[2]>>>>
    BY <1>7, <2>1
  <2>3. half(0) = Pow2[n]
    BY <1>1, <2>1
  <2>4. Halved(Pow2[n], Pow2[n + 1], cap, y, lo(0, y))
    BY <1>2, <2>1
  <2> QED
    BY <2>2, <2>3, <2>4, StoresTwo DEF cap
<1>9. \A d \in 0 .. dd - 1 : d \in T => d + 1 \in T
  <2> SUFFICES ASSUME NEW d \in 0 .. dd - 1, d \in T, NEW y \in Y
               PROVE  StoresHalves(n, n + d + 2, cap, y, s, U[d + 1][y])
    BY <1>0
  <2>1. d + 1 \in 0 .. dd /\ d + 1 # 0 /\ (d + 1) - 1 = d
    BY <1>0
  <2>2. PICK m \in Nat : m = n + d + 1 /\ n <= m /\ m < g /\ n + (d + 1) = m /\ m + 1 = n + d + 2
    BY <1>0
  <2>3. U[d + 1][y] = U[d][lo(d + 1, y)] \o U[d][lo(d + 1, y) + half(d + 1)]
    BY <1>7, <2>1
  <2>4. half(d + 1) = Pow2[m] /\ Halved(Pow2[m], Pow2[m + 1], cap, y, lo(d + 1, y))
    BY <1>1, <1>2, <2>1, <2>2
  <2>5. lo(d + 1, y) \in Y /\ lo(d + 1, y) + half(d + 1) \in Y
    BY <1>3, <2>1
  <2>6. /\ StoresHalves(n, m, cap, lo(d + 1, y), s, U[d][lo(d + 1, y)])
        /\ StoresHalves(n, m, cap, lo(d + 1, y) + Pow2[m], s, U[d][lo(d + 1, y) + half(d + 1)])
    BY <2>2, <2>4, <2>5
  <2>7. StoresHalves(n, m + 1, cap, y, s, U[d + 1][y])
    BY <2>2, <2>3, <2>4, <2>6, StoresBoth DEF cap
  <2> QED
    BY <2>2, <2>7
<1> HIDE DEF T, dd
<1>10. dd \in T
  <2>1. 0 .. dd \subseteq T
    BY <1>0, <1>8, <1>9, BoundedInduction
  <2> QED
    BY <1>0, <2>1
<1>11. StoresHalves(n, n + dd + 1, cap, x, s, U[dd][x])
  BY <1>10 DEF T, cap
<1>12. n + dd + 1 = g
  BY DEF dd
<1> QED
  BY <1>5, <1>11, <1>12 DEF cap, dd

-----------------------------------------------------------------------------
(* Types, bounds and the lock                                               *)

\* A step of a thread that does not own the directory and does not touch it.
LEMMA MoveInv ==
  ASSUME Inv, NEW t \in Threads, NEW to \in PCs, Goto(t, to), ~Owner(t), to \notin OwnerPCs,
         UNCHANGED <<arrays, freed, dir, global_depth>>,
         blocks' \in Seq(Block), Len(blocks') = Len(blocks),
         \A b \in Pointers : blocks'[b].local_depth = blocks[b].local_depth,
         loc' \in [Threads -> Locals], \A u \in Threads \ {t} : loc'[u] = loc[u],
         todo' \in [Threads -> Seq(Calls)], \A u \in Threads \ {t} : todo'[u] = todo[u],
         acked' \in SUBSET Keys, races' \in SUBSET {"resplit", "freed", "torn"},
         LocalOK(t)'
  PROVE  Inv'
<1> USE DEF Inv, Goto
<1>1. pc' \in [Threads -> PCs] /\ pc'[t] = to /\ \A u \in Threads \ {t} : pc'[u] = pc[u]
  BY DEF Typed
<1>2. Typed'
  BY <1>1 DEF Typed, Newest, Pointers, Entries, DepthOf
<1>3. ASSUME NEW u \in Threads \ {t} PROVE LocalOK(u)'
  <2>1. LocalOK(u) /\ loc[u] \in Locals
    BY DEF LocalsOK, Typed
  <2>2. pc'[u] = pc[u] /\ loc'[u] = loc[u] /\ todo'[u] = todo[u]
    BY <1>1
  <2>3. Newest' = Newest /\ Pointers' = Pointers /\ dir' = dir
    BY DEF Newest, Pointers
  <2>4. ASSUME pc[u] \in {"i_acquire", "i_update", "i_double"}
        PROVE  blocks'[loc[u].s[1]].local_depth >= 1
    <3>1. loc[u].s \in Pointers \X Pointers /\ blocks[loc[u].s[1]].local_depth >= 1
      BY <2>1, <2>4 DEF LocalOK
    <3>2. loc[u].s[1] \in Pointers
      BY <3>1
    <3> QED
      BY <3>1, <3>2
  <2> QED
    BY <2>1, <2>2, <2>3, <2>4 DEF LocalOK, Doubling
<1>4. LocalsOK'
  BY <1>3 DEF LocalsOK
<1>5. Locked'
  BY <1>1 DEF Locked, Owner
<1>6. Sizes'
  BY <1>1 DEF Sizes, Doubling, Newest, DepthOf, Owner, OwnerPCs
<1> QED
  BY <1>2, <1>4, <1>5, <1>6

\* What the steps use of the invariant.
LEMMA Facts ==
  ASSUME Inv, NEW t \in Threads
  PROVE  /\ loc[t] \in Locals /\ pc[t] \in PCs /\ LocalOK(t)
         /\ todo[t] \in Seq(Calls)
         /\ todo[t] # <<>> =>
              /\ Call(t) \in Calls /\ Key(t) \in Keys /\ Hash[Key(t)] \in Nat
              /\ Tail(todo[t]) \in Seq(Calls)
         /\ dir.arr = Newest /\ Newest \in Nat \ {0}
         /\ dir.capacity \in Nat \ {0} /\ dir.capacity <= Pow2[DepthOf(Newest)]
         /\ Hash[Key(t)] \in Nat => Hash[Key(t)] % dir.capacity \in 0 .. dir.capacity - 1
<1> USE DEF Inv
<1>1. /\ loc[t] \in Locals /\ pc[t] \in PCs /\ LocalOK(t) /\ todo[t] \in Seq(Calls)
      /\ dir.arr = Newest /\ Newest \in Nat \ {0}
  BY DEF Typed, LocalsOK, Sizes, Newest
<1>2. ASSUME todo[t] # <<>>
      PROVE  /\ Call(t) \in Calls /\ Key(t) \in Keys /\ Hash[Key(t)] \in Nat
             /\ Tail(todo[t]) \in Seq(Calls)
  <2>1. Call(t) \in Calls /\ Tail(todo[t]) \in Seq(Calls)
    BY <1>1, <1>2 DEF Call
  <2>2. Key(t) \in Keys
    BY <2>1 DEF Key, Calls
  <2>3. Pow2[HashBits] \in Nat
    BY Pow2Step, ExtendibleAssumption
  <2>4. Hash[Key(t)] \in 0 .. Pow2[HashBits] - 1
    BY <2>2, ExtendibleAssumption DEF KeyWords
  <2> QED
    BY <2>1, <2>2, <2>3, <2>4
<1>3. dir.capacity \in Nat \ {0} /\ dir.capacity <= Pow2[DepthOf(Newest)]
  <2>1. global_depth \in Nat /\ Pow2[global_depth] \in Nat \ {0}
        /\ Pow2[global_depth + 1] = 2 * Pow2[global_depth]
    BY Pow2Step DEF Typed
  <2> QED
    BY <2>1 DEF Sizes
<1>4. \A h \in Nat : h % dir.capacity \in 0 .. dir.capacity - 1
  BY <1>3
<1> QED
  BY <1>1, <1>2, <1>3, <1>4

\* Array number a has a positive number of entries.
LEMMA DepthTyped ==
  ASSUME NEW a \in Nat \ {0}
  PROVE  DepthOf(a) \in Nat /\ Pow2[DepthOf(a)] \in Nat \ {0}
<1>1. DepthOf(a) \in Nat
  BY ExtendibleAssumption DEF DepthOf
<1> QED
  BY <1>1, Pow2Step

\* The first of a set of slots.
LEMMA FirstIn ==
  ASSUME NEW S \in SUBSET Nat, S # {}
  PROVE  First(S) \in S /\ \A j \in S : First(S) <= j
BY Least DEF First

\* A store into one local variable.
LEMMA PutLocal ==
  ASSUME loc \in [Threads -> Locals], NEW t \in Threads, NEW f, NEW v, Put(t, f, v),
         \/ f \in {"x", "arr", "target"} /\ v \in Nat
         \/ f = "ret" /\ v \in -1 .. NumSlot - 1
         \/ f = "s" /\ v \in Nat \X Nat
         \/ f = "writes" /\ v \in Seq(Nat \X Nat)
         \/ f = "must" /\ v \in BOOLEAN
         \/ f = "result" /\ v \in Values \cup {NONE}
  PROVE  /\ loc' \in [Threads -> Locals] /\ loc'[t] = [loc[t] EXCEPT ![f] = v]
         /\ \A u \in Threads \ {t} : loc'[u] = loc[u]
<1>1. loc' = [loc EXCEPT ![t] = [loc[t] EXCEPT ![f] = v]]
  BY DEF Put
<1>2. [loc[t] EXCEPT ![f] = v] \in Locals
  <2>1. loc[t] \in Locals
    OBVIOUS
  <2>2. CASE f = "x" /\ v \in Nat
    BY <2>1, <2>2 DEF Locals
  <2>3. CASE f = "arr" /\ v \in Nat
    BY <2>1, <2>3 DEF Locals
  <2>4. CASE f = "target" /\ v \in Nat
    BY <2>1, <2>4 DEF Locals
  <2>5. CASE f = "ret" /\ v \in -1 .. NumSlot - 1
    BY <2>1, <2>5 DEF Locals
  <2>6. CASE f = "s" /\ v \in Nat \X Nat
    BY <2>1, <2>6 DEF Locals
  <2>7. CASE f = "writes" /\ v \in Seq(Nat \X Nat)
    BY <2>1, <2>7 DEF Locals
  <2>8. CASE f = "must" /\ v \in BOOLEAN
    BY <2>1, <2>8 DEF Locals
  <2>9. CASE f = "result" /\ v \in Values \cup {NONE}
    BY <2>1, <2>9 DEF Locals
  <2> QED
    BY <2>2, <2>3, <2>4, <2>5, <2>6, <2>7, <2>8, <2>9
<1> QED
  BY <1>1, <1>2

\* A store into one block.
LEMMA PutBlock ==
  ASSUME blocks \in Seq(Block), NEW i \in Pointers, NEW b \in Block,
         blocks' = [blocks EXCEPT ![i] = b], b.local_depth = blocks[i].local_depth
  PROVE  /\ blocks' \in Seq(Block) /\ Len(blocks') = Len(blocks) /\ blocks'[i] = b
         /\ \A j \in Pointers \ {i} : blocks'[j] = blocks[j]
         /\ \A j \in Pointers : blocks'[j].local_depth = blocks[j].local_depth
BY DEF Pointers

\* The local variables of a thread that is between two calls.
LEMMA NoLocalsTyped ==
  NoLocals \in Locals
BY ExtendibleAssumption DEF NoLocals, Locals

\* The end of a call.
LEMMA ReturnLocal ==
  ASSUME Inv, NEW t \in Threads, Return(t), pc[t] # "idle",
         dir' = dir, arrays' = arrays, Len(blocks') = Len(blocks)
  PROVE  /\ loc' \in [Threads -> Locals] /\ \A u \in Threads \ {t} : loc'[u] = loc[u]
         /\ todo' \in [Threads -> Seq(Calls)] /\ \A u \in Threads \ {t} : todo'[u] = todo[u]
         /\ loc'[t] = NoLocals /\ pc' = [pc EXCEPT ![t] = "idle"]
         /\ LocalOK(t)'
<1>1. LocalOK(t) /\ loc[t] \in Locals /\ dir.capacity \in Nat \ {0} /\ todo[t] # <<>>
      /\ Tail(todo[t]) \in Seq(Calls)
  BY Facts DEF LocalOK
<1>2. Typed
  BY DEF Inv
<1>3. loc' \in [Threads -> Locals] /\ \A u \in Threads \ {t} : loc'[u] = loc[u]
  BY <1>2, NoLocalsTyped DEF Return, Typed
<1>4. todo' \in [Threads -> Seq(Calls)] /\ \A u \in Threads \ {t} : todo'[u] = todo[u]
  BY <1>1, <1>2 DEF Return, Typed
<1>5. loc'[t] = NoLocals /\ pc' = [pc EXCEPT ![t] = "idle"] /\ pc'[t] = "idle"
  BY <1>2 DEF Return, Goto, Typed
<1>6. 1 \in Pointers' /\ 1 \in 1 .. Newest'
  <2>1. loc[t].target \in 1 .. Len(blocks) /\ loc[t].arr \in 1 .. Len(arrays)
    BY <1>1 DEF LocalOK, Pointers, Newest
  <2>2. Len(blocks) \in Nat /\ Len(arrays) \in Nat
    BY <1>2 DEF Typed
  <2> QED
    BY <2>1, <2>2 DEF Pointers, Newest
<1>7. LocalOK(t)'
  BY <1>1, <1>5, <1>6 DEF LocalOK, NoLocals, Doubling
<1> QED
  BY <1>3, <1>4, <1>5, <1>7

\* Loads into a local variable.
LEMMA ReadInv ==
  ASSUME Inv, NEW t \in Threads, NEW from, NEW to \in PCs, NEW f, NEW v, Read(t, from, to, f, v),
         from \notin OwnerPCs, to \notin OwnerPCs, from # "idle" \/ todo[t] # <<>>,
         \/ f = "x" /\ v \in 0 .. dir.capacity - 1 /\ to \in {"i_arr", "g_arr"}
         \/ f = "arr" /\ v = dir.arr /\ to \in {"i_entry", "g_entry"}
         \/ f = "arr" /\ v = dir.arr /\ to = "i_flushentry" /\ from = "i_flusharr"
         \/ f = "must" /\ v \in BOOLEAN /\ to \in {"i_cap", "g_cap"}
         \/ f = "result" /\ v \in Values \cup {NONE} /\ to = "g_return"
  PROVE  Inv'
<1>1. Typed /\ LocalOK(t) /\ loc[t] \in Locals /\ pc[t] = from
  BY Facts DEF Inv, Read
<1>2. /\ dir.arr = Newest /\ Newest \in Nat \ {0} /\ dir.capacity \in Nat \ {0}
      /\ dir.capacity <= Pow2[DepthOf(Newest)]
  BY Facts
<1>3. Goto(t, to) /\ Put(t, f, v)
      /\ UNCHANGED <<blocks, arrays, freed, dir, global_depth, todo, acked, races>>
  BY DEF Read
<1>4. pc'[t] = to
  BY <1>1, <1>3 DEF Typed, Goto
<1>5. /\ loc' \in [Threads -> Locals] /\ loc'[t] = [loc[t] EXCEPT ![f] = v]
      /\ \A u \in Threads \ {t} : loc'[u] = loc[u]
  <2>1. \/ f \in {"x", "arr", "target"} /\ v \in Nat
        \/ f = "must" /\ v \in BOOLEAN
        \/ f = "result" /\ v \in Values \cup {NONE}
    BY <1>2
  <2> QED
    BY <1>1, <1>3, <2>1, PutLocal DEF Typed
<1>6. LocalOK(t)'
  <2>1. /\ loc'[t].target = loc[t].target /\ loc'[t].ret = loc[t].ret
        /\ loc'[t].x = IF f = "x" THEN v ELSE loc[t].x
        /\ loc'[t].arr = IF f = "arr" THEN v ELSE loc[t].arr
    BY <1>1, <1>5 DEF Locals
  <2>2. loc[t].x < dir.capacity => loc[t].x \in Entries(dir.arr)
    <3>1. loc[t].x \in Nat /\ DepthOf(Newest) \in Nat /\ Pow2[DepthOf(Newest)] \in Nat
      BY <1>1, <1>2, DepthTyped DEF Locals
    <3> QED
      BY <1>2, <3>1 DEF Entries
  <2>3. loc'[t].target \in Pointers' /\ loc'[t].arr \in 1 .. Newest' /\ loc'[t].x < dir'.capacity
    BY <1>1, <1>2, <1>3, <2>1 DEF LocalOK, Pointers, Newest
  <2>4. to \in {"i_entry", "i_flushentry", "g_entry"} => loc'[t].x \in Entries(loc'[t].arr)
    BY <1>1, <1>3, <2>1, <2>2 DEF LocalOK
  <2>5. to = "i_flushentry" => loc'[t].ret # -1
    BY <1>1, <2>1 DEF LocalOK
  <2> QED
    BY <1>1, <1>3, <1>4, <2>3, <2>4, <2>5 DEF LocalOK, Doubling, OwnerPCs
<1>7. ~Owner(t)
  BY <1>1 DEF Owner
<1> QED
  BY <1>1, <1>3, <1>5, <1>6, <1>7, MoveInv DEF Typed

\* The load of an entry.
LEMMA ReadEntryInv ==
  ASSUME Inv, NEW t \in Threads,
         NEW to \in {"i_gate", "i_flush", "g_scan"},
         pc[t] \in {"i_entry", "i_flushentry", "g_entry"},
         to = "i_flush" => pc[t] = "i_flushentry",
         \/ Goto(t, to) /\ Put(t, "target", arrays[loc[t].arr][loc[t].x])
         \/ Goto(t, "lost") /\ UNCHANGED loc,
         UNCHANGED <<blocks, arrays, freed, dir, global_depth, todo, acked>>,
         races' \in SUBSET {"resplit", "freed", "torn"}
  PROVE  Inv'
<1>1. Typed /\ LocalOK(t) /\ loc[t] \in Locals /\ dir.arr = Newest /\ Newest \in Nat \ {0}
  BY Facts DEF Inv
<1>2. ~Owner(t)
  BY DEF Owner, OwnerPCs
<1>3. CASE Goto(t, to) /\ Put(t, "target", arrays[loc[t].arr][loc[t].x])
  <2> DEFINE b == arrays[loc[t].arr][loc[t].x]
  <2>1. b \in Pointers /\ b \in Nat
    <3>1. loc[t].arr \in 1 .. Newest /\ loc[t].x \in Entries(loc[t].arr)
      BY <1>1 DEF LocalOK
    <3> QED
      BY <1>1, <3>1 DEF Typed, Pointers
  <2> HIDE DEF b
  <2>2. Put(t, "target", b)
    BY <1>3 DEF b
  <2>3. /\ loc' \in [Threads -> Locals] /\ loc'[t] = [loc[t] EXCEPT !["target"] = b]
        /\ \A u \in Threads \ {t} : loc'[u] = loc[u]
    BY <1>1, <2>1, <2>2, PutLocal DEF Typed
  <2>4. /\ loc'[t].target = b /\ loc'[t].arr = loc[t].arr /\ loc'[t].x = loc[t].x
        /\ loc'[t].ret = loc[t].ret
    BY <1>1, <2>3 DEF Locals
  <2>5. pc'[t] = to
    BY <1>1, <1>3 DEF Typed, Goto
  <2>6. LocalOK(t)'
    BY <1>1, <2>1, <2>4, <2>5 DEF LocalOK, Pointers, Newest, Doubling
  <2>7. to \in PCs /\ to \notin OwnerPCs
    BY DEF PCs, OwnerPCs
  <2> QED
    BY <1>1, <1>2, <1>3, <2>3, <2>6, <2>7, MoveInv DEF Typed
<1>4. CASE Goto(t, "lost") /\ UNCHANGED loc
  <2>1. pc'[t] = "lost" /\ "lost" \in PCs /\ "lost" \notin OwnerPCs
    BY <1>1, <1>4 DEF Typed, Goto, PCs, OwnerPCs
  <2>2. LocalOK(t)'
    BY <1>1, <1>4, <2>1 DEF LocalOK, Pointers, Newest, Doubling
  <2> QED
    BY <1>1, <1>2, <1>4, <2>1, <2>2, MoveInv DEF Typed
<1> QED
  BY <1>3, <1>4

\* A step that stays inside the target: it changes the semaphore or a slot of
\* the target, the local variable ret, and pc.
Inside(t, b, to, ret) ==
  /\ Goto(t, to)
  /\ blocks' = [blocks EXCEPT ![loc[t].target] = b]
  /\ loc' = [loc EXCEPT ![t] = [loc[t] EXCEPT !.ret = ret]]
  /\ UNCHANGED <<arrays, freed, dir, global_depth, todo, acked, races>>

\* A step that Inside describes keeps the invariant.
LEMMA InsideInv ==
  ASSUME Inv, NEW t \in Threads, NEW b \in Block, NEW to, NEW ret \in -1 .. NumSlot - 1,
         Inside(t, b, to, ret), b.local_depth = Target(t).local_depth,
         to \in {"i_lock", "i_cap", "i_probe", "i_value", "i_key", "i_unlock", "i_split", "i_flusharr"},
         to \in {"i_value", "i_key", "i_flusharr"} => ret # -1,
         ~Owner(t), pc[t] # "idle"
  PROVE  Inv'
<1>1. Typed /\ LocalOK(t) /\ loc[t] \in Locals
  BY Facts DEF Inv
<1>2. /\ blocks' \in Seq(Block) /\ Len(blocks') = Len(blocks)
      /\ \A j \in Pointers : blocks'[j].local_depth = blocks[j].local_depth
  BY <1>1, PutBlock DEF Inside, Target, LocalOK, Typed
<1>3. loc' \in [Threads -> Locals] /\ \A u \in Threads \ {t} : loc'[u] = loc[u]
  <2>1. [loc[t] EXCEPT !.ret = ret] \in Locals
    BY <1>1 DEF Locals
  <2> QED
    BY <1>1, <2>1 DEF Inside, Typed
<1>4. /\ loc'[t].target = loc[t].target /\ loc'[t].arr = loc[t].arr /\ loc'[t].x = loc[t].x
      /\ loc'[t].ret = ret
  BY <1>1 DEF Inside, Typed, Locals
<1>5. pc'[t] = to /\ to \in PCs /\ to \notin OwnerPCs /\ Goto(t, to)
  BY <1>1 DEF Inside, Goto, Typed, PCs, OwnerPCs
<1>6. Pointers' = Pointers /\ Newest' = Newest /\ dir' = dir /\ todo' = todo
  BY <1>2 DEF Pointers, Newest, Inside
<1>7. LocalOK(t)'
  BY <1>1, <1>4, <1>5, <1>6 DEF LocalOK, Doubling
<1> QED
  BY <1>1, <1>2, <1>3, <1>5, <1>7, MoveInv DEF Typed, Inside

\* Stores into a block keep its type, and what the directory needs of it.
SameBits(b, c) == b.local_depth = c.local_depth /\ b.pattern = c.pattern /\ b.split = c.split

\* A store into a slot keeps the other fields of the block.
LEMMA SlotStore ==
  ASSUME NEW b \in Block, NEW i \in Slots
  PROVE  /\ \A n \in Int : [b EXCEPT !.sema = n] \in Block /\ SameBits([b EXCEPT !.sema = n], b)
         /\ b.slot[i] \in Pair
         /\ \A e \in Pair : [b EXCEPT !.slot[i] = e] \in Block
                            /\ SameBits([b EXCEPT !.slot[i] = e], b)
<1>1. b.slot \in [Slots -> Pair] /\ b.slot[i] \in Pair
  BY DEF Block
<1>2. ASSUME NEW n \in Int
      PROVE  [b EXCEPT !.sema = n] \in Block /\ SameBits([b EXCEPT !.sema = n], b)
  BY DEF Block, SameBits
<1>3. ASSUME NEW e \in Pair
      PROVE  [b EXCEPT !.slot[i] = e] \in Block /\ SameBits([b EXCEPT !.slot[i] = e], b)
  <2>1. [b.slot EXCEPT ![i] = e] \in [Slots -> Pair]
    BY <1>1
  <2>2. [b EXCEPT !.slot[i] = e] = [b EXCEPT !.slot = [b.slot EXCEPT ![i] = e]]
    BY DEF Block
  <2>3. \A f \in [Slots -> Pair] : [b EXCEPT !.slot = f] \in Block /\ SameBits([b EXCEPT !.slot = f], b)
    BY DEF Block, SameBits
  <2> QED
    BY <2>1, <2>2, <2>3
<1> QED
  BY <1>1, <1>2, <1>3

\* Where the key is known to belong to the target.
BelongPCs == {"i_lock", "i_probe", "i_value", "i_key", "i_unlock", "i_split", "i_acquire",
              "i_update", "i_double"}

\* What a step inside the target is, for the invariants.
InsideStep(t) ==
  \E b \in Block, ret \in -1 .. NumSlot - 1,
     to \in {"i_lock", "i_cap", "i_probe", "i_value", "i_key", "i_unlock", "i_split", "i_flusharr"} :
    /\ Inside(t, b, to, ret) /\ SameBits(b, Target(t))
    /\ to \in {"i_value", "i_key", "i_flusharr"} => ret # -1
    /\ to \in BelongPCs => pc[t] \in BelongPCs \/ Belongs(Target(t), Key(t))
    /\ ~Owner(t) /\ pc[t] # "idle" /\ pc[t] \notin {"i_acquire"}

\* The steps of Block::Insert and a Split that gives up are such steps.
LEMMA InsideSteps ==
  ASSUME Inv, NEW t \in Threads, Gate(t) \/ Lock(t) \/ Probe(t) \/ StoreValue(t) \/ StoreKey(t)
                                 \/ Unlock(t) \/ (Split(t) /\ Target(t).sema # 0),
         pc'[t] # "idle"
  PROVE  InsideStep(t)
<1>1. /\ Typed /\ LocalOK(t) /\ loc[t] \in Locals /\ loc[t].ret \in -1 .. NumSlot - 1
      /\ loc[t].target \in Pointers
  BY Facts DEF Inv, LocalOK, Locals
<1>2. Target(t) \in Block /\ Target(t).sema \in Int /\ SameBits(Target(t), Target(t))
  <2>1. Target(t) \in Block
    BY <1>1 DEF Target, Pointers, Typed
  <2> QED
    BY <2>1 DEF Block, SameBits
<1>3. /\ pc[t] # "idle" => /\ todo[t] # <<>> /\ Key(t) \in Keys /\ Call(t) \in Calls
                           /\ Call(t).value \in Values
  BY <1>1, Facts DEF LocalOK, Calls
<1>4. loc = [loc EXCEPT ![t] = [loc[t] EXCEPT !.ret = loc[t].ret]]
  <2>1. loc[t] = [loc[t] EXCEPT !.ret = loc[t].ret]
    BY <1>1 DEF Locals
  <2> QED
    BY <1>1, <2>1 DEF Typed
<1>5. blocks = [blocks EXCEPT ![loc[t].target] = Target(t)]
  BY <1>1 DEF Typed, Target, Pointers
<1> USE DEF PCs, OwnerPCs, Owner, BelongPCs
<1>6. CASE Gate(t)
  <2>1. CASE Target(t).sema # -1 /\ Belongs(Target(t), Key(t)) /\ Goto(t, "i_lock") /\ UNCHANGED <<loc, todo>>
    <3>1. Inside(t, Target(t), "i_lock", loc[t].ret)
      BY <1>4, <1>5, <1>6, <2>1 DEF Gate, Inside
    <3> QED
      BY <1>1, <1>2, <1>6, <2>1, <3>1 DEF InsideStep, Gate
  <2>2. CASE Goto(t, "i_cap") /\ UNCHANGED <<loc, todo>>
    <3>1. Inside(t, Target(t), "i_cap", loc[t].ret)
      BY <1>4, <1>5, <1>6, <2>2 DEF Gate, Inside
    <3> QED
      BY <1>1, <1>2, <1>6, <2>2, <3>1 DEF InsideStep, Gate
  <2>3. CASE Return(t)
    BY <1>1, <2>3 DEF Return, Goto, Typed
  <2> QED
    BY <1>6, <2>1, <2>2, <2>3 DEF Gate
<1>7. CASE Lock(t)
  <2> DEFINE b == [Target(t) EXCEPT !.sema = Target(t).sema + 1]
  <2>1. b \in Block /\ SameBits(b, Target(t))
    BY <1>2 DEF Block, SameBits
  <2>2. blocks' = [blocks EXCEPT ![loc[t].target] = b]
    BY <1>7 DEF Lock, Target
  <2> HIDE DEF b
  <2>3. Inside(t, b, "i_probe", loc[t].ret)
    BY <1>4, <1>7, <2>2 DEF Lock, Inside
  <2> QED
    BY <1>1, <1>7, <2>1, <2>3 DEF InsideStep, Lock
<1>8. CASE Probe(t)
  <2> DEFINE free == FreeSlots(Target(t))
             i == First(free)
  <2>1. CASE free # {}
    <3>1. i \in Slots /\ i \in Nat /\ i \in -1 .. NumSlot - 1
      <4>1. free \in SUBSET Nat
        BY DEF FreeSlots, Slots
      <4>2. i \in free
        <5> HIDE DEF free
        <5> QED BY <2>1, <4>1, FirstIn
      <4>3. i \in Slots
        <5> HIDE DEF i
        <5> QED BY <4>2 DEF FreeSlots
      <4> QED
        BY <4>3, ExtendibleAssumption DEF Slots
    <3> HIDE DEF i, free
    <3> DEFINE e == [Target(t).slot[i] EXCEPT !.key = SENTINEL]
               b == [Target(t) EXCEPT !.slot[i] = e]
    <3>2. e \in Pair
      <4>1. Target(t).slot[i] \in Pair
        BY <1>2, <3>1, SlotStore
      <4> QED
        BY <4>1 DEF Pair, KeyWords
    <3>3. b \in Block /\ SameBits(b, Target(t))
      <4> HIDE DEF e
      <4> QED BY <1>2, <3>1, <3>2, SlotStore
    <3>4. /\ blocks' = [blocks EXCEPT ![loc[t].target] = b]
          /\ Goto(t, "i_value") /\ Put(t, "ret", i)
      BY <1>8, <2>1 DEF Probe, Target, free, i
    <3> HIDE DEF b
    <3>5. Inside(t, b, "i_value", i)
      BY <1>8, <3>4 DEF Inside, Put, Probe
    <3> QED
      BY <1>8, <3>1, <3>3, <3>5 DEF InsideStep, Probe
  <2>2. CASE free = {}
    <3>1. Goto(t, "i_unlock") /\ Put(t, "ret", -1) /\ blocks' = blocks
      BY <1>8, <2>2 DEF Probe
    <3>2. Inside(t, Target(t), "i_unlock", -1)
      BY <1>5, <1>8, <3>1 DEF Inside, Put, Probe
    <3>3. -1 \in -1 .. NumSlot - 1
      BY ExtendibleAssumption
    <3> QED
      BY <1>2, <1>8, <3>2, <3>3 DEF InsideStep, Probe
  <2> QED
    BY <2>1, <2>2
<1>9. CASE StoreValue(t)
  <2>1. loc[t].ret \in Slots
    BY <1>1, <1>9, ExtendibleAssumption DEF LocalOK, StoreValue, Slots
  <2> DEFINE e == [Target(t).slot[loc[t].ret] EXCEPT !.value = Call(t).value]
             b == [Target(t) EXCEPT !.slot[loc[t].ret] = e]
  <2>2. e \in Pair
    <3>1. Target(t).slot[loc[t].ret] \in Pair
      BY <1>2, <2>1, SlotStore
    <3>2. Call(t).value \in Values
      BY <1>3, <1>9 DEF StoreValue
    <3> QED
      BY <3>1, <3>2 DEF Pair
  <2>3. b \in Block /\ SameBits(b, Target(t))
    <3> HIDE DEF e
    <3> QED BY <1>2, <2>1, <2>2, SlotStore
  <2>4. blocks' = [blocks EXCEPT ![loc[t].target] = b] /\ Goto(t, "i_key")
    BY <1>9 DEF StoreValue, Target
  <2> HIDE DEF b
  <2>5. Inside(t, b, "i_key", loc[t].ret)
    BY <1>4, <1>9, <2>4 DEF Inside, StoreValue
  <2>6. loc[t].ret # -1
    BY <1>1, <1>9 DEF LocalOK, StoreValue
  <2> QED
    BY <1>1, <1>9, <2>3, <2>5, <2>6 DEF InsideStep, StoreValue
<1>10. CASE StoreKey(t)
  <2>1. loc[t].ret \in Slots
    <3>1. loc[t].ret # -1
      BY <1>1, <1>10 DEF LocalOK, StoreKey
    <3> QED
      BY <1>1, <3>1, ExtendibleAssumption DEF Slots
  <2> DEFINE e == [Target(t).slot[loc[t].ret] EXCEPT !.key = Key(t), !.durable = FALSE]
             b == [Target(t) EXCEPT !.slot[loc[t].ret] = e]
  <2>2. e \in Pair
    <3>1. Target(t).slot[loc[t].ret] \in Pair
      BY <1>2, <2>1, SlotStore
    <3>2. Key(t) \in KeyWords
      BY <1>3, <1>10 DEF StoreKey, KeyWords
    <3> QED
      BY <3>1, <3>2 DEF Pair
  <2>3. b \in Block /\ SameBits(b, Target(t))
    <3> HIDE DEF e
    <3> QED BY <1>2, <2>1, <2>2, SlotStore
  <2>4. blocks' = [blocks EXCEPT ![loc[t].target] = b] /\ Goto(t, "i_unlock")
    BY <1>10 DEF StoreKey, Target
  <2> HIDE DEF b
  <2>5. Inside(t, b, "i_unlock", loc[t].ret)
    BY <1>4, <1>10, <2>4 DEF Inside, StoreKey
  <2> QED
    BY <1>1, <1>10, <2>3, <2>5 DEF InsideStep, StoreKey
<1>11. CASE Unlock(t)
  <2> DEFINE b == [Target(t) EXCEPT !.sema = Target(t).sema - 1]
  <2>1. b \in Block /\ SameBits(b, Target(t))
    BY <1>2 DEF Block, SameBits
  <2>2. blocks' = [blocks EXCEPT ![loc[t].target] = b]
    BY <1>11 DEF Unlock, Target
  <2> HIDE DEF b
  <2>3. CASE loc[t].ret # -1 /\ Goto(t, "i_flusharr") /\ UNCHANGED <<loc, todo>>
    <3>1. Inside(t, b, "i_flusharr", loc[t].ret)
      BY <1>4, <1>11, <2>2, <2>3 DEF Unlock, Inside
    <3> QED
      BY <1>1, <1>11, <2>1, <2>3, <3>1 DEF InsideStep, Unlock
  <2>4. CASE loc[t].ret = -1 /\ Goto(t, "i_split") /\ UNCHANGED <<loc, todo>>
    <3>1. Inside(t, b, "i_split", loc[t].ret)
      BY <1>4, <1>11, <2>2, <2>4 DEF Unlock, Inside
    <3> QED
      BY <1>1, <1>11, <2>1, <2>4, <3>1 DEF InsideStep, Unlock
  <2>5. CASE Return(t)
    BY <1>1, <2>5 DEF Return, Goto, Typed
  <2> QED
    BY <1>11, <2>3, <2>4, <2>5 DEF Unlock
<1>12. CASE Split(t) /\ Target(t).sema # 0
  <2>1. pc[t] = "i_split" /\ Goto(t, "i_cap")
        /\ UNCHANGED <<blocks, loc, arrays, freed, dir, global_depth, todo, acked, races>>
    BY <1>12 DEF Split
  <2>2. Inside(t, Target(t), "i_cap", loc[t].ret)
    BY <1>4, <1>5, <2>1 DEF Inside
  <2> QED
    BY <1>1, <1>2, <2>1, <2>2 DEF InsideStep
<1> QED
  BY <1>6, <1>7, <1>8, <1>9, <1>10, <1>11, <1>12

\* The calls that return.
LEMMA ReturnInv ==
  ASSUME Inv, NEW t \in Threads, ~Owner(t), pc[t] # "idle", Return(t),
         \/ blocks' = blocks
         \/ \E b \in Block : SameBits(b, Target(t)) /\ blocks' = [blocks EXCEPT ![loc[t].target] = b],
         acked' \in SUBSET Keys, UNCHANGED <<arrays, freed, dir, global_depth, races>>
  PROVE  Inv'
<1>1. Typed /\ LocalOK(t)
  BY Facts DEF Inv
<1>2. /\ blocks' \in Seq(Block) /\ Len(blocks') = Len(blocks)
      /\ \A j \in Pointers : blocks'[j].local_depth = blocks[j].local_depth
  <2>1. CASE blocks' = blocks
    BY <1>1, <2>1 DEF Typed
  <2>2. ASSUME NEW b \in Block, SameBits(b, Target(t)), blocks' = [blocks EXCEPT ![loc[t].target] = b]
        PROVE  /\ blocks' \in Seq(Block) /\ Len(blocks') = Len(blocks)
               /\ \A j \in Pointers : blocks'[j].local_depth = blocks[j].local_depth
    <3>1. loc[t].target \in Pointers /\ b.local_depth = blocks[loc[t].target].local_depth
      BY <1>1, <2>2 DEF LocalOK, SameBits, Target
    <3> QED
      BY <1>1, <2>2, <3>1, PutBlock DEF Typed
  <2> QED
    BY <2>1, <2>2
<1>3. /\ loc' \in [Threads -> Locals] /\ \A u \in Threads \ {t} : loc'[u] = loc[u]
      /\ todo' \in [Threads -> Seq(Calls)] /\ \A u \in Threads \ {t} : todo'[u] = todo[u]
      /\ LocalOK(t)'
  BY <1>2, ReturnLocal
<1>4. Goto(t, "idle") /\ "idle" \in PCs /\ "idle" \notin OwnerPCs
  BY DEF Return, PCs, OwnerPCs
<1> QED
  BY <1>1, <1>2, <1>3, <1>4, MoveInv DEF Typed

\* Gate, Unlock, FlushPair and ReturnGet return.
LEMMA ReturnSteps ==
  ASSUME Inv, NEW t \in Threads,
         ((Gate(t) \/ Unlock(t)) /\ pc'[t] = "idle") \/ FlushPair(t) \/ ReturnGet(t)
  PROVE  /\ Return(t) /\ ~Owner(t) /\ pc[t] # "idle" /\ pc[t] \notin {"i_acquire", "i_split"}
         /\ \/ blocks' = blocks
            \/ \E b \in Block : SameBits(b, Target(t))
                                /\ blocks' = [blocks EXCEPT ![loc[t].target] = b]
         /\ acked' \in SUBSET Keys /\ UNCHANGED <<arrays, freed, dir, global_depth, races>>
<1>1. /\ Typed /\ LocalOK(t) /\ loc[t] \in Locals /\ loc[t].ret \in -1 .. NumSlot - 1
      /\ loc[t].target \in Pointers
  BY Facts DEF Inv, LocalOK, Locals
<1>2. Target(t) \in Block
  BY <1>1 DEF Target, Pointers, Typed
<1>3. acked \in SUBSET Keys
  BY <1>1 DEF Typed
<1> USE DEF OwnerPCs, Owner
<1>4. CASE Gate(t) /\ pc'[t] = "idle"
  BY <1>1, <1>3, <1>4 DEF Gate, Goto, Typed
<1>5. CASE Unlock(t) /\ pc'[t] = "idle"
  <2> DEFINE b == [Target(t) EXCEPT !.sema = Target(t).sema - 1]
  <2>1. b \in Block /\ SameBits(b, Target(t))
    BY <1>2 DEF Block, SameBits
  <2>2. blocks' = [blocks EXCEPT ![loc[t].target] = b]
    BY <1>5 DEF Unlock, Target
  <2> HIDE DEF b
  <2>3. Return(t) /\ pc[t] = "i_unlock"
    BY <1>1, <1>5 DEF Unlock, Goto, Typed
  <2> QED
    BY <1>3, <1>5, <2>1, <2>2, <2>3 DEF Unlock
<1>6. CASE FlushPair(t)
  <2>1. loc[t].ret \in Slots
    <3>1. loc[t].ret # -1
      BY <1>1, <1>6 DEF LocalOK, FlushPair
    <3> QED
      BY <1>1, <3>1, ExtendibleAssumption DEF Slots
  <2> DEFINE e == [Target(t).slot[loc[t].ret] EXCEPT !.durable = TRUE]
             b == [Target(t) EXCEPT !.slot[loc[t].ret] = e]
  <2>2. e \in Pair
    <3>1. Target(t).slot[loc[t].ret] \in Pair
      BY <1>2, <2>1, SlotStore
    <3> QED
      BY <3>1 DEF Pair
  <2>3. b \in Block /\ SameBits(b, Target(t))
    <3> HIDE DEF e
    <3> QED BY <1>2, <2>1, <2>2, SlotStore
  <2>4. blocks' = [blocks EXCEPT ![loc[t].target] = b] /\ pc[t] = "i_flush" /\ Return(t)
    BY <1>6 DEF FlushPair, Target
  <2> HIDE DEF b
  <2>5. Key(t) \in Keys
    <3>1. todo[t] # <<>>
      BY <1>1, <2>4 DEF LocalOK
    <3> QED
      BY <3>1, Facts
  <2>6. acked' \in SUBSET Keys
    BY <1>3, <1>6, <2>5 DEF FlushPair
  <2> QED
    BY <1>6, <2>3, <2>4, <2>6 DEF FlushPair
<1>7. CASE ReturnGet(t)
  BY <1>3, <1>7 DEF ReturnGet
<1> QED
  BY <1>4, <1>5, <1>6, <1>7

-----------------------------------------------------------------------------
(* Splitting                                                                *)

\* Insert4split fills a free slot, if there is one.
LEMMA Insert4splitTyped ==
  ASSUME NEW slot \in [Slots -> Pair], NEW e \in Pair
  PROVE  Insert4split(slot, e) \in [Slots -> Pair]
<1> DEFINE free == {i \in Slots : slot[i].key = INVALID}
<1>1. CASE free # {}
  <2>1. free \in SUBSET Nat
    BY DEF Slots
  <2>2. First(free) \in free
    <3> HIDE DEF free
    <3> QED BY <1>1, <2>1, FirstIn
  <2>3. First(free) \in Slots
    BY <2>2
  <2>4. Insert4split(slot, e) = [slot EXCEPT ![First(free)] = e]
    BY <1>1 DEF Insert4split
  <2> QED
    BY <2>3, <2>4
<1>2. CASE free = {}
  BY <1>2 DEF Insert4split
<1> QED
  BY <1>1, <1>2

\* The slots of a half, turn by turn of the loop over the slots of the block.
LEMMA CopiedLoop ==
  ASSUME NEW b \in Block, NEW bit \in {0, 1}
  PROVE  \E U \in [0 .. NumSlot -> [Slots -> Pair]] :
           /\ U[0] = [j \in Slots |-> Empty] /\ Copied(b, bit) = U[NumSlot]
           /\ \A i \in 0 .. NumSlot - 1 :
                U[i + 1] = IF Bit(Hash[b.slot[i].key], b.local_depth) = bit
                           THEN Insert4split(U[i], b.slot[i]) ELSE U[i]
<1> DEFINE S == [Slots -> Pair]
           c == [j \in Slots |-> Empty]
           moves(i) == (Hash[b.slot[i - 1].key] \div Pow2[b.local_depth]) % 2 = bit
           Body(u) == [i \in 0 .. NumSlot |->
             IF i = 0 THEN [j \in Slots |-> Empty]
             ELSE LET e == b.slot[i - 1]
                  IN  IF (Hash[e.key] \div Pow2[b.local_depth]) % 2 = bit
                      THEN Insert4split(u[i - 1], e) ELSE u[i - 1]]
           U == CHOOSE u : u = Body(u)
           turn(i) == [v \in S |-> IF moves(i) THEN Insert4split(v, b.slot[i - 1]) ELSE v]
           step == [i \in 1 .. NumSlot |-> turn(i)]
<1>0. NumSlot \in Nat /\ NumSlot # 0
  BY ExtendibleAssumption
<1>1. Copied(b, bit) = U[NumSlot]
  BY DEF Copied
<1>2. c \in S
  <2>1. Empty \in Pair
    BY DEF Empty, Pair, KeyWords
  <2> QED
    BY <2>1
<1>3. \A i \in 1 .. NumSlot : b.slot[i - 1] \in Pair
  <2>1. \A i \in 1 .. NumSlot : i - 1 \in Slots
    BY <1>0 DEF Slots
  <2> QED
    BY <2>1, SlotStore
<1>4. ASSUME NEW i \in 1 .. NumSlot PROVE turn(i) \in [S -> S]
  <2> SUFFICES ASSUME NEW v \in S PROVE Insert4split(v, b.slot[i - 1]) \in S
    OBVIOUS
  <2> QED
    BY <1>3, Insert4splitTyped
<1>5. \A i \in 1 .. NumSlot : step[i] = turn(i)
  OBVIOUS
<1>6. step \in LoopBodies(NumSlot, S)
  <2> HIDE DEF S, turn
  <2> QED BY <1>4 DEF LoopBodies
<1> HIDE DEF step, c
<1>7. PICK f : IsRun(NumSlot, S, c, step, f)
  <2> HIDE DEF S
  <2> QED BY <1>0, <1>2, <1>6, LoopExists
<1>8. f \in [0 .. NumSlot -> S] /\ f[0] = c /\ \A i \in 1 .. NumSlot : f[i] = step[i][f[i - 1]]
  BY <1>7 DEF IsRun
<1>9. f = Body(f)
  <2> SUFFICES ASSUME NEW i \in 0 .. NumSlot PROVE f[i] = Body(f)[i]
    BY <1>8
  <2>1. CASE i = 0
    BY <1>8, <2>1 DEF c
  <2>2. CASE i # 0
    <3>1. i \in 1 .. NumSlot /\ i - 1 \in 0 .. NumSlot /\ f[i - 1] \in S
      BY <1>0, <1>8, <2>2
    <3>2. f[i] = turn(i)[f[i - 1]]
      BY <1>5, <1>8, <3>1
    <3>3. turn(i)[f[i - 1]] = IF moves(i) THEN Insert4split(f[i - 1], b.slot[i - 1]) ELSE f[i - 1]
      <4> HIDE DEF S
      <4> QED BY <3>1
    <3> QED
      BY <2>2, <3>2, <3>3
  <2> QED
    BY <2>1, <2>2
<1>10. U = Body(U)
  <2> HIDE DEF Body
  <2> QED BY <1>9
<1> HIDE DEF U
<1>11. \A i \in 0 .. NumSlot - 1 :
         U[i + 1] = IF Bit(Hash[b.slot[i].key], b.local_depth) = bit
                    THEN Insert4split(U[i], b.slot[i]) ELSE U[i]
  <2> TAKE i \in 0 .. NumSlot - 1
  <2>1. i + 1 \in 0 .. NumSlot /\ i + 1 # 0 /\ (i + 1) - 1 = i
    BY <1>0
  <2> QED
    BY <1>10, <2>1 DEF Bit
<1> DEFINE T == {i \in 0 .. NumSlot : U[i] \in S}
<1>12. 0 \in T /\ U[0] = c
  <2>1. 0 \in 0 .. NumSlot /\ U[0] = c
    BY <1>0, <1>10 DEF c
  <2> QED
    BY <1>2, <2>1
<1>13. \A i \in 0 .. NumSlot - 1 : i \in T => i + 1 \in T
  <2> SUFFICES ASSUME NEW i \in 0 .. NumSlot - 1, U[i] \in S
               PROVE  i + 1 \in 0 .. NumSlot /\ U[i + 1] \in S
    BY <1>0
  <2>1. i + 1 \in 1 .. NumSlot /\ i + 1 \in 0 .. NumSlot /\ (i + 1) - 1 = i
    BY <1>0
  <2>2. Insert4split(U[i], b.slot[i]) \in S
    BY <1>3, <2>1, Insert4splitTyped
  <2> QED
    BY <1>11, <2>1, <2>2
<1> HIDE DEF T
<1>14. 0 .. NumSlot \subseteq T
  BY <1>0, <1>12, <1>13, BoundedInduction
<1>15. U \in [0 .. NumSlot -> S]
  <2>1. \A i \in 0 .. NumSlot : U[i] \in S
    BY <1>14 DEF T
  <2>2. U = [i \in 0 .. NumSlot |-> U[i]]
    BY <1>10
  <2> HIDE DEF S
  <2> QED
    BY <2>1, <2>2
<1> QED
  BY <1>1, <1>11, <1>12, <1>15 DEF c

\* The loop over the slots makes two arrays of pairs.
LEMMA HalfTyped ==
  ASSUME NEW b \in Block, NEW bit \in {0, 1}
  PROVE  Half(b, bit) \in [Slots -> Pair]
<1>1. Copied(b, bit) \in [Slots -> Pair]
  <2>1. NumSlot \in 0 .. NumSlot
    BY ExtendibleAssumption
  <2> QED
    BY <2>1, CopiedLoop
<1>2. \A p \in Pair : [p EXCEPT !.durable = TRUE] \in Pair
  BY DEF Pair
<1> QED
  BY <1>1, <1>2 DEF Half

\* Two elements more at the end of a sequence.
LEMMA TwoMore ==
  ASSUME NEW S, NEW d \in Seq(S), NEW e \in Seq(S), NEW n \in Nat, Len(d) = n, Len(e) = 2
  PROVE  /\ d \o e \in Seq(S) /\ Len(d \o e) = n + 2
         /\ \A j \in 1 .. n : (d \o e)[j] = d[j]
         /\ (d \o e)[n + 1] = e[1] /\ (d \o e)[n + 2] = e[2]
<1>1. /\ d \o e \in Seq(S) /\ Len(d \o e) = Len(d) + Len(e)
      /\ \A i \in 1 .. Len(d) + Len(e) : (d \o e)[i] = IF i <= Len(d) THEN d[i] ELSE e[i - Len(d)]
  BY ConcatProperties
<1>2. n + 1 \in 1 .. n + 2 /\ n + 2 \in 1 .. n + 2 /\ (n + 1) - n = 1 /\ (n + 2) - n = 2
  OBVIOUS
<1> QED
  BY <1>1, <1>2

\* A sequence over a set is one over a larger set.
LEMMA SeqMono ==
  ASSUME NEW S, NEW T, S \subseteq T, NEW w \in Seq(S)
  PROVE  w \in Seq(T)
OBVIOUS

\* What a successful Split changes.
SplitStep(t, c, h1, h2) ==
  /\ pc[t] = "i_split" /\ Goto(t, "i_acquire")
  /\ blocks' \in Seq(Block) /\ Len(blocks') = Len(blocks) + 2
  /\ \A j \in Pointers \ {loc[t].target} : blocks'[j] = blocks[j]
  /\ blocks'[loc[t].target] = c
  /\ c.local_depth = Target(t).local_depth /\ c.pattern = Target(t).pattern /\ c.split = TRUE
  /\ Target(t).sema = 0 /\ c.sema = -1 /\ c.slot = Target(t).slot
  /\ h1.sema = 0 /\ h1.slot = Half(Target(t), 0) /\ h2.sema = 0 /\ h2.slot = Half(Target(t), 1)
  /\ blocks'[Len(blocks) + 1] = h1 /\ blocks'[Len(blocks) + 2] = h2
  /\ h1.local_depth = Target(t).local_depth + 1 /\ h1.split = FALSE
  /\ h2.local_depth = Target(t).local_depth + 1 /\ h2.split = FALSE
  /\ h1.pattern = Hash[Key(t)] % Pow2[Target(t).local_depth]
  /\ h2.pattern = (Hash[Key(t)] % Pow2[Target(t).local_depth]) + Pow2[Target(t).local_depth]
  /\ loc' \in [Threads -> Locals]
  /\ loc'[t] = [loc[t] EXCEPT !.s = <<Len(blocks) + 1, Len(blocks) + 2>>]
  /\ \A u \in Threads \ {t} : loc'[u] = loc[u]
  /\ races' = races \cup (IF Target(t).split THEN {"resplit"} ELSE {})
  /\ UNCHANGED <<arrays, freed, dir, global_depth, todo, acked>>

\* A Split that succeeds is described by SplitStep.
LEMMA SplitSteps ==
  ASSUME Inv, NEW t \in Threads, Split(t), Target(t).sema = 0
  PROVE  \E c, h1, h2 \in Block : SplitStep(t, c, h1, h2)
<1> DEFINE b == Target(t)
           half(bit) == [NewBlock(b.local_depth + 1,
                           (Hash[Key(t)] % Pow2[b.local_depth]) + bit * Pow2[b.local_depth])
                           EXCEPT !.slot = Half(b, bit)]
           c == [b EXCEPT !.sema = -1, !.split = TRUE]
<1>1. /\ Typed /\ LocalOK(t) /\ loc[t] \in Locals /\ loc[t].target \in Pointers
  BY Facts DEF Inv, LocalOK, Locals
<1>2. /\ pc[t] = "i_split" /\ b.local_depth < HashBits
      /\ Goto(t, "i_acquire")
      /\ blocks' = [blocks EXCEPT ![loc[t].target] = c] \o <<half(0), half(1)>>
      /\ Put(t, "s", <<Len(blocks) + 1, Len(blocks) + 2>>)
      /\ races' = races \cup (IF b.split THEN {"resplit"} ELSE {})
      /\ UNCHANGED <<arrays, freed, dir, global_depth, todo, acked>>
  BY DEF Split, Target
<1>3. b \in Block
  BY <1>1 DEF Target, Pointers, Typed
<1>4. b.local_depth \in 0 .. HashBits /\ HashBits \in Nat /\ b.local_depth + 1 \in 0 .. HashBits
      /\ b.local_depth \in Nat
  BY <1>2, <1>3, ExtendibleAssumption DEF Block
<1>5. PICK p \in Nat \ {0} : p = Pow2[b.local_depth]
  BY <1>4, Pow2Step
<1>6. Hash[Key(t)] \in Nat
  BY <1>1, <1>2, Facts DEF LocalOK
<1>7. Hash[Key(t)] % p \in Nat /\ (Hash[Key(t)] % p) + p \in Nat
  BY <1>5, <1>6
<1>8. ASSUME NEW bit \in {0, 1}, NEW q \in Nat,
             q = (Hash[Key(t)] % Pow2[b.local_depth]) + bit * Pow2[b.local_depth]
      PROVE  half(bit) \in Block /\ half(bit).local_depth = b.local_depth + 1
             /\ half(bit).pattern = q /\ half(bit).split = FALSE
             /\ half(bit).sema = 0 /\ half(bit).slot = Half(b, bit)
  <2>1. Half(b, bit) \in [Slots -> Pair]
    BY <1>3, HalfTyped
  <2>2. PICK d \in 0 .. HashBits : d = b.local_depth + 1
    BY <1>4
  <2>3. /\ NewBlock(d, q) \in Block /\ NewBlock(d, q).local_depth = d
        /\ NewBlock(d, q).pattern = q /\ NewBlock(d, q).split = FALSE /\ NewBlock(d, q).sema = 0
    <3>1. [i \in Slots |-> Empty] \in [Slots -> Pair]
      BY DEF Empty, Pair, KeyWords
    <3> QED
      BY <3>1 DEF NewBlock, Block
  <2>4. \A n \in Block, f \in [Slots -> Pair] :
          /\ [n EXCEPT !.slot = f] \in Block /\ [n EXCEPT !.slot = f].local_depth = n.local_depth
          /\ [n EXCEPT !.slot = f].pattern = n.pattern /\ [n EXCEPT !.slot = f].split = n.split
          /\ [n EXCEPT !.slot = f].sema = n.sema /\ [n EXCEPT !.slot = f].slot = f
    BY DEF Block
  <2>5. half(bit) = [NewBlock(d, q) EXCEPT !.slot = Half(b, bit)]
    BY <1>8, <2>2
  <2> HIDE DEF half
  <2> QED
    BY <2>1, <2>2, <2>3, <2>4, <2>5
<1>9. half(0) \in Block /\ half(0).local_depth = b.local_depth + 1 /\ half(0).split = FALSE
      /\ half(0).pattern = Hash[Key(t)] % p /\ half(0).sema = 0 /\ half(0).slot = Half(b, 0)
  <2>1. Hash[Key(t)] % p = (Hash[Key(t)] % Pow2[b.local_depth]) + 0 * Pow2[b.local_depth]
    BY <1>5, <1>7
  <2> HIDE DEF half
  <2> QED
    BY <1>7, <1>8, <2>1
<1>10. half(1) \in Block /\ half(1).local_depth = b.local_depth + 1 /\ half(1).split = FALSE
      /\ half(1).pattern = (Hash[Key(t)] % p) + p /\ half(1).sema = 0 /\ half(1).slot = Half(b, 1)
  <2>1. (Hash[Key(t)] % p) + p = (Hash[Key(t)] % Pow2[b.local_depth]) + 1 * Pow2[b.local_depth]
    BY <1>5, <1>7
  <2> HIDE DEF half
  <2> QED
    BY <1>7, <1>8, <2>1
<1>11. /\ c \in Block /\ c.local_depth = b.local_depth /\ c.pattern = b.pattern /\ c.split = TRUE
       /\ c.sema = -1 /\ c.slot = b.slot
  <2>1. \A d \in Block : LET e == [d EXCEPT !.sema = -1, !.split = TRUE]
                         IN  e \in Block /\ e.local_depth = d.local_depth /\ e.pattern = d.pattern
                             /\ e.split = TRUE /\ e.sema = -1 /\ e.slot = d.slot
    <3>1. -1 \in Int
      OBVIOUS
    <3> QED
      BY <3>1 DEF Block
  <2> HIDE DEF b
  <2> QED
    BY <1>3, <2>1
<1>12. PICK h1 \in Block, h2 \in Block : h1 = half(0) /\ h2 = half(1)
  BY <1>9, <1>10
<1> HIDE DEF half, c
<1>13. blocks' = [blocks EXCEPT ![loc[t].target] = c] \o <<h1, h2>>
  BY <1>2, <1>12
<1>14. /\ blocks' \in Seq(Block) /\ Len(blocks') = Len(blocks) + 2
       /\ \A j \in Pointers \ {loc[t].target} : blocks'[j] = blocks[j]
       /\ blocks'[loc[t].target] = c
       /\ blocks'[Len(blocks) + 1] = h1 /\ blocks'[Len(blocks) + 2] = h2
  <2>1. blocks \in Seq(Block) /\ Len(blocks) \in Nat
    BY <1>1 DEF Typed
  <2>2. PICK d : d = [blocks EXCEPT ![loc[t].target] = c]
    OBVIOUS
  <2>3. d \in Seq(Block) /\ Len(d) = Len(blocks) /\ d[loc[t].target] = c
        /\ \A j \in Pointers \ {loc[t].target} : d[j] = blocks[j]
    BY <1>1, <1>11, <2>1, <2>2 DEF Pointers
  <2>4. PICK e : e = <<h1, h2>>
    OBVIOUS
  <2>5. e \in Seq(Block) /\ Len(e) = 2 /\ e[1] = h1 /\ e[2] = h2
    BY <2>4
  <2>6. blocks' = d \o e
    BY <1>13, <2>2, <2>4
  <2>7. /\ d \o e \in Seq(Block) /\ Len(d \o e) = Len(blocks) + 2
        /\ \A j \in 1 .. Len(blocks) : (d \o e)[j] = d[j]
        /\ (d \o e)[Len(blocks) + 1] = h1 /\ (d \o e)[Len(blocks) + 2] = h2
    BY <2>1, <2>3, <2>5, TwoMore
  <2> QED
    BY <1>1, <2>3, <2>6, <2>7 DEF Pointers
<1>15. /\ loc' \in [Threads -> Locals]
       /\ loc'[t] = [loc[t] EXCEPT !.s = <<Len(blocks) + 1, Len(blocks) + 2>>]
       /\ \A u \in Threads \ {t} : loc'[u] = loc[u]
  <2>1. Len(blocks) \in Nat
    BY <1>1 DEF Typed
  <2>2. PICK v \in Nat \X Nat : v = <<Len(blocks) + 1, Len(blocks) + 2>>
    <3>1. \A n \in Nat : <<n + 1, n + 2>> \in Nat \X Nat
      OBVIOUS
    <3> QED
      BY <2>1, <3>1
  <2>3. Put(t, "s", v)
    BY <1>2, <2>2
  <2>4. loc' \in [Threads -> Locals] /\ loc'[t] = [loc[t] EXCEPT !["s"] = v]
        /\ \A u \in Threads \ {t} : loc'[u] = loc[u]
    BY <1>1, <2>3, PutLocal DEF Typed
  <2> QED
    BY <2>2, <2>4
<1>16. SplitStep(t, c, h1, h2)
  BY <1>2, <1>5, <1>9, <1>10, <1>11, <1>12, <1>14, <1>15 DEF SplitStep
<1> QED
  BY <1>11, <1>16

\* The two new blocks keep the invariant.
LEMMA SplitInv ==
  ASSUME Inv, NEW t \in Threads, NEW c \in Block, NEW h1 \in Block, NEW h2 \in Block,
         SplitStep(t, c, h1, h2)
  PROVE  Inv'
<1> USE DEF SplitStep
<1>1. Typed /\ LocalOK(t) /\ loc[t] \in Locals /\ loc[t].target \in Pointers
  BY Facts DEF Inv, LocalOK
<1>2. Len(blocks) \in Nat /\ Pointers \subseteq Pointers' /\ Newest' = Newest /\ dir' = dir
      /\ Len(blocks) + 1 \in Pointers' /\ Len(blocks) + 2 \in Pointers'
  BY <1>1 DEF Typed, Pointers, Newest
<1>3. \A j \in Pointers : blocks'[j].local_depth = blocks[j].local_depth
  BY DEF Target
<1>4. pc' \in [Threads -> PCs] /\ pc'[t] = "i_acquire" /\ \A u \in Threads \ {t} : pc'[u] = pc[u]
  BY <1>1 DEF Typed, Goto, PCs
<1>5. Typed'
  <2>1. \A a \in 1 .. Newest' : arrays'[a] \in [Entries(a)' -> Pointers']
    BY <1>1, <1>2 DEF Typed, Entries, DepthOf
  <2>2. races' \in SUBSET {"resplit", "freed", "torn"}
    BY <1>1 DEF Typed
  <2> QED
    BY <1>1, <1>2, <1>4, <2>1, <2>2 DEF Typed
<1>6. ASSUME NEW u \in Threads \ {t} PROVE LocalOK(u)'
  <2>1. LocalOK(u) /\ loc[u] \in Locals
    BY <1>1 DEF Inv, LocalsOK, Typed
  <2>2. pc'[u] = pc[u] /\ loc'[u] = loc[u] /\ todo'[u] = todo[u]
    BY <1>4
  <2>4. ASSUME pc[u] \in {"i_acquire", "i_update", "i_double"}
        PROVE  loc[u].s \in Pointers' \X Pointers' /\ blocks'[loc[u].s[1]].local_depth >= 1
    <3>1. loc[u].s \in Pointers \X Pointers /\ blocks[loc[u].s[1]].local_depth >= 1
      BY <2>1, <2>4 DEF LocalOK
    <3>2. loc[u].s[1] \in Pointers
      BY <3>1
    <3> QED
      BY <1>2, <1>3, <3>1, <3>2
  <2>5. ASSUME pc[u] = "i_update"
        PROVE  loc[u].writes \in Seq(Entries(Newest) \X Pointers')
    <3>1. loc[u].writes \in Seq(Entries(Newest) \X Pointers)
      BY <2>1, <2>5 DEF LocalOK
    <3>2. Entries(Newest) \X Pointers \subseteq Entries(Newest) \X Pointers'
      BY <1>2
    <3> QED
      BY <3>1, <3>2, SeqMono
  <2> QED
    BY <1>2, <2>1, <2>2, <2>4, <2>5 DEF LocalOK, Doubling, Entries, DepthOf
<1>7. LocalOK(t)'
  <2>1. /\ loc'[t].target = loc[t].target /\ loc'[t].arr = loc[t].arr /\ loc'[t].x = loc[t].x
        /\ loc'[t].s = <<Len(blocks) + 1, Len(blocks) + 2>>
    BY <1>1 DEF Locals
  <2>2. loc'[t].s \in Pointers' \X Pointers' /\ blocks'[loc'[t].s[1]].local_depth >= 1
    <3>1. Target(t).local_depth \in Nat
      <4>1. Target(t) \in Block
        BY <1>1 DEF Target, Typed, Pointers
      <4> QED
        BY <4>1, ExtendibleAssumption DEF Block
    <3> QED
      BY <1>2, <2>1, <3>1
  <2> QED
    BY <1>1, <1>2, <1>4, <2>1, <2>2 DEF LocalOK, Doubling
<1>8. LocalsOK'
  BY <1>6, <1>7 DEF LocalsOK
<1>9. \A u \in Threads : (Owner(u)' <=> Owner(u)) /\ (Doubling(u)' <=> Doubling(u))
                         /\ (pc'[u] = "i_capacity" <=> pc[u] = "i_capacity")
                         /\ (pc'[u] = "i_delete" <=> pc[u] = "i_delete")
  BY <1>4 DEF Owner, OwnerPCs, Doubling
<1>10. Locked'
  BY <1>2, <1>9 DEF Inv, Locked
<1>11. Sizes'
  BY <1>2, <1>9 DEF Inv, Sizes, DepthOf
<1> QED
  BY <1>5, <1>8, <1>10, <1>11 DEF Inv

-----------------------------------------------------------------------------
(* The owner of the directory                                               *)

\* The other threads are where they were, and what they use is still there.
LEMMA OthersOK ==
  ASSUME Inv, NEW t \in Threads, NEW u \in Threads \ {t},
         pc'[u] = pc[u], loc'[u] = loc[u], todo'[u] = todo[u],
         blocks' = blocks, dir.capacity <= dir'.capacity, dir'.capacity \in Nat,
         Newest' \in Nat, Newest <= Newest', Owner(u) => Newest' = Newest
  PROVE  LocalOK(u)'
<1>1. LocalOK(u) /\ loc[u] \in Locals /\ dir.capacity \in Nat /\ Newest \in Nat
  BY Facts
<1>2. Pointers' = Pointers
  BY DEF Pointers
<1>3. loc[u].x < dir'.capacity
  <2>1. loc[u].x \in Nat /\ loc[u].x < dir.capacity
    BY <1>1 DEF Locals, LocalOK
  <2> QED
    BY <1>1, <2>1
<1>4. loc[u].arr \in 1 .. Newest'
  BY <1>1 DEF LocalOK
<1>5. Doubling(u) \/ pc[u] = "i_update" => Newest' = Newest
  BY DEF Owner, OwnerPCs, Doubling
<1> QED
  BY <1>1, <1>2, <1>3, <1>4, <1>5 DEF LocalOK, Doubling, Entries, DepthOf

\* The depth of a block is a number and its power of two is positive.
LEMMA BlockFacts ==
  ASSUME NEW b \in Block
  PROVE  /\ b.local_depth \in Nat /\ b.pattern \in Nat /\ b.split \in BOOLEAN
         /\ Pow2[b.local_depth] \in Nat \ {0}
<1>1. b.local_depth \in Nat /\ b.pattern \in Nat /\ b.split \in BOOLEAN
  BY ExtendibleAssumption DEF Block
<1> QED
  BY <1>1, Pow2Step

\* What the directory looks like to its owner.
LEMMA OwnerFacts ==
  ASSUME Inv, NEW t \in Threads
  PROVE  /\ ~dir.lock => \A u \in Threads : ~Owner(u)
         /\ Owner(t) => dir.lock = TRUE /\ \A u \in Threads \ {t} : ~Owner(u)
         /\ ~dir.lock \/ pc[t] \in {"i_update", "i_double", "i_release"} =>
              /\ \A u \in Threads : ~Doubling(u)
              /\ global_depth = DepthOf(Newest) /\ dir.capacity = Pow2[DepthOf(Newest)]
         /\ pc[t] = "i_capacity" =>
              global_depth + 1 = DepthOf(Newest) /\ dir.capacity = Pow2[global_depth]
         /\ pc[t] = "i_delete" =>
              global_depth + 1 = DepthOf(Newest) /\ dir.capacity = Pow2[global_depth + 1]
         /\ DepthOf(Newest) \in Nat /\ Pow2[DepthOf(Newest)] \in Nat \ {0}
         /\ Entries(Newest) = 0 .. Pow2[DepthOf(Newest)] - 1
         /\ Current = arrays[Newest] /\ Current \in [Entries(Newest) -> Pointers]
<1> USE DEF Inv
<1>1. ~dir.lock => \A u \in Threads : ~Owner(u)
  BY DEF Locked
<1>2. Owner(t) => dir.lock = TRUE /\ \A u \in Threads \ {t} : ~Owner(u)
  BY DEF Locked, Typed
<1>3. \A u \in Threads : Doubling(u) => Owner(u)
  BY DEF Doubling, Owner, OwnerPCs
<1>4. ASSUME pc[t] \in OwnerPCs PROVE \A u \in Threads \ {t} : ~Doubling(u)
  BY <1>2, <1>3, <1>4 DEF Owner
<1>5. ASSUME ~dir.lock \/ pc[t] \in {"i_update", "i_double", "i_release"}
      PROVE  \A u \in Threads : ~Doubling(u)
  BY <1>1, <1>3, <1>4, <1>5 DEF Doubling, OwnerPCs
<1>6. ASSUME ~dir.lock \/ pc[t] \in {"i_update", "i_double", "i_release"}
      PROVE  global_depth = DepthOf(Newest) /\ dir.capacity = Pow2[DepthOf(Newest)]
  BY <1>5, <1>6 DEF Sizes, Doubling
<1>7. ASSUME pc[t] = "i_capacity"
      PROVE  global_depth + 1 = DepthOf(Newest) /\ dir.capacity = Pow2[global_depth]
  <2>1. \A u \in Threads : pc[u] # "i_delete"
    BY <1>4, <1>7 DEF OwnerPCs, Doubling
  <2> QED
    BY <1>7, <2>1 DEF Sizes, Doubling
<1>8. ASSUME pc[t] = "i_delete"
      PROVE  global_depth + 1 = DepthOf(Newest) /\ dir.capacity = Pow2[global_depth + 1]
  <2>1. \A u \in Threads : pc[u] # "i_capacity"
    BY <1>4, <1>8 DEF OwnerPCs, Doubling
  <2> QED
    BY <1>8, <2>1 DEF Sizes, Doubling
<1>9. Newest \in Nat \ {0} /\ dir.arr = Newest
  BY Facts
<1>10. DepthOf(Newest) \in Nat /\ Pow2[DepthOf(Newest)] \in Nat \ {0}
  BY <1>9, DepthTyped
<1>11. Current = arrays[Newest] /\ Current \in [Entries(Newest) -> Pointers]
  BY <1>9 DEF Typed, Current
<1>12. Entries(Newest) = 0 .. Pow2[DepthOf(Newest)] - 1
  BY DEF Entries
<1> QED
  BY <1>1, <1>2, <1>5, <1>6, <1>7, <1>8, <1>10, <1>11, <1>12

\* The stores that Acquire lists, when the depth allows one.
LEMMA AcquireWrites ==
  ASSUME Inv, NEW t \in Threads, pc[t] = "i_acquire", ~dir.lock,
         global_depth - blocks[loc[t].s[1]].local_depth >= 0
  PROVE  LET n == blocks[loc[t].s[1]].local_depth - 1
             x == Hash[Key(t)] % dir.capacity
             w == LSBUpdate(global_depth - blocks[loc[t].s[1]].local_depth, dir.capacity, x, loc[t].s)
         IN  /\ n \in Nat /\ n < DepthOf(Newest) /\ x \in Entries(Newest)
             /\ StoresHalves(n, DepthOf(Newest), dir.capacity, x, loc[t].s, w)
             /\ w \in Seq(Entries(Newest) \X Pointers)
<1> DEFINE n == blocks[loc[t].s[1]].local_depth - 1
           x == Hash[Key(t)] % dir.capacity
           g == DepthOf(Newest)
           s == loc[t].s
           w == LSBUpdate(global_depth - blocks[loc[t].s[1]].local_depth, dir.capacity, x, s)
<1>1. Typed /\ LocalOK(t) /\ loc[t] \in Locals
  BY Facts DEF Inv
<1>2. g \in Nat /\ Pow2[g] \in Nat \ {0} /\ global_depth = g /\ dir.capacity = Pow2[g]
      /\ Entries(Newest) = 0 .. Pow2[g] - 1
  BY OwnerFacts
<1>3. s \in Pointers \X Pointers /\ s[1] \in Pointers /\ s[2] \in Pointers
      /\ blocks[s[1]].local_depth >= 1
  BY <1>1 DEF LocalOK
<1>4. blocks[s[1]].local_depth \in Nat
  <2>1. blocks[s[1]] \in Block
    BY <1>1, <1>3 DEF Typed, Pointers
  <2> QED
    BY <2>1, BlockFacts
<1>5. n \in Nat /\ n < g /\ global_depth - blocks[s[1]].local_depth = g - (n + 1)
  BY <1>2, <1>3, <1>4
<1>6. x \in 0 .. Pow2[g] - 1
  <2>1. todo[t] # <<>>
    BY <1>1 DEF LocalOK
  <2> QED
    BY <1>2, <2>1, Facts
<1> HIDE DEF n, x, g, s
<1>7. w = LSBUpdate(g - (n + 1), Pow2[g], x, s)
  BY <1>2, <1>5 DEF s
<1> HIDE DEF w
<1>8. StoresHalves(n, g, Pow2[g], x, s, w)
  BY <1>2, <1>5, <1>6, <1>7, LSBUpdateStores
<1>9. w \in Seq(Entries(Newest) \X Pointers)
  <2>1. w \in Seq((0 .. Pow2[g] - 1) \X {s[1], s[2]})
    BY <1>8 DEF StoresHalves
  <2>2. (0 .. Pow2[g] - 1) \X {s[1], s[2]} \subseteq Entries(Newest) \X Pointers
    BY <1>2, <1>3
  <2> QED
    BY <2>1, <2>2, SeqMono
<1>10. /\ n \in Nat /\ n < g /\ x \in Entries(Newest)
       /\ StoresHalves(n, g, dir.capacity, x, s, w) /\ w \in Seq(Entries(Newest) \X Pointers)
  BY <1>2, <1>5, <1>6, <1>8, <1>9
<1> QED
  BY <1>10 DEF n, g, x, s, w

\* Taking the lock, and choosing what to do, keeps the invariant.
LEMMA AcquireInv ==
  ASSUME Inv, NEW t \in Threads, Acquire(t)
  PROVE  Inv'
<1>1. Typed /\ LocalOK(t) /\ loc[t] \in Locals /\ Newest \in Nat \ {0} /\ dir.capacity \in Nat
      /\ dir.arr = Newest
  BY Facts DEF Inv
<1>2. /\ pc[t] = "i_acquire" /\ ~dir.lock /\ dir' = [dir EXCEPT !.lock = TRUE]
      /\ UNCHANGED <<blocks, arrays, freed, global_depth, todo, acked, races>>
  BY DEF Acquire
<1>3. /\ \A u \in Threads : ~Owner(u) /\ ~Doubling(u)
      /\ global_depth = DepthOf(Newest) /\ dir.capacity = Pow2[DepthOf(Newest)]
      /\ Entries(Newest) = 0 .. dir.capacity - 1
  BY <1>2, OwnerFacts
<1>4. dir' \in [arr : Nat, capacity : Nat, lock : BOOLEAN] /\ dir'.arr = dir.arr
      /\ dir'.capacity = dir.capacity /\ dir'.lock = TRUE
  BY <1>1, <1>2 DEF Typed
<1>5. Newest' = Newest /\ Pointers' = Pointers
  BY <1>2 DEF Newest, Pointers
<1> DEFINE x == Hash[Key(t)] % dir.capacity
           w == LSBUpdate(global_depth - blocks[loc[t].s[1]].local_depth, dir.capacity, x, loc[t].s)
<1>6. \/ /\ Goto(t, "i_update") /\ Put(t, "writes", w)
         /\ global_depth - blocks[loc[t].s[1]].local_depth >= 0
      \/ Goto(t, "lost") /\ UNCHANGED loc
      \/ Goto(t, "i_double") /\ Put(t, "x", x)
  BY DEF Acquire
<1>7. x \in 0 .. dir.capacity - 1
  <2>1. todo[t] # <<>>
    BY <1>1, <1>2 DEF LocalOK
  <2> QED
    BY <2>1, Facts
<1> HIDE DEF x, w
<1>8. /\ loc' \in [Threads -> Locals] /\ \A u \in Threads \ {t} : loc'[u] = loc[u]
      /\ pc' \in [Threads -> PCs] /\ \A u \in Threads \ {t} : pc'[u] = pc[u]
      /\ pc'[t] \notin {"i_capacity", "i_delete"}
      /\ LocalOK(t)'
  <2>1. CASE /\ Goto(t, "i_update") /\ Put(t, "writes", w)
             /\ global_depth - blocks[loc[t].s[1]].local_depth >= 0
    <3>1. w \in Seq(Entries(Newest) \X Pointers)
      BY <1>2, <2>1, AcquireWrites DEF w, x
    <3>2. w \in Seq(Nat \X Nat)
      <4>1. Entries(Newest) \X Pointers \subseteq Nat \X Nat
        BY <1>3 DEF Pointers
      <4> QED
        BY <3>1, <4>1, SeqMono
    <3>3. loc' \in [Threads -> Locals] /\ loc'[t] = [loc[t] EXCEPT !["writes"] = w]
          /\ \A u \in Threads \ {t} : loc'[u] = loc[u]
      BY <1>1, <2>1, <3>2, PutLocal DEF Typed
    <3>4. /\ loc'[t].writes = w /\ loc'[t].target = loc[t].target /\ loc'[t].arr = loc[t].arr
          /\ loc'[t].x = loc[t].x /\ loc'[t].s = loc[t].s
      BY <1>1, <3>3 DEF Locals
    <3>5. /\ pc' \in [Threads -> PCs] /\ pc'[t] = "i_update"
          /\ \A u \in Threads \ {t} : pc'[u] = pc[u]
      BY <1>1, <2>1 DEF Typed, Goto, PCs
    <3>6. LocalOK(t)'
      BY <1>1, <1>2, <1>4, <1>5, <3>1, <3>4, <3>5 DEF LocalOK, Doubling, Entries, DepthOf
    <3> QED
      BY <3>3, <3>5, <3>6
  <2>2. CASE Goto(t, "lost") /\ UNCHANGED loc
    <3>1. /\ pc' \in [Threads -> PCs] /\ pc'[t] = "lost"
          /\ \A u \in Threads \ {t} : pc'[u] = pc[u]
      BY <1>1, <2>2 DEF Typed, Goto, PCs
    <3>2. LocalOK(t)'
      BY <1>1, <1>2, <1>4, <1>5, <2>2, <3>1 DEF LocalOK, Doubling
    <3> QED
      BY <1>1, <2>2, <3>1, <3>2 DEF Typed
  <2>3. CASE Goto(t, "i_double") /\ Put(t, "x", x)
    <3>1. x \in Nat
      BY <1>7
    <3>2. loc' \in [Threads -> Locals] /\ loc'[t] = [loc[t] EXCEPT !["x"] = x]
          /\ \A u \in Threads \ {t} : loc'[u] = loc[u]
      BY <1>1, <2>3, <3>1, PutLocal DEF Typed
    <3>3. /\ loc'[t].x = x /\ loc'[t].target = loc[t].target /\ loc'[t].arr = loc[t].arr
          /\ loc'[t].s = loc[t].s
      BY <1>1, <3>2 DEF Locals
    <3>4. /\ pc' \in [Threads -> PCs] /\ pc'[t] = "i_double"
          /\ \A u \in Threads \ {t} : pc'[u] = pc[u]
      BY <1>1, <2>3 DEF Typed, Goto, PCs
    <3>5. LocalOK(t)'
      BY <1>1, <1>2, <1>4, <1>5, <1>7, <3>3, <3>4 DEF LocalOK, Doubling
    <3> QED
      BY <3>2, <3>4, <3>5
  <2> QED
    BY <1>6, <2>1, <2>2, <2>3
<1>9. \A u \in Threads \ {t} : LocalOK(u)'
  BY <1>1, <1>2, <1>4, <1>5, <1>8, OthersOK
<1>10. Typed'
  BY <1>1, <1>2, <1>4, <1>5, <1>8 DEF Typed, Entries, DepthOf
<1>11. Locked'
  BY <1>3, <1>4, <1>8 DEF Locked, Owner
<1>12. Sizes'
  BY <1>1, <1>2, <1>3, <1>4, <1>5, <1>8 DEF Sizes, Doubling, DepthOf
<1> QED
  BY <1>8, <1>9, <1>10, <1>11, <1>12 DEF Inv, LocalsOK

\* A store of LSBUpdate keeps the invariant; what it does to the directory.
LEMMA StoreEntryInv ==
  ASSUME Inv, NEW t \in Threads, StoreEntry(t)
  PROVE  /\ Inv' /\ Head(loc[t].writes) \in Entries(Newest) \X Pointers
         /\ loc'[t] = [loc[t] EXCEPT !.writes = Tail(loc[t].writes)]
         /\ \A u \in Threads \ {t} : loc'[u] = loc[u]
         /\ Current' = [Current EXCEPT ![Head(loc[t].writes)[1]] = Head(loc[t].writes)[2]]
         /\ \A a \in 1 .. Newest - 1 : arrays'[a] = arrays[a]
         /\ Newest' = Newest
<1>1. Typed /\ LocalOK(t) /\ loc[t] \in Locals /\ Newest \in Nat \ {0} /\ dir.arr = Newest
      /\ dir.capacity \in Nat
  BY Facts DEF Inv
<1>2. /\ pc[t] = "i_update" /\ loc[t].writes # <<>>
      /\ UNCHANGED <<blocks, freed, dir, global_depth, pc, todo, acked, races>>
  BY DEF StoreEntry
<1>3. loc[t].writes \in Seq(Entries(Newest) \X Pointers)
  BY <1>1, <1>2 DEF LocalOK
<1>4. PICK w \in Entries(Newest) \X Pointers : w = Head(loc[t].writes)
  BY <1>2, <1>3
<1>5. w[1] \in Entries(Newest) /\ w[2] \in Pointers
  BY <1>4
<1>6. arrays' = [arrays EXCEPT ![Newest] = [arrays[Newest] EXCEPT ![w[1]] = w[2]]]
  BY <1>1, <1>4 DEF StoreEntry
<1>7. arrays[Newest] \in [Entries(Newest) -> Pointers] /\ arrays \in Seq(Array) /\ Len(arrays) = Newest
      /\ arrays[Newest] \in Array
  BY <1>1 DEF Typed, Newest
<1>8. PICK n \in [Entries(Newest) -> Pointers] : n = [arrays[Newest] EXCEPT ![w[1]] = w[2]]
  BY <1>5, <1>7
<1>9. n \in Array
  <2>1. DepthOf(Newest) \in Nat /\ Pow2[DepthOf(Newest)] \in Nat \ {0}
    BY <1>1, DepthTyped
  <2>2. PICK m \in Nat : m = Pow2[DepthOf(Newest)] - 1
    BY <2>1
  <2>3. n \in [0 .. m -> Nat]
    BY <1>8, <2>2 DEF Entries, Pointers
  <2> QED
    BY <2>3 DEF Array
<1>10. /\ arrays' \in Seq(Array) /\ Len(arrays') = Newest /\ arrays'[Newest] = n
       /\ \A a \in 1 .. Newest - 1 : arrays'[a] = arrays[a]
  BY <1>1, <1>6, <1>7, <1>8, <1>9
<1>11. PICK v \in Seq(Entries(Newest) \X Pointers) : v = Tail(loc[t].writes)
  <2>1. \A T : \A q \in Seq(T) : q # <<>> => Tail(q) \in Seq(T)
    OBVIOUS
  <2> QED
    BY <1>2, <1>3, <2>1
<1>12. v \in Seq(Nat \X Nat)
  <2>1. DepthOf(Newest) \in Nat /\ Pow2[DepthOf(Newest)] \in Nat \ {0}
    BY <1>1, DepthTyped
  <2>2. Entries(Newest) \X Pointers \subseteq Nat \X Nat
    BY <2>1 DEF Pointers, Entries
  <2> QED
    BY <1>11, <2>2, SeqMono
<1>13. loc' \in [Threads -> Locals] /\ loc'[t] = [loc[t] EXCEPT !["writes"] = v]
       /\ \A u \in Threads \ {t} : loc'[u] = loc[u]
  <2>1. Put(t, "writes", v)
    BY <1>11 DEF StoreEntry
  <2> QED
    BY <1>1, <1>12, <2>1, PutLocal DEF Typed
<1>14. /\ loc'[t].writes = v /\ loc'[t].target = loc[t].target /\ loc'[t].arr = loc[t].arr
       /\ loc'[t].x = loc[t].x /\ loc'[t].s = loc[t].s
  BY <1>1, <1>13 DEF Locals
<1>15. Newest' = Newest /\ Pointers' = Pointers
  BY <1>2, <1>10 DEF Newest, Pointers
<1>16. LocalOK(t)'
  BY <1>1, <1>2, <1>11, <1>14, <1>15 DEF LocalOK, Doubling, Entries, DepthOf
<1>17. \A u \in Threads \ {t} : LocalOK(u)'
  BY <1>1, <1>2, <1>13, <1>15, OthersOK
<1>18. Typed'
  <2>1. ASSUME NEW a \in 1 .. Newest PROVE arrays'[a] \in [Entries(a) -> Pointers]
    <3>1. CASE a = Newest
      BY <1>8, <1>10, <3>1
    <3>2. CASE a # Newest
      <4>1. a \in 1 .. Newest - 1
        BY <1>1, <3>2
      <4> QED
        BY <1>1, <1>10, <4>1 DEF Typed
    <3> QED
      BY <3>1, <3>2
  <2> QED
    BY <1>1, <1>2, <1>10, <1>13, <1>15, <2>1 DEF Typed, Entries, DepthOf
<1>19. Locked' /\ Sizes'
  BY <1>2, <1>15 DEF Inv, Locked, Owner, Sizes, Doubling, DepthOf
<1>20. Inv'
  BY <1>16, <1>17, <1>18, <1>19 DEF Inv, LocalsOK
<1>21. Current' = [Current EXCEPT ![w[1]] = w[2]]
  BY <1>1, <1>2, <1>8, <1>10 DEF Current
<1> QED
  BY <1>4, <1>10, <1>11, <1>13, <1>15, <1>20, <1>21

\* The end of LSBUpdate keeps the invariant.
LEMMA EndUpdateInv ==
  ASSUME Inv, NEW t \in Threads, EndUpdate(t)
  PROVE  Inv'
<1>1. Typed /\ LocalOK(t) /\ loc[t] \in Locals /\ Newest \in Nat \ {0} /\ dir.capacity \in Nat
  BY Facts DEF Inv
<1>2. pc[t] = "i_update" /\ Goto(t, "i_release")
      /\ UNCHANGED <<blocks, arrays, freed, dir, global_depth, loc, todo, acked, races>>
  BY DEF EndUpdate
<1>3. /\ pc' \in [Threads -> PCs] /\ pc'[t] = "i_release"
      /\ \A u \in Threads \ {t} : pc'[u] = pc[u]
  BY <1>1, <1>2 DEF Typed, Goto, PCs
<1>4. Newest' = Newest /\ Pointers' = Pointers
  BY <1>2 DEF Newest, Pointers
<1>5. LocalOK(t)'
  BY <1>1, <1>2, <1>3, <1>4 DEF LocalOK, Doubling
<1>6. \A u \in Threads \ {t} : LocalOK(u)'
  BY <1>1, <1>2, <1>3, <1>4, OthersOK
<1>7. Typed'
  BY <1>1, <1>2, <1>3, <1>4 DEF Typed, Entries, DepthOf
<1>8. \A u \in Threads : (Owner(u)' <=> Owner(u)) /\ (Doubling(u)' <=> Doubling(u))
                         /\ (pc'[u] = "i_capacity" <=> pc[u] = "i_capacity")
                         /\ (pc'[u] = "i_delete" <=> pc[u] = "i_delete")
  BY <1>2, <1>3 DEF Owner, OwnerPCs, Doubling
<1>9. Locked' /\ Sizes'
  BY <1>2, <1>4, <1>8 DEF Inv, Locked, Sizes, DepthOf
<1> QED
  BY <1>5, <1>6, <1>7, <1>9 DEF Inv, LocalsOK

\* The doubled directory is a directory.
LEMMA PublishArrayInv ==
  ASSUME Inv, NEW t \in Threads, PublishArray(t)
  PROVE  /\ Inv' /\ Newest' = Newest + 1 /\ Current' = Doubled(t)
         /\ DepthOf(Newest + 1) = DepthOf(Newest) + 1
         /\ Entries(Newest + 1) = 0 .. 2 * dir.capacity - 1
         /\ \A a \in 1 .. Newest : arrays'[a] = arrays[a]
         /\ loc'[t] = [loc[t] EXCEPT !.arr = Newest]
         /\ \A u \in Threads \ {t} : loc'[u] = loc[u]
<1>1. Typed /\ LocalOK(t) /\ loc[t] \in Locals /\ Newest \in Nat \ {0} /\ dir.arr = Newest
  BY Facts DEF Inv
<1>2. /\ pc[t] = "i_double" /\ Goto(t, "i_capacity") /\ Put(t, "arr", dir.arr)
      /\ arrays' = Append(arrays, Doubled(t)) /\ dir' = [dir EXCEPT !.arr = Len(arrays) + 1]
      /\ UNCHANGED <<blocks, freed, global_depth, todo, acked, races>>
  BY DEF PublishArray
<1>3. /\ \A u \in Threads : ~Doubling(u)
      /\ \A u \in Threads \ {t} : ~Owner(u)
      /\ dir.lock = TRUE
      /\ global_depth = DepthOf(Newest) /\ dir.capacity = Pow2[DepthOf(Newest)]
      /\ DepthOf(Newest) \in Nat /\ dir.capacity \in Nat \ {0}
      /\ Entries(Newest) = 0 .. dir.capacity - 1
      /\ Current \in [Entries(Newest) -> Pointers]
  BY <1>2, OwnerFacts DEF Owner, OwnerPCs
<1>4. /\ Newest + 1 \in Nat \ {0} /\ DepthOf(Newest + 1) = DepthOf(Newest) + 1
      /\ Pow2[DepthOf(Newest + 1)] = 2 * dir.capacity
      /\ Entries(Newest + 1) = 0 .. 2 * dir.capacity - 1
  <2>1. Newest + 1 \in Nat \ {0} /\ DepthOf(Newest + 1) = DepthOf(Newest) + 1
    BY <1>1, ExtendibleAssumption DEF DepthOf
  <2>2. Pow2[DepthOf(Newest) + 1] = 2 * Pow2[DepthOf(Newest)]
    BY <1>3, Pow2Step
  <2> QED
    BY <1>3, <2>1, <2>2 DEF Entries
<1>5. Doubled(t) \in [0 .. 2 * dir.capacity - 1 -> Pointers]
  <2>1. loc[t].s[1] \in Pointers /\ loc[t].s[2] \in Pointers
    BY <1>1, <1>2 DEF LocalOK
  <2>2. \A y \in 0 .. 2 * dir.capacity - 1 : Current[y % dir.capacity] \in Pointers
    <3>1. \A y \in 0 .. 2 * dir.capacity - 1 : y % dir.capacity \in 0 .. dir.capacity - 1
      BY <1>3
    <3> QED
      BY <1>3, <3>1
  <2> QED
    BY <2>1, <2>2 DEF Doubled
<1>6. PICK d \in [Entries(Newest + 1) -> Pointers] : d = Doubled(t)
  BY <1>4, <1>5
<1>7. d \in Array
  <2>1. PICK m \in Nat : m = 2 * dir.capacity - 1
    BY <1>3
  <2>2. d \in [0 .. m -> Nat]
    BY <1>4, <1>6, <2>1 DEF Pointers
  <2> QED
    BY <2>2 DEF Array
<1>8. /\ arrays' \in Seq(Array) /\ Newest' = Newest + 1 /\ arrays'[Newest + 1] = d
      /\ \A a \in 1 .. Newest : arrays'[a] = arrays[a]
  <2>1. arrays \in Seq(Array) /\ Len(arrays) = Newest /\ arrays' = Append(arrays, d)
    BY <1>1, <1>2, <1>6 DEF Typed, Newest
  <2> QED
    BY <1>1, <1>7, <2>1 DEF Newest
<1>9. dir' \in [arr : Nat, capacity : Nat, lock : BOOLEAN] /\ dir'.arr = Newest + 1
      /\ dir'.capacity = dir.capacity /\ dir'.lock = TRUE
  BY <1>1, <1>2, <1>3, <1>4 DEF Typed, Newest
<1>10. loc' \in [Threads -> Locals] /\ loc'[t] = [loc[t] EXCEPT !["arr"] = Newest]
       /\ \A u \in Threads \ {t} : loc'[u] = loc[u]
  <2>1. PICK n \in Nat : n = Newest
    BY <1>1
  <2>2. Put(t, "arr", n)
    BY <1>1, <1>2, <2>1
  <2>3. loc' \in [Threads -> Locals] /\ loc'[t] = [loc[t] EXCEPT !["arr"] = n]
        /\ \A u \in Threads \ {t} : loc'[u] = loc[u]
    BY <1>1, <2>2, PutLocal DEF Typed
  <2> QED
    BY <2>1, <2>3
<1>11. /\ loc'[t].target = loc[t].target /\ loc'[t].arr = Newest
       /\ loc'[t].x = loc[t].x /\ loc'[t].s = loc[t].s
  BY <1>1, <1>10 DEF Locals
<1>12. /\ pc' \in [Threads -> PCs] /\ pc'[t] = "i_capacity"
       /\ \A u \in Threads \ {t} : pc'[u] = pc[u]
  BY <1>1, <1>2 DEF Typed, Goto, PCs
<1>13. Pointers' = Pointers
  BY <1>2 DEF Pointers
<1>14. LocalOK(t)'
  <2>1. Newest' >= 2 /\ loc'[t].arr = Newest' - 1 /\ loc'[t].arr \in 1 .. Newest'
    BY <1>1, <1>8, <1>11
  <2>2. todo'[t] # <<>> /\ loc'[t].target \in Pointers' /\ loc'[t].x < dir'.capacity
    BY <1>1, <1>2, <1>9, <1>11, <1>13 DEF LocalOK
  <2> QED
    BY <1>12, <2>1, <2>2 DEF LocalOK
<1>15. \A u \in Threads \ {t} : LocalOK(u)'
  BY <1>1, <1>2, <1>3, <1>8, <1>9, <1>10, <1>12, OthersOK
<1>16. Typed'
  <2>1. ASSUME NEW a \in 1 .. Newest + 1 PROVE arrays'[a] \in [Entries(a) -> Pointers]
    <3>1. CASE a = Newest + 1
      BY <1>6, <1>8, <3>1
    <3>2. CASE a # Newest + 1
      <4>1. a \in 1 .. Newest
        BY <1>1, <3>2
      <4> QED
        BY <1>1, <1>8, <4>1 DEF Typed
    <3> QED
      BY <3>1, <3>2
  <2>2. freed' \in SUBSET (1 .. Newest' - 1) /\ Newest' >= 1
    BY <1>1, <1>2, <1>8 DEF Typed
  <2> QED
    BY <1>1, <1>2, <1>8, <1>9, <1>10, <1>12, <1>13, <2>1, <2>2 DEF Typed, Entries, DepthOf
<1>17. Locked'
  BY <1>3, <1>9, <1>12 DEF Locked, Owner
<1>18. Sizes'
  <2>1. global_depth' + 1 = DepthOf(Newest)' /\ dir'.capacity = Pow2[global_depth']
    BY <1>2, <1>3, <1>4, <1>8, <1>9 DEF DepthOf
  <2> QED
    BY <1>8, <1>9, <1>12, <2>1 DEF Sizes
<1>19. Current' = Doubled(t)
  BY <1>6, <1>8, <1>9 DEF Current
<1> QED
  BY <1>4, <1>8, <1>10, <1>14, <1>15, <1>16, <1>17, <1>18, <1>19 DEF Inv, LocalsOK

\* The new capacity agrees with the array that is already published.
LEMMA PublishCapacityInv ==
  ASSUME Inv, NEW t \in Threads, PublishCapacity(t)
  PROVE  Inv'
<1>1. Typed /\ LocalOK(t) /\ loc[t] \in Locals /\ Newest \in Nat \ {0} /\ dir.arr = Newest
      /\ dir.capacity \in Nat \ {0}
  BY Facts DEF Inv
<1>2. /\ pc[t] = "i_capacity" /\ Goto(t, "i_delete") /\ dir' = [dir EXCEPT !.capacity = 2 * @]
      /\ UNCHANGED <<blocks, arrays, freed, global_depth, loc, todo, acked, races>>
  BY DEF PublishCapacity
<1>3. /\ \A u \in Threads \ {t} : ~Owner(u)
      /\ dir.lock = TRUE
      /\ global_depth + 1 = DepthOf(Newest) /\ dir.capacity = Pow2[global_depth]
  BY <1>2, OwnerFacts DEF Owner, OwnerPCs
<1>4. dir' \in [arr : Nat, capacity : Nat, lock : BOOLEAN] /\ dir'.arr = dir.arr
      /\ dir'.capacity = 2 * dir.capacity /\ dir'.lock = TRUE
  <2>1. PICK c \in Nat : c = 2 * dir.capacity
    BY <1>1
  <2>2. dir' = [dir EXCEPT !.capacity = c] /\ dir \in [arr : Nat, capacity : Nat, lock : BOOLEAN]
    BY <1>1, <1>2, <2>1 DEF Typed
  <2> QED
    BY <1>3, <2>1, <2>2
<1>5. /\ pc' \in [Threads -> PCs] /\ pc'[t] = "i_delete"
      /\ \A u \in Threads \ {t} : pc'[u] = pc[u]
  BY <1>1, <1>2 DEF Typed, Goto, PCs
<1>6. Newest' = Newest /\ Pointers' = Pointers
  BY <1>2 DEF Newest, Pointers
<1>7. LocalOK(t)'
  <2>1. loc[t].x \in Nat /\ loc[t].x < dir.capacity
    BY <1>1 DEF LocalOK, Locals
  <2>2. loc[t].x < dir'.capacity
    BY <1>1, <1>4, <2>1
  <2> QED
    BY <1>1, <1>2, <1>5, <1>6, <2>2 DEF LocalOK, Doubling
<1>8. \A u \in Threads \ {t} : LocalOK(u)'
  <2>1. dir.capacity <= dir'.capacity /\ dir'.capacity \in Nat
    BY <1>1, <1>4
  <2> QED
    BY <1>1, <1>2, <1>5, <1>6, <2>1, OthersOK
<1>9. Typed'
  BY <1>1, <1>2, <1>4, <1>5, <1>6 DEF Typed, Entries, DepthOf
<1>10. Locked'
  BY <1>3, <1>4, <1>5 DEF Locked, Owner
<1>11. Sizes'
  <2>1. global_depth \in Nat
    BY <1>1 DEF Typed
  <2>2. dir'.capacity = Pow2[global_depth' + 1]
    BY <1>2, <1>3, <1>4, <2>1, Pow2Step
  <2> QED
    BY <1>1, <1>2, <1>3, <1>4, <1>5, <1>6, <2>2 DEF Sizes, DepthOf
<1> QED
  BY <1>7, <1>8, <1>9, <1>10, <1>11 DEF Inv, LocalsOK

\* Only an array older than the published one is deleted.
LEMMA DeleteOldInv ==
  ASSUME Inv, NEW t \in Threads, DeleteOld(t)
  PROVE  Inv'
<1>1. Typed /\ LocalOK(t) /\ loc[t] \in Locals /\ Newest \in Nat \ {0} /\ dir.arr = Newest
      /\ dir.capacity \in Nat \ {0}
  BY Facts DEF Inv
<1>2. /\ pc[t] = "i_delete" /\ Goto(t, "i_release") /\ global_depth' = global_depth + 1
      /\ freed' = freed \cup {loc[t].arr}
      /\ UNCHANGED <<blocks, arrays, dir, loc, todo, acked, races>>
  BY DEF DeleteOld
<1>3. /\ \A u \in Threads \ {t} : ~Owner(u)
      /\ dir.lock = TRUE
      /\ global_depth + 1 = DepthOf(Newest) /\ dir.capacity = Pow2[global_depth + 1]
  BY <1>2, OwnerFacts DEF Owner, OwnerPCs
<1>4. /\ pc' \in [Threads -> PCs] /\ pc'[t] = "i_release"
      /\ \A u \in Threads \ {t} : pc'[u] = pc[u]
  BY <1>1, <1>2 DEF Typed, Goto, PCs
<1>5. Newest' = Newest /\ Pointers' = Pointers
  BY <1>2 DEF Newest, Pointers
<1>6. LocalOK(t)'
  BY <1>1, <1>2, <1>4, <1>5 DEF LocalOK, Doubling
<1>7. \A u \in Threads \ {t} : LocalOK(u)'
  BY <1>1, <1>2, <1>4, <1>5, OthersOK
<1>8. freed' \in SUBSET (1 .. Newest' - 1)
  <2>1. loc[t].arr \in 1 .. Newest /\ loc[t].arr = Newest - 1
    BY <1>1, <1>2 DEF LocalOK, Doubling
  <2>2. loc[t].arr \in 1 .. Newest - 1
    BY <1>1, <2>1
  <2> QED
    BY <1>1, <1>2, <1>5, <2>2 DEF Typed
<1>9. Typed'
  <2>1. global_depth' \in Nat
    BY <1>1, <1>2 DEF Typed
  <2> QED
    BY <1>1, <1>2, <1>4, <1>5, <1>8, <2>1 DEF Typed, Entries, DepthOf
<1>10. Locked'
  BY <1>2, <1>3, <1>4 DEF Locked, Owner
<1>11. Sizes'
  <2>1. \A u \in Threads : ~Doubling(u)'
    <3>1. \A u \in Threads \ {t} : ~Doubling(u)
      BY <1>3 DEF Owner, OwnerPCs, Doubling
    <3> QED
      BY <1>4, <3>1 DEF Doubling
  <2> QED
    BY <1>1, <1>2, <1>3, <1>5, <2>1 DEF Sizes, DepthOf
<1> QED
  BY <1>6, <1>7, <1>9, <1>10, <1>11 DEF Inv, LocalsOK

\* Release keeps the invariant: the sizes agree again.
LEMMA ReleaseInv ==
  ASSUME Inv, NEW t \in Threads, Release(t)
  PROVE  Inv'
<1>1. Typed /\ LocalOK(t) /\ loc[t] \in Locals /\ Newest \in Nat \ {0} /\ dir.arr = Newest
      /\ dir.capacity \in Nat \ {0}
  BY Facts DEF Inv
<1>2. /\ pc[t] = "i_release" /\ Goto(t, "i_cap") /\ dir' = [dir EXCEPT !.lock = FALSE]
      /\ loc' = [loc EXCEPT ![t] = [NoLocals EXCEPT !.must = loc[t].must]]
      /\ UNCHANGED <<blocks, arrays, freed, global_depth, todo, acked, races>>
  BY DEF Release
<1>3. /\ \A u \in Threads \ {t} : ~Owner(u)
      /\ \A u \in Threads : ~Doubling(u)
      /\ global_depth = DepthOf(Newest) /\ dir.capacity = Pow2[DepthOf(Newest)]
  BY <1>2, OwnerFacts DEF Owner, OwnerPCs
<1>4. dir' \in [arr : Nat, capacity : Nat, lock : BOOLEAN] /\ dir'.arr = dir.arr
      /\ dir'.capacity = dir.capacity
  BY <1>1, <1>2 DEF Typed
<1>5. /\ pc' \in [Threads -> PCs] /\ pc'[t] = "i_cap"
      /\ \A u \in Threads \ {t} : pc'[u] = pc[u]
  BY <1>1, <1>2 DEF Typed, Goto, PCs
<1>6. Newest' = Newest /\ Pointers' = Pointers
  BY <1>2 DEF Newest, Pointers
<1>7. /\ loc' \in [Threads -> Locals] /\ \A u \in Threads \ {t} : loc'[u] = loc[u]
      /\ loc'[t].target = 1 /\ loc'[t].arr = 1 /\ loc'[t].x = 0
  <2>1. PICK n \in Locals : n = [NoLocals EXCEPT !.must = loc[t].must]
                            /\ n.target = 1 /\ n.arr = 1 /\ n.x = 0
    <3>1. /\ [NoLocals EXCEPT !.must = loc[t].must] \in Locals
          /\ [NoLocals EXCEPT !.must = loc[t].must].target = NoLocals.target
          /\ [NoLocals EXCEPT !.must = loc[t].must].arr = NoLocals.arr
          /\ [NoLocals EXCEPT !.must = loc[t].must].x = NoLocals.x
      BY <1>1, NoLocalsTyped DEF Locals
    <3> QED
      BY <3>1 DEF NoLocals
  <2> QED
    BY <1>1, <1>2, <2>1 DEF Typed
<1>8. LocalOK(t)'
  <2>1. 1 \in Pointers /\ 1 \in 1 .. Newest
    <3>1. Len(blocks) \in Nat /\ loc[t].target \in 1 .. Len(blocks)
      BY <1>1 DEF LocalOK, Pointers, Typed
    <3> QED
      BY <1>1, <3>1 DEF Pointers
  <2> QED
    BY <1>1, <1>2, <1>4, <1>5, <1>6, <1>7, <2>1 DEF LocalOK, Doubling
<1>9. \A u \in Threads \ {t} : LocalOK(u)'
  BY <1>1, <1>2, <1>4, <1>5, <1>6, <1>7, OthersOK
<1>10. Typed'
  BY <1>1, <1>2, <1>4, <1>5, <1>6, <1>7 DEF Typed, Entries, DepthOf
<1>11. Locked'
  BY <1>3, <1>5 DEF Locked, Owner, OwnerPCs
<1>12. Sizes'
  BY <1>1, <1>2, <1>3, <1>4, <1>5, <1>6 DEF Sizes, Doubling, DepthOf
<1> QED
  BY <1>8, <1>9, <1>10, <1>11, <1>12 DEF Inv, LocalsOK

\* The constructor.
LEMMA InitInv ==
  ASSUME Init
  PROVE  Inv
<1> USE DEF Init
<1>1. InitDepth \in Nat /\ InitDepth \in 0 .. HashBits /\ Pow2[InitDepth] \in Nat \ {0}
  BY Pow2Step, ExtendibleAssumption
<1>2. PICK p \in Nat \ {0} : p = Pow2[InitDepth]
  BY <1>1
<1>3. \A i \in 1 .. p : NewBlock(InitDepth, i - 1) \in Block
  <2>1. [i \in Slots |-> Empty] \in [Slots -> Pair]
    BY DEF Empty, Pair, KeyWords
  <2> QED
    BY <1>1, <1>2, <2>1 DEF NewBlock, Block
<1>4. blocks \in Seq(Block) /\ Len(blocks) = p /\ Pointers = 1 .. p
  <2>1. \A f : \A n \in Nat : f \in [1 .. n -> Block] => f \in Seq(Block) /\ Len(f) = n
    OBVIOUS
  <2>2. PICK f : f = [i \in 1 .. p |-> NewBlock(InitDepth, i - 1)]
    OBVIOUS
  <2>3. f \in [1 .. p -> Block] /\ blocks = f
    BY <1>2, <1>3, <2>2
  <2>4. blocks \in Seq(Block) /\ Len(blocks) = p
    BY <1>2, <2>1, <2>3
  <2> QED
    BY <2>4 DEF Pointers
<1>5. Newest = 1 /\ DepthOf(1) = InitDepth /\ Entries(1) = 0 .. p - 1
  BY <1>1, <1>2 DEF Newest, DepthOf, Entries
<1>6. arrays[1] \in [Entries(1) -> Pointers]
  BY <1>2, <1>4, <1>5
<1>7. arrays \in Seq(Array)
  <2>1. PICK m \in Nat : m = p - 1
    BY <1>2
  <2>2. PICK f : f = [x \in 0 .. Pow2[InitDepth] - 1 |-> x + 1]
    OBVIOUS
  <2>3. f \in [0 .. m -> Nat]
    BY <1>2, <2>1, <2>2
  <2>4. f \in Array
    BY <2>3 DEF Array
  <2> QED
    BY <2>2, <2>4
<1>8. todo \in [Threads -> Seq(Calls)]
  BY ExtendibleAssumption
<1>9. Typed
  BY <1>1, <1>2, <1>4, <1>5, <1>6, <1>7, <1>8, NoLocalsTyped DEF Typed, PCs
<1>10. LocalsOK
  <2>1. 1 \in Pointers /\ 1 \in 1 .. Newest /\ 0 < dir.capacity
    BY <1>2, <1>4, <1>5
  <2> QED
    BY <2>1 DEF LocalsOK, LocalOK, NoLocals, Doubling
<1>11. Locked /\ Sizes
  BY <1>5 DEF Locked, Sizes, Owner, OwnerPCs, Doubling
<1> QED
  BY <1>9, <1>10, <1>11 DEF Inv

-----------------------------------------------------------------------------
(* The theorems                                                             *)

\* Every step of a thread keeps the invariant.
LEMMA StepInv ==
  ASSUME Inv, NEW t \in Threads, Step(t)
  PROVE  Inv'
<1>1. Typed /\ LocalOK(t) /\ loc[t] \in Locals /\ dir.arr = Newest /\ dir.capacity \in Nat \ {0}
  BY Facts DEF Inv
<1>2. pc[t] # "idle" => todo[t] # <<>>
  BY <1>1 DEF LocalOK
<1>3. todo[t] # <<>> => Hash[Key(t)] % dir.capacity \in 0 .. dir.capacity - 1
  BY Facts
<1> USE DEF PCs, OwnerPCs
<1>4. CASE Start(t)
  <2>1. (Key(t) \in acked) \in BOOLEAN
    OBVIOUS
  <2>2. PICK v \in BOOLEAN : v = (Key(t) \in acked)
    BY <2>1
  <2>3. Read(t, "idle", "i_cap", "must", v) \/ Read(t, "idle", "g_cap", "must", v)
    BY <1>4, <2>2 DEF Start, Read
  <2> QED
    BY <1>4, <2>3, ReadInv DEF Start
<1>5. CASE ReadCapacity(t)
  <2>1. PICK v : v = Hash[Key(t)] % dir.capacity
    OBVIOUS
  <2>2. Read(t, "i_cap", "i_arr", "x", v) /\ pc[t] = "i_cap"
    BY <1>5, <2>1 DEF ReadCapacity, Read
  <2>3. v \in 0 .. dir.capacity - 1 /\ todo[t] # <<>>
    BY <1>2, <1>3, <2>1, <2>2
  <2> QED
    BY <2>2, <2>3, ReadInv
<1>6. CASE ReadArray(t)
  <2>1. PICK v : v = dir.arr
    OBVIOUS
  <2>2. Read(t, "i_arr", "i_entry", "arr", v) /\ pc[t] = "i_arr"
    BY <1>6, <2>1 DEF ReadArray, Read
  <2> QED
    BY <1>2, <2>1, <2>2, ReadInv
<1>7. CASE ReadFlushArray(t)
  <2>1. PICK v : v = dir.arr
    OBVIOUS
  <2>2. Read(t, "i_flusharr", "i_flushentry", "arr", v) /\ pc[t] = "i_flusharr"
    BY <1>7, <2>1 DEF ReadFlushArray, Read
  <2> QED
    BY <1>2, <2>1, <2>2, ReadInv
<1>8. CASE GetCapacity(t)
  <2>1. PICK v : v = Hash[Key(t)] % dir.capacity
    OBVIOUS
  <2>2. Read(t, "g_cap", "g_arr", "x", v) /\ pc[t] = "g_cap"
    BY <1>8, <2>1 DEF GetCapacity, Read
  <2>3. v \in 0 .. dir.capacity - 1 /\ todo[t] # <<>>
    BY <1>2, <1>3, <2>1, <2>2
  <2> QED
    BY <2>2, <2>3, ReadInv
<1>9. CASE GetArray(t)
  <2>1. PICK v : v = dir.arr
    OBVIOUS
  <2>2. Read(t, "g_arr", "g_entry", "arr", v) /\ pc[t] = "g_arr"
    BY <1>9, <2>1 DEF GetArray, Read
  <2> QED
    BY <1>2, <2>1, <2>2, ReadInv
<1>10. CASE GetScan(t)
  <2> DEFINE hits == {i \in Slots : Target(t).slot[i].key = Key(t)}
             r == IF hits = {} THEN NONE ELSE Target(t).slot[First(hits)].value
  <2>1. r \in Values \cup {NONE}
    <3>1. CASE hits # {}
      <4>1. hits \in SUBSET Nat
        BY DEF Slots
      <4>2. First(hits) \in hits
        <5> HIDE DEF hits
        <5> QED BY <3>1, <4>1, FirstIn
      <4>3. First(hits) \in Slots
        BY <4>2
      <4>4. Target(t) \in Block
        BY <1>1 DEF LocalOK, Target, Typed, Pointers
      <4>5. Target(t).slot[First(hits)] \in Pair
        <5> HIDE DEF hits
        <5> QED BY <4>3, <4>4, SlotStore
      <4> HIDE DEF hits
      <4> QED
        BY <3>1, <4>5 DEF Pair
    <3> QED
      BY <3>1
  <2>2. Read(t, "g_scan", "g_return", "result", r)
    BY <1>10 DEF GetScan, Read
  <2> HIDE DEF r
  <2> QED
    BY <2>1, <2>2, ReadInv
<1>11. CASE ReadTarget(t)
  <2>1. races' \in SUBSET {"resplit", "freed", "torn"}
    BY <1>1, <1>11 DEF ReadTarget, ReadEntry, Torn, Typed
  <2> QED
    BY <1>11, <2>1, ReadEntryInv DEF ReadTarget, ReadEntry
<1>12. CASE ReadFlushBlock(t)
  <2>1. races' \in SUBSET {"resplit", "freed", "torn"}
    BY <1>1, <1>12 DEF ReadFlushBlock, ReadEntry, Torn, Typed
  <2> QED
    BY <1>12, <2>1, ReadEntryInv DEF ReadFlushBlock, ReadEntry
<1>13. CASE GetTarget(t)
  <2>1. races' \in SUBSET {"resplit", "freed", "torn"}
    BY <1>1, <1>13 DEF GetTarget, ReadEntry, Torn, Typed
  <2> QED
    BY <1>13, <2>1, ReadEntryInv DEF GetTarget, ReadEntry
<1>14. CASE \/ Gate(t) \/ Lock(t) \/ Probe(t) \/ StoreValue(t) \/ StoreKey(t) \/ Unlock(t)
            \/ (Split(t) /\ Target(t).sema # 0)
  <2>1. CASE pc'[t] # "idle"
    <3>1. PICK b \in Block, ret \in -1 .. NumSlot - 1,
               to \in {"i_lock", "i_cap", "i_probe", "i_value", "i_key", "i_unlock", "i_split",
                       "i_flusharr"} :
            /\ Inside(t, b, to, ret) /\ SameBits(b, Target(t))
            /\ to \in {"i_value", "i_key", "i_flusharr"} => ret # -1
            /\ ~Owner(t) /\ pc[t] # "idle"
      BY <1>14, <2>1, InsideSteps DEF InsideStep
    <3> QED
      BY <3>1, InsideInv DEF SameBits
  <2>2. CASE pc'[t] = "idle"
    <3>1. Gate(t) \/ Unlock(t)
      BY <1>1, <1>14, <2>2 DEF Lock, Probe, StoreValue, StoreKey, Split, Goto, Typed
    <3> QED
      BY <2>2, <3>1, ReturnSteps, ReturnInv
  <2> QED
    BY <2>1, <2>2
<1>15. CASE FlushPair(t) \/ ReturnGet(t)
  BY <1>15, ReturnSteps, ReturnInv
<1>16. CASE Split(t) /\ Target(t).sema = 0
  BY <1>16, SplitSteps, SplitInv
<1> QED
  BY <1>4, <1>5, <1>6, <1>7, <1>8, <1>9, <1>10, <1>11, <1>12, <1>13, <1>14, <1>15, <1>16,
     AcquireInv, StoreEntryInv, EndUpdateInv, PublishArrayInv, PublishCapacityInv, DeleteOldInv,
     ReleaseInv DEF Step

\* A stuttering step changes nothing.
LEMMA StutterInv ==
  ASSUME Inv, UNCHANGED vars
  PROVE  Inv'
BY DEF Inv, vars, Typed, Newest, Pointers, LocalsOK, LocalOK, Locked, Sizes, Owner, Doubling,
       DepthOf, Entries

\* Every pointer, index and local variable stays in range, one thread at a time
\* owns dir.lock, and only while it doubles do `dir._', `capacity' and
\* `global_depth' differ.
THEOREM InvHolds == Spec => []Inv
<1>1. Inv /\ [Next]_vars => Inv'
  <2> SUFFICES ASSUME Inv, [Next]_vars PROVE Inv'
    OBVIOUS
  <2>1. CASE \E t \in Threads : Step(t)
    BY <2>1, StepInv
  <2>2. CASE UNCHANGED vars
    BY <2>2, StutterInv
  <2> QED
    BY <2>1, <2>2 DEF Next, Terminating
<1> QED
  BY InitInv, <1>1, PTL DEF Spec

\* TypeOK: every pointer leads to an allocated block, every local variable is in
\* range, for any threads, calls, hash function, block size and initial depth.
THEOREM TypeCorrect == Spec => []TypeOK
<1>1. Inv => TypeOK
  <2> SUFFICES ASSUME Inv PROVE TypeOK
    OBVIOUS
  <2>1. Typed /\ Newest \in Nat /\ dir.arr = Newest /\ DOMAIN arrays = 1 .. Newest
        /\ DOMAIN blocks = Pointers
    BY DEF Inv, Typed, Newest, Sizes, Pointers
  <2>2. ASSUME NEW i \in Pointers
        PROVE  /\ blocks[i].sema \in Int /\ blocks[i].local_depth \in 0 .. HashBits
               /\ \A j \in Slots : blocks[i].slot[j].key \in KeyWords
    <3>1. PICK b \in Block : b = blocks[i]
      BY <2>1 DEF Typed, Pointers
    <3>2. b.sema \in Int /\ b.local_depth \in 0 .. HashBits
      BY DEF Block
    <3>3. \A j \in Slots : b.slot[j].key \in KeyWords
      <4>1. \A j \in Slots : b.slot[j] \in Pair
        BY SlotStore
      <4> QED
        BY <4>1 DEF Pair
    <3> QED
      BY <3>1, <3>2, <3>3
  <2>3. \A a \in 1 .. Newest : \A x \in DOMAIN arrays[a] : arrays[a][x] \in Pointers
    BY <2>1 DEF Typed
  <2>4. freed \subseteq 1 .. Newest /\ Newest \in (1 .. Newest) \ freed
    BY <2>1 DEF Typed
  <2>5. \A t \in Threads : loc[t].target \in Pointers /\ loc[t].ret \in -1 .. NumSlot - 1
    BY Facts DEF LocalOK, Locals
  <2> QED
    BY <2>1, <2>2, <2>3, <2>4, <2>5 DEF TypeOK, Typed
<1> QED
  BY <1>1, InvHolds, PTL

\* InBounds: no thread indexes an array past its end, although `capacity' and
\* `dir._' are two loads: capacity never exceeds the size of the array.
THEOREM IndexInBounds == Spec => []InBounds
<1>1. Inv => InBounds
  <2> SUFFICES ASSUME Inv, NEW t \in Threads, pc[t] \in {"i_entry", "i_flushentry", "g_entry"}
               PROVE  loc[t].x \in DOMAIN arrays[loc[t].arr]
    BY DEF InBounds
  <2>1. loc[t].arr \in 1 .. Newest /\ loc[t].x \in Entries(loc[t].arr)
    BY Facts DEF LocalOK
  <2> QED
    BY <2>1 DEF Inv, Typed
<1> QED
  BY <1>1, InvHolds, PTL

-----------------------------------------------------------------------------
(* The directory                                                            *)

\* Split has made two halves of the target, which the directory does not have
\* yet: not at all, or not yet everywhere.
Pending(t) == pc[t] \in {"i_acquire", "i_double"}
Busy(t) == pc[t] \in {"i_acquire", "i_double", "i_update"}

\* The entries that the hash bits of a block select.
Selects(b, x) == x % Pow2[blocks[b].local_depth] = blocks[b].pattern

\* The half of t's target for entry x, and whether t has still to store it.
HalfFor(t, x) == loc[t].s[Bit(x, Target(t).local_depth) + 1]
Awaits(t, x) ==
  pc[t] = "i_update" /\ \E i \in 1 .. Len(loc[t].writes) : loc[t].writes[i][1] = x

\* Entry x leads to block b once the stores that are under way are made.
Leads(x, b) ==
  \/ \E t \in Threads : Awaits(t, x) /\ b = HalfFor(t, x)
  \/ (\A t \in Threads : ~Awaits(t, x)) /\ b = Current[x]

Whole(b) == \A x \in Entries(Newest) : Selects(b, x) => Leads(x, b)

HalfOf(t, b) == b \in {loc[t].s[1], loc[t].s[2]}
Unpublished(b) == \E t \in Threads : Pending(t) /\ HalfOf(t, b)

EntriesOK ==
  \A x \in Entries(Newest) :
    Selects(Current[x], x) /\ blocks[Current[x]].local_depth <= DepthOf(Newest)

\* What a thread has split and not yet published.
HalfPair(t) ==
  LET b == Target(t)  s == loc[t].s
  IN  /\ b.split = TRUE
      /\ s[1] # s[2] /\ s[1] # 1 /\ s[2] # 1
      /\ blocks[s[1]].local_depth = b.local_depth + 1
      /\ blocks[s[2]].local_depth = b.local_depth + 1
      /\ blocks[s[1]].pattern = b.pattern
      /\ blocks[s[2]].pattern = b.pattern + Pow2[b.local_depth]
      /\ pc[t] = "i_update" => b.local_depth < DepthOf(Newest)
      /\ pc[t] = "i_double" =>
           /\ b.local_depth = DepthOf(Newest)
           /\ loc[t].x \in Entries(Newest) /\ Selects(loc[t].target, loc[t].x)

HalvesOK == \A t \in Threads : Busy(t) => HalfPair(t)

\* No block is being split twice.
Distinct ==
  \A t, u \in Threads : Busy(t) /\ Busy(u) /\ t # u => loc[t].target # loc[u].target

\* The directory has the bits of every block that it has.
DepthsOK ==
  \A b \in Pointers : blocks[b].local_depth <= DepthOf(Newest) \/ Unpublished(b)

\* A store that is still to be made replaces the target by its half.
StoreFits(t, w) ==
  /\ Selects(loc[t].target, w[1])
  /\ w[2] = HalfFor(t, w[1])
  /\ Current[w[1]] \in {loc[t].target, w[2]}

StoresOK ==
  \A t \in Threads : pc[t] = "i_update" =>
    \A i \in 1 .. Len(loc[t].writes) : StoreFits(t, loc[t].writes[i])

\* Nobody but t has block b.
Hidden(t, b) ==
  /\ blocks[b].split = FALSE
  /\ \A a \in 1 .. Newest : \A x \in Entries(a) : arrays[a][x] # b
  /\ \A u \in Threads : loc[u].target # b
  /\ \A u \in Threads : u # t /\ Busy(u) => ~HalfOf(u, b)

HalvesHidden == \A t \in Threads : Pending(t) => \A b : HalfOf(t, b) => Hidden(t, b)

\* A block that was not split has all its entries, or none yet.
UnsplitWhole == \A b \in Pointers : blocks[b].split = TRUE \/ Unpublished(b) \/ Whole(b)

\* A block that was split has all its entries until its halves get them.
PendingWhole == \A t \in Threads : Pending(t) => Whole(loc[t].target)
SplitPending ==
  \A x \in Entries(Newest), b \in Pointers :
    Leads(x, b) /\ blocks[b].split = TRUE => \E t \in Threads : Pending(t) /\ loc[t].target = b

Patterns ==
  \A b \in Pointers : blocks[b].pattern \in 0 .. Pow2[blocks[b].local_depth] - 1

\* From the check of the pattern on, the key belongs to the target.
KeyBelongs ==
  \A t \in Threads :
    pc[t] \in BelongPCs => Belongs(Target(t), Key(t))

Shape ==
  /\ EntriesOK /\ DepthsOK /\ HalvesOK /\ Distinct /\ StoresOK /\ HalvesHidden
  /\ UnsplitWhole /\ PendingWhole /\ SplitPending

Directory == Patterns /\ KeyBelongs /\ ("resplit" \notin races => Shape)

-----------------------------------------------------------------------------
(* Steps that the directory does not notice                                 *)

\* The blocks have the depth, the pattern and the fate that they had.
SameBlocks == Pointers' = Pointers /\ \A b \in Pointers : SameBits(blocks'[b], blocks[b])

\* The same halves wait for the directory.
SamePending ==
  \A u \in Threads : /\ Pending(u)' <=> Pending(u)
                     /\ Pending(u) => loc'[u].target = loc[u].target /\ loc'[u].s = loc[u].s

SameLeads == \A x \in Entries(Newest), b \in Pointers : Leads(x, b)' <=> Leads(x, b)

\* The published array has an entry for every value of its bits.
LEMMA CurrentTyped ==
  ASSUME Inv
  PROVE  /\ Current = arrays[Newest] /\ Current \in [Entries(Newest) -> Pointers]
         /\ Newest \in Nat \ {0} /\ Newest \in 1 .. Newest
         /\ DepthOf(Newest) \in Nat /\ Pow2[DepthOf(Newest)] \in Nat \ {0}
         /\ Entries(Newest) = 0 .. Pow2[DepthOf(Newest)] - 1
<1>1. Newest \in Nat \ {0} /\ Newest \in 1 .. Newest /\ dir.arr = Newest
  BY DEF Inv, Typed, Newest, Sizes
<1> QED
  BY <1>1, DepthTyped DEF Inv, Typed, Current, Entries

\* A block that keeps its bits selects the same entries,
LEMMA SelectsKept ==
  ASSUME SameBlocks
  PROVE  \A b \in Pointers : \A x : Selects(b, x)' <=> Selects(b, x)
BY DEF SameBlocks, SameBits, Selects

\* the same halves are unpublished,
LEMMA UnpublishedKept ==
  ASSUME SamePending, NEW b
  PROVE  Unpublished(b)' <=> Unpublished(b)
BY DEF SamePending, Unpublished, HalfOf

\* and a block that had all its entries has them.
LEMMA WholeKept ==
  ASSUME SameBlocks, SameLeads, Newest' = Newest, NEW b \in Pointers
  PROVE  Whole(b)' <=> Whole(b)
<1>1. \A x : Selects(b, x)' <=> Selects(b, x)
  BY SelectsKept
<1>2. \A x \in Entries(Newest) : Leads(x, b)' <=> Leads(x, b)
  BY DEF SameLeads
<1> QED
  BY <1>1, <1>2 DEF Whole, Entries, DepthOf

\* The same of the target of a thread.
LEMMA WholeTarget ==
  ASSUME NEW u \in Threads, NEW b, loc'[u].target = b, Whole(b)'
  PROVE  Whole(loc[u].target)'
BY DEF Whole, Selects, Leads

\* A step that changes neither bits, nor halves, nor where entries lead.
LEMMA OwnershipKept ==
  ASSUME Inv, Shape, SameBlocks, SamePending, SameLeads, Newest' = Newest
  PROVE  DepthsOK' /\ UnsplitWhole' /\ PendingWhole' /\ SplitPending'
<1>1. /\ Pointers' = Pointers
      /\ \A b \in Pointers : blocks'[b].local_depth = blocks[b].local_depth
                             /\ blocks'[b].split = blocks[b].split
  BY DEF SameBlocks, SameBits
<1>2. \A b : Unpublished(b)' <=> Unpublished(b)
  BY UnpublishedKept
<1>3. \A b \in Pointers : Whole(b)' <=> Whole(b)
  BY WholeKept
<1>4. \A u \in Threads : loc[u].target \in Pointers
  BY Facts DEF LocalOK
<1>5. DepthsOK'
  BY <1>1, <1>2 DEF Shape, DepthsOK, DepthOf
<1>6. UnsplitWhole'
  BY <1>1, <1>2, <1>3 DEF Shape, UnsplitWhole
<1>7. PendingWhole'
  <2> SUFFICES ASSUME NEW u \in Threads, Pending(u)' PROVE Whole(loc[u].target)'
    BY DEF PendingWhole
  <2>1. Pending(u) /\ loc'[u].target = loc[u].target
    BY DEF SamePending
  <2>2. Whole(loc[u].target)
    BY <2>1 DEF Shape, PendingWhole
  <2>3. PICK b \in Pointers : b = loc[u].target
    BY <1>4
  <2>4. Whole(b)'
    BY <1>3, <2>2, <2>3
  <2> QED
    BY <2>1, <2>3, <2>4 DEF Whole, Selects, Leads
<1>8. SplitPending'
  <2> SUFFICES ASSUME NEW x \in Entries(Newest), NEW b \in Pointers, Leads(x, b)', blocks'[b].split = TRUE
               PROVE  \E u \in Threads : Pending(u)' /\ loc'[u].target = b
    BY <1>1 DEF SplitPending, Entries, DepthOf
  <2>1. Leads(x, b) /\ blocks[b].split = TRUE
    BY <1>1 DEF SameLeads
  <2>2. PICK u \in Threads : Pending(u) /\ loc[u].target = b
    BY <2>1 DEF Shape, SplitPending
  <2> QED
    BY <2>2 DEF SamePending
<1> QED
  BY <1>5, <1>6, <1>7, <1>8

\* The threads that are about to store into the directory stand still; a
\* thread may leave an update that is complete, and load a pointer.
Calm ==
  /\ UNCHANGED arrays /\ dir'.arr = dir.arr /\ SameBlocks
  /\ \A u \in Threads :
       /\ Busy(u)' \/ Pending(u) \/ (pc[u] = "i_update" /\ loc[u].writes # <<>>) =>
            pc'[u] = pc[u] /\ loc'[u] = loc[u]
       /\ \/ loc'[u].target = loc[u].target \/ loc'[u].target = 1
          \/ \E a \in 1 .. Newest : \E x \in Entries(a) : loc'[u].target = arrays[a][x]
       /\ pc'[u] \in BelongPCs =>
            /\ todo'[u] = todo[u] /\ loc'[u].target = loc[u].target
            /\ pc[u] \in BelongPCs \/ Belongs(Target(u), Key(u))
  /\ "resplit" \in races' <=> "resplit" \in races

\* A calm step keeps patterns, and keys in the blocks they belong to.
LEMMA CalmBelongs ==
  ASSUME Inv, Patterns, KeyBelongs, Calm
  PROVE  Patterns' /\ KeyBelongs'
<1>1. /\ Pointers' = Pointers
      /\ \A b \in Pointers : blocks'[b].local_depth = blocks[b].local_depth
                             /\ blocks'[b].pattern = blocks[b].pattern
  BY DEF Calm, SameBlocks, SameBits
<1>2. Patterns'
  BY <1>1 DEF Patterns
<1>3. ASSUME NEW u \in Threads, pc'[u] \in BelongPCs PROVE Belongs(Target(u), Key(u))'
  <2>1. /\ todo'[u] = todo[u] /\ loc'[u].target = loc[u].target
        /\ pc[u] \in BelongPCs \/ Belongs(Target(u), Key(u))
    BY <1>3 DEF Calm
  <2>2. Belongs(Target(u), Key(u))
    BY <2>1 DEF KeyBelongs
  <2>3. loc[u].target \in Pointers
    BY Facts DEF LocalOK
  <2> QED
    BY <1>1, <2>1, <2>2, <2>3 DEF Belongs, Target, Key, Call
<1> QED
  BY <1>2, <1>3 DEF KeyBelongs

\* A calm step keeps the shape of the directory.
LEMMA CalmShape ==
  ASSUME Inv, Inv', Shape, Calm
  PROVE  Shape'
<1> USE DEF Calm
<1>1. /\ SameBlocks /\ Pointers' = Pointers /\ Newest' = Newest /\ Current' = Current
      /\ \A b \in Pointers : /\ blocks'[b].local_depth = blocks[b].local_depth
                             /\ blocks'[b].pattern = blocks[b].pattern
                             /\ blocks'[b].split = blocks[b].split
  BY DEF SameBlocks, SameBits, Newest, Current
<1>2. ASSUME NEW u \in Threads
      PROVE  /\ loc[u].target \in Pointers
             /\ Busy(u) => loc[u].s[1] \in Pointers /\ loc[u].s[2] \in Pointers
             /\ Busy(u)' => Busy(u) /\ pc'[u] = pc[u] /\ loc'[u] = loc[u]
             /\ Pending(u)' <=> Pending(u)
  BY Facts DEF LocalOK, Busy, Pending
<1>3. SamePending
  BY <1>2 DEF SamePending, Busy, Pending
<1>4. \A b \in Pointers : \A x : Selects(b, x)' <=> Selects(b, x)
  BY <1>1, SelectsKept
<1>5. ASSUME NEW u \in Threads, NEW x
      PROVE  /\ Awaits(u, x)' <=> Awaits(u, x)
             /\ Awaits(u, x) => HalfFor(u, x)' = HalfFor(u, x)
  <2>1. ASSUME Awaits(u, x) PROVE pc[u] = "i_update" /\ loc[u].writes # <<>>
    BY <2>1 DEF Awaits
  <2>2. ASSUME Awaits(u, x)' PROVE pc'[u] = pc[u] /\ loc'[u] = loc[u]
    BY <1>2, <2>2 DEF Awaits, Busy
  <2>3. Awaits(u, x)' <=> Awaits(u, x)
    BY <2>1, <2>2 DEF Awaits
  <2>4. ASSUME Awaits(u, x) PROVE HalfFor(u, x)' = HalfFor(u, x)
    <3>1. loc'[u] = loc[u]
      BY <2>1, <2>4
    <3>2. Target(u)'.local_depth = Target(u).local_depth
      BY <1>1, <1>2, <3>1 DEF Target
    <3> QED
      BY <3>1, <3>2 DEF HalfFor, Bit
  <2> QED
    BY <2>3, <2>4
<1>6. SameLeads
  <2> SUFFICES ASSUME NEW x \in Entries(Newest), NEW b \in Pointers
               PROVE  Leads(x, b)' <=> Leads(x, b)
    BY DEF SameLeads
  <2> QED
    BY <1>1, <1>5 DEF Leads
<1>7. DepthsOK' /\ UnsplitWhole' /\ PendingWhole' /\ SplitPending'
  BY <1>1, <1>3, <1>6, OwnershipKept
<1>8. EntriesOK'
  <2> SUFFICES ASSUME NEW x \in Entries(Newest)
               PROVE  Selects(Current[x], x)' /\ blocks'[Current[x]].local_depth <= DepthOf(Newest)
    BY <1>1 DEF EntriesOK, Entries, DepthOf
  <2>1. Selects(Current[x], x) /\ blocks[Current[x]].local_depth <= DepthOf(Newest)
    BY DEF Shape, EntriesOK
  <2>2. Current[x] \in Pointers
    BY CurrentTyped
  <2> QED
    BY <1>1, <2>1, <2>2 DEF Selects
<1>9. ASSUME NEW u \in Threads, Busy(u)'
      PROVE  /\ Busy(u) /\ pc'[u] = pc[u] /\ loc'[u] = loc[u]
             /\ SameBits(Target(u)', Target(u))
             /\ SameBits(blocks'[loc[u].s[1]], blocks[loc[u].s[1]])
             /\ SameBits(blocks'[loc[u].s[2]], blocks[loc[u].s[2]])
  BY <1>1, <1>2, <1>9 DEF SameBlocks, Target
<1>10. HalvesOK'
  <2> SUFFICES ASSUME NEW u \in Threads, Busy(u)' PROVE HalfPair(u)'
    BY DEF HalvesOK
  <2>1. HalfPair(u)
    BY <1>9 DEF Shape, HalvesOK
  <2>2. pc'[u] = "i_double" => (Selects(loc[u].target, loc[u].x)' <=> Selects(loc[u].target, loc[u].x))
    BY <1>9 DEF Selects, SameBits, Target
  <2> QED
    BY <1>1, <1>9, <2>1, <2>2 DEF HalfPair, SameBits, Entries, DepthOf
<1>11. Distinct'
  BY <1>9 DEF Shape, Distinct
<1>12. StoresOK'
  <2> SUFFICES ASSUME NEW u \in Threads, pc'[u] = "i_update", NEW i \in 1 .. Len(loc'[u].writes)
               PROVE  StoreFits(u, loc[u].writes[i])'
    BY DEF StoresOK
  <2>1. loc'[u] = loc[u] /\ pc[u] = "i_update" /\ loc[u].target \in Pointers
        /\ SameBits(Target(u)', Target(u))
    BY <1>2, <1>9 DEF Busy
  <2>2. StoreFits(u, loc[u].writes[i])
    BY <2>1 DEF Shape, StoresOK
  <2> QED
    BY <1>1, <2>1, <2>2 DEF StoreFits, Selects, HalfFor, Bit, Target, SameBits
<1>13. HalvesHidden'
  <2> SUFFICES ASSUME NEW t \in Threads, Pending(t)', NEW b, HalfOf(t, b)' PROVE Hidden(t, b)'
    BY DEF HalvesHidden
  <2>1. Pending(t) /\ Busy(t) /\ loc'[t] = loc[t] /\ HalfOf(t, b) /\ b \in Pointers
    BY <1>2 DEF HalfOf, Pending, Busy
  <2>2. Hidden(t, b)
    BY <2>1 DEF Shape, HalvesHidden
  <2>3. b # 1
    BY <2>1 DEF Shape, HalvesOK, HalfPair, HalfOf
  <2>4. \A u \in Threads : loc'[u].target # b
    BY <2>2, <2>3 DEF Hidden
  <2>5. \A u \in Threads : u # t /\ Busy(u)' => ~HalfOf(u, b)'
    BY <1>9, <2>2 DEF Hidden, HalfOf
  <2> QED
    BY <1>1, <2>1, <2>2, <2>4, <2>5 DEF Hidden
<1> QED
  BY <1>7, <1>8, <1>10, <1>11, <1>12, <1>13 DEF Shape

\* A step of t that the directory does not notice.
LEMMA CalmStep ==
  ASSUME Inv, NEW t \in Threads, UNCHANGED arrays, dir'.arr = dir.arr, SameBlocks,
         \A u \in Threads \ {t} : pc'[u] = pc[u] /\ loc'[u] = loc[u] /\ todo'[u] = todo[u],
         ~Pending(t), pc[t] = "i_update" => loc[t].writes = <<>>, ~Busy(t)',
         \/ loc'[t].target = loc[t].target \/ loc'[t].target = 1
         \/ \E a \in 1 .. Newest : \E x \in Entries(a) : loc'[t].target = arrays[a][x],
         pc'[t] \in BelongPCs => /\ todo'[t] = todo[t] /\ loc'[t].target = loc[t].target
                                 /\ pc[t] \in BelongPCs \/ Belongs(Target(t), Key(t)),
         "resplit" \in races' <=> "resplit" \in races
  PROVE  Calm
<1>1. ASSUME NEW u \in Threads, u # t, pc'[u] \in BelongPCs
      PROVE  pc[u] \in BelongPCs /\ todo'[u] = todo[u] /\ loc'[u].target = loc[u].target
  BY <1>1
<1> QED
  BY <1>1 DEF Calm, Busy

\* A step of t that leaves the blocks alone.
LEMMA BlocksKept ==
  ASSUME blocks' = blocks
  PROVE  SameBlocks
BY DEF SameBlocks, SameBits, Pointers

\* A store into the target that keeps its bits.
LEMMA BlockPut ==
  ASSUME Inv, NEW t \in Threads, NEW b \in Block, SameBits(b, Target(t)),
         blocks' = [blocks EXCEPT ![loc[t].target] = b]
  PROVE  SameBlocks
<1>1. loc[t].target \in Pointers /\ blocks \in Seq(Block)
  BY Facts DEF LocalOK, Inv, Typed
<1>2. /\ Len(blocks') = Len(blocks) /\ blocks'[loc[t].target] = b
      /\ \A j \in Pointers \ {loc[t].target} : blocks'[j] = blocks[j]
  BY <1>1, PutBlock DEF SameBits, Target
<1> QED
  BY <1>2 DEF SameBlocks, SameBits, Pointers, Target

\* Where a step that only moves t goes.
LEMMA GotoOthers ==
  ASSUME Inv, NEW t \in Threads, NEW to, Goto(t, to)
  PROVE  pc'[t] = to /\ \A u \in Threads \ {t} : pc'[u] = pc[u]
BY DEF Inv, Typed, Goto

\* A store into a local variable of t.
LEMMA PutOthers ==
  ASSUME Inv, NEW t \in Threads, NEW f \in {"x", "arr", "ret", "must", "result", "target"}, NEW v,
         Put(t, f, v)
  PROVE  /\ loc'[t].target = IF f = "target" THEN v ELSE loc[t].target
         /\ \A u \in Threads \ {t} : loc'[u] = loc[u]
<1>1. loc \in [Threads -> Locals] /\ loc[t] \in Locals
  BY DEF Inv, Typed
<1>2. loc' = [loc EXCEPT ![t] = [loc[t] EXCEPT ![f] = v]]
  BY DEF Put
<1>3. [loc[t] EXCEPT ![f] = v].target = IF f = "target" THEN v ELSE loc[t].target
  BY <1>1 DEF Locals
<1> QED
  BY <1>1, <1>2, <1>3

\* The loads, the steps inside a block, the ends of calls, and the owner's
\* steps after the directory has its new entries.
LEMMA CalmSteps ==
  ASSUME Inv, NEW t \in Threads, Step(t),
         ~Acquire(t), ~StoreEntry(t), ~PublishArray(t), ~(Split(t) /\ Target(t).sema = 0)
  PROVE  Calm
<1> USE DEF BelongPCs
<1>1. ASSUME NEW from, NEW to, NEW f \in {"x", "arr", "must", "result"}, NEW v,
             Read(t, from, to, f, v), ~Pending(t), from # "i_update", to \notin BelongPCs
      PROVE  Calm
  <2>1. /\ pc[t] = from /\ Goto(t, to) /\ Put(t, f, v)
        /\ UNCHANGED <<blocks, arrays, dir, todo, races>>
    BY <1>1 DEF Read
  <2>2. pc'[t] = to /\ \A u \in Threads \ {t} : pc'[u] = pc[u]
    BY <2>1, GotoOthers
  <2>3. loc'[t].target = loc[t].target /\ \A u \in Threads \ {t} : loc'[u] = loc[u]
    BY <1>1, <2>1, PutOthers
  <2>4. SameBlocks
    BY <2>1, BlocksKept
  <2>5. ~Busy(t)'
    BY <1>1, <2>2 DEF Busy
  <2> HIDE DEF BelongPCs
  <2> QED
    BY <1>1, <2>1, <2>2, <2>3, <2>4, <2>5, CalmStep
<1>2. CASE Start(t) \/ ReadCapacity(t) \/ ReadArray(t) \/ ReadFlushArray(t) \/ GetCapacity(t)
           \/ GetArray(t) \/ GetScan(t)
  <2>1. PICK from, to, f, v :
          /\ Read(t, from, to, f, v) /\ f \in {"x", "arr", "must", "result"}
          /\ from \in {"idle", "i_cap", "i_arr", "i_flusharr", "g_cap", "g_arr", "g_scan"}
          /\ to \in {"i_cap", "g_cap", "i_arr", "i_entry", "i_flushentry", "g_arr", "g_entry", "g_return"}
    <3>1. CASE Start(t)
      <4>1. PICK v : v = (Key(t) \in acked)
        OBVIOUS
      <4>2. Read(t, "idle", "i_cap", "must", v) \/ Read(t, "idle", "g_cap", "must", v)
        BY <3>1, <4>1 DEF Start, Read
      <4> QED
        BY <4>2
    <3>2. CASE ReadCapacity(t)
      BY <3>2 DEF ReadCapacity
    <3>3. CASE ReadArray(t)
      BY <3>3 DEF ReadArray
    <3>4. CASE ReadFlushArray(t)
      BY <3>4 DEF ReadFlushArray
    <3>5. CASE GetCapacity(t)
      BY <3>5 DEF GetCapacity
    <3>6. CASE GetArray(t)
      BY <3>6 DEF GetArray
    <3>7. CASE GetScan(t)
      <4> DEFINE hits == {i \in Slots : Target(t).slot[i].key = Key(t)}
      <4>1. PICK v : v = IF hits = {} THEN NONE ELSE Target(t).slot[First(hits)].value
        OBVIOUS
      <4>2. Read(t, "g_scan", "g_return", "result", v)
        BY <3>7, <4>1 DEF GetScan, Read
      <4> QED
        BY <4>2
    <3> QED
      BY <1>2, <3>1, <3>2, <3>3, <3>4, <3>5, <3>6, <3>7
  <2>2. ~Pending(t)
    BY <2>1 DEF Read, Pending
  <2> QED
    BY <1>1, <2>1, <2>2
<1>3. CASE ReadTarget(t) \/ ReadFlushBlock(t) \/ GetTarget(t)
  <2>1. PICK to \in {"i_gate", "i_flush", "g_scan"} :
          /\ pc[t] \in {"i_entry", "i_flushentry", "g_entry"}
          /\ \/ Goto(t, to) /\ Put(t, "target", arrays[loc[t].arr][loc[t].x])
             \/ Goto(t, "lost") /\ UNCHANGED loc
          /\ UNCHANGED <<blocks, arrays, dir, todo>>
          /\ "resplit" \in races' <=> "resplit" \in races
    BY <1>3 DEF ReadTarget, ReadFlushBlock, ReadEntry, GetTarget, Torn
  <2>2. pc'[t] \in {"i_gate", "i_flush", "g_scan", "lost"} /\ \A u \in Threads \ {t} : pc'[u] = pc[u]
    BY <2>1, GotoOthers
  <2>3. /\ loc'[t].target \in {loc[t].target, arrays[loc[t].arr][loc[t].x]}
        /\ \A u \in Threads \ {t} : loc'[u] = loc[u]
    BY <2>1, PutOthers
  <2>4. loc[t].arr \in 1 .. Newest /\ loc[t].x \in Entries(loc[t].arr)
    BY <2>1, Facts DEF LocalOK
  <2>5. SameBlocks
    BY <2>1, BlocksKept
  <2>6. ~Busy(t)' /\ ~Pending(t) /\ pc[t] # "i_update" /\ pc'[t] \notin BelongPCs
    BY <2>1, <2>2 DEF Busy, Pending
  <2> HIDE DEF BelongPCs
  <2> QED
    BY <2>1, <2>2, <2>3, <2>4, <2>5, <2>6, CalmStep
<1>4. ASSUME InsideStep(t)
      PROVE  Calm
  <2>1. PICK b \in Block, ret \in -1 .. NumSlot - 1,
             to \in {"i_lock", "i_cap", "i_probe", "i_value", "i_key", "i_unlock", "i_split",
                     "i_flusharr"} :
          /\ Inside(t, b, to, ret) /\ SameBits(b, Target(t))
          /\ to \in BelongPCs => pc[t] \in BelongPCs \/ Belongs(Target(t), Key(t))
          /\ ~Owner(t) /\ pc[t] \notin {"i_acquire"}
    BY <1>4 DEF InsideStep
  <2>2. /\ Goto(t, to) /\ blocks' = [blocks EXCEPT ![loc[t].target] = b]
        /\ loc' = [loc EXCEPT ![t] = [loc[t] EXCEPT !.ret = ret]]
        /\ UNCHANGED <<arrays, dir, todo, races>>
    BY <2>1 DEF Inside
  <2>3. pc'[t] = to /\ \A u \in Threads \ {t} : pc'[u] = pc[u]
    BY <2>2, GotoOthers
  <2>4. SameBlocks
    BY <2>1, <2>2, BlockPut
  <2>5. loc'[t].target = loc[t].target /\ \A u \in Threads \ {t} : loc'[u] = loc[u]
    <3>1. Put(t, "ret", ret)
      BY <2>2 DEF Put
    <3> QED
      BY <3>1, PutOthers
  <2>6. ~Busy(t)' /\ ~Pending(t) /\ pc[t] # "i_update"
    BY <2>1, <2>3 DEF Busy, Pending, Owner, OwnerPCs
  <2> HIDE DEF BelongPCs
  <2> QED
    BY <2>1, <2>2, <2>3, <2>4, <2>5, <2>6, CalmStep
<1>5. ASSUME Return(t), ~Owner(t), pc[t] # "i_acquire", UNCHANGED <<arrays, dir, races>>,
             \/ blocks' = blocks
             \/ \E b \in Block : SameBits(b, Target(t)) /\ blocks' = [blocks EXCEPT ![loc[t].target] = b]
      PROVE  Calm
  <2>1. pc'[t] = "idle" /\ \A u \in Threads \ {t} : pc'[u] = pc[u]
    BY <1>5, GotoOthers DEF Return
  <2>2. loc'[t].target = 1 /\ \A u \in Threads \ {t} : loc'[u] = loc[u] /\ todo'[u] = todo[u]
    BY <1>5 DEF Return, NoLocals, Inv, Typed
  <2>3. SameBlocks
    BY <1>5, BlocksKept, BlockPut
  <2>4. ~Busy(t)' /\ ~Pending(t) /\ pc[t] # "i_update" /\ pc'[t] \notin BelongPCs
    BY <1>5, <2>1 DEF Busy, Pending, Owner, OwnerPCs
  <2> HIDE DEF BelongPCs
  <2> QED
    BY <1>5, <2>1, <2>2, <2>3, <2>4, CalmStep
<1>6. CASE \/ Gate(t) \/ Lock(t) \/ Probe(t) \/ StoreValue(t) \/ StoreKey(t) \/ Unlock(t)
           \/ (Split(t) /\ Target(t).sema # 0)
  <2>1. CASE pc'[t] # "idle"
    BY <1>4, <1>6, <2>1, InsideSteps
  <2>2. CASE pc'[t] = "idle"
    <3>1. Gate(t) \/ Unlock(t)
      BY <1>6, <2>2 DEF Lock, Probe, StoreValue, StoreKey, Split, Goto, Inv, Typed
    <3> QED
      BY <1>5, <2>2, <3>1, ReturnSteps
  <2> QED
    BY <2>1, <2>2
<1>7. CASE FlushPair(t) \/ ReturnGet(t)
  BY <1>5, <1>7, ReturnSteps
<1>8. CASE EndUpdate(t) \/ PublishCapacity(t) \/ DeleteOld(t) \/ Release(t)
  <2>1. /\ pc[t] \in {"i_update", "i_capacity", "i_delete", "i_release"}
        /\ pc[t] = "i_update" => loc[t].writes = <<>>
        /\ \E to \in {"i_release", "i_delete", "i_cap"} : Goto(t, to)
        /\ UNCHANGED <<blocks, arrays, todo, races>>
    BY <1>8 DEF EndUpdate, PublishCapacity, DeleteOld, Release
  <2>2. dir'.arr = dir.arr
    BY <1>8 DEF EndUpdate, PublishCapacity, DeleteOld, Release, Inv, Typed
  <2>3. pc'[t] \in {"i_release", "i_delete", "i_cap"} /\ \A u \in Threads \ {t} : pc'[u] = pc[u]
    BY <2>1, GotoOthers
  <2>4. loc'[t].target \in {loc[t].target, 1} /\ \A u \in Threads \ {t} : loc'[u] = loc[u]
    <3>1. CASE loc' = loc
      BY <3>1
    <3>2. CASE loc' = [loc EXCEPT ![t] = [NoLocals EXCEPT !.must = loc[t].must]]
      BY <3>2 DEF NoLocals, Inv, Typed
    <3> QED
      BY <1>8, <3>1, <3>2 DEF EndUpdate, PublishCapacity, DeleteOld, Release
  <2>5. SameBlocks
    BY <2>1, BlocksKept
  <2>6. ~Busy(t)' /\ ~Pending(t) /\ pc'[t] \notin BelongPCs
    BY <2>1, <2>3 DEF Busy, Pending
  <2> HIDE DEF BelongPCs
  <2> QED
    BY <2>1, <2>2, <2>3, <2>4, <2>5, <2>6, CalmStep
<1> QED
  BY <1>2, <1>3, <1>6, <1>7, <1>8 DEF Step

-----------------------------------------------------------------------------
(* Splitting                                                                *)

\* What a thread with two halves has.
LEMMA BusyFacts ==
  ASSUME Inv, NEW t \in Threads
  PROVE  /\ loc[t].target \in Pointers
         /\ Target(t) \in Block /\ Target(t).local_depth \in Nat /\ Target(t).pattern \in Nat
         /\ Pow2[Target(t).local_depth] \in Nat \ {0}
         /\ Pow2[Target(t).local_depth + 1] = 2 * Pow2[Target(t).local_depth]
         /\ Busy(t) => loc[t].s[1] \in Pointers /\ loc[t].s[2] \in Pointers
         /\ Busy(t) => Hash[Key(t)] \in Nat
<1>1. LocalOK(t) /\ loc[t].target \in Pointers /\ (todo[t] # <<>> => Hash[Key(t)] \in Nat)
  BY Facts DEF LocalOK
<1>2. Target(t) \in Block
  BY <1>1 DEF Target, Pointers, Inv, Typed
<1>3. Target(t).local_depth \in Nat /\ Target(t).pattern \in Nat
      /\ Pow2[Target(t).local_depth] \in Nat \ {0}
  BY <1>2, BlockFacts
<1>4. Pow2[Target(t).local_depth + 1] = 2 * Pow2[Target(t).local_depth]
  BY <1>3, Pow2Step
<1>5. Busy(t) => loc[t].s[1] \in Pointers /\ loc[t].s[2] \in Pointers /\ todo[t] # <<>>
  BY <1>1 DEF LocalOK, Busy
<1> QED
  BY <1>1, <1>2, <1>3, <1>4, <1>5

\* x with the bit of m added to its low bits.
LEMMA HalfArith ==
  ASSUME NEW m \in Nat \ {0}, NEW r \in 0 .. m - 1, NEW p \in 0 .. m - 1, NEW v, NEW bit \in 0 .. 1,
         v = r + m * bit
  PROVE  /\ v = p <=> r = p /\ bit = 0
         /\ v = p + m <=> r = p /\ bit = 1
<1>1. CASE bit = 0
  <2>1. v = r
    BY <1>1
  <2> QED
    BY <1>1, <2>1
<1>2. CASE bit = 1
  <2>1. v = r + m
    BY <1>2
  <2> QED
    BY <1>2, <2>1
<1> QED
  BY <1>1, <1>2

\* The two halves select between them what their block selects.
LEMMA HalfSelects ==
  ASSUME Inv, Patterns, NEW t \in Threads, Busy(t), HalfPair(t), NEW x \in Nat
  PROVE  /\ HalfFor(t, x) \in {loc[t].s[1], loc[t].s[2]}
         /\ \A b \in {loc[t].s[1], loc[t].s[2]} :
              Selects(b, x) <=> Selects(loc[t].target, x) /\ b = HalfFor(t, x)
<1>1. PICK n \in Nat, m \in Nat \ {0}, p \in Nat :
        /\ n = Target(t).local_depth /\ m = Pow2[n] /\ p = Target(t).pattern
        /\ Pow2[n + 1] = 2 * m
  BY BusyFacts
<1>2. p \in 0 .. m - 1
  BY <1>1, BusyFacts DEF Patterns, Target
<1>3. PICK r \in 0 .. m - 1, bit \in 0 .. 1 : r = x % m /\ bit = (x \div m) % 2
  <2>1. x % m \in 0 .. m - 1
    BY <1>1
  <2>2. x \div m \in Nat
    BY <1>1, DivMod
  <2> QED
    BY <2>1, <2>2
<1>4. x % Pow2[n + 1] = r + m * bit
  <2>1. 2 * m \in Nat \ {0}
    BY <1>1
  <2>2. \A k \in Nat \ {0} : k = 2 * m => x % k = (x % m) + m * ((x \div m) % 2)
    BY <1>1, ModTwice
  <2>3. x % (2 * m) = (x % m) + m * ((x \div m) % 2)
    BY <2>1, <2>2
  <2> QED
    BY <1>1, <1>3, <2>3
<1>5. PICK v : v = x % Pow2[n + 1]
  OBVIOUS
<1>6. /\ v = p <=> r = p /\ bit = 0
      /\ v = p + m <=> r = p /\ bit = 1
  <2>1. v = r + m * bit
    BY <1>4, <1>5
  <2> QED
    BY <1>2, <2>1, HalfArith
<1>7. HalfFor(t, x) = loc[t].s[bit + 1]
  BY <1>1, <1>3 DEF HalfFor, Bit
<1>8. HalfFor(t, x) = IF bit = 0 THEN loc[t].s[1] ELSE loc[t].s[2]
  BY <1>3, <1>7
<1>9. Selects(loc[t].target, x) <=> r = p
  BY <1>1, <1>3 DEF Selects, Target
<1>10. Selects(loc[t].s[1], x) <=> v = p
  BY <1>1, <1>5 DEF Selects, HalfPair
<1>11. Selects(loc[t].s[2], x) <=> v = p + m
  BY <1>1, <1>5 DEF Selects, HalfPair
<1>12. loc[t].s[1] # loc[t].s[2]
  BY DEF HalfPair
<1>13. bit = 0 \/ bit = 1
  BY <1>3
<1> QED
  BY <1>6, <1>8, <1>9, <1>10, <1>11, <1>12, <1>13

\* The addresses after two allocations: the old ones and the next two.
LEMMA NextPointers ==
  ASSUME NEW L \in Nat
  PROVE  /\ 1 .. L \subseteq 1 .. L + 2
         /\ L + 1 \notin 1 .. L /\ L + 2 \notin 1 .. L
         /\ \A b \in 1 .. L + 2 : b \in 1 .. L \/ b = L + 1 \/ b = L + 2
OBVIOUS

\* The patterns of the halves are the pattern of the block with either bit.
LEMMA SplitBelongs ==
  ASSUME Inv, Patterns, KeyBelongs, NEW t \in Threads,
         NEW c \in Block, NEW h1 \in Block, NEW h2 \in Block, SplitStep(t, c, h1, h2)
  PROVE  /\ Patterns' /\ KeyBelongs'
         /\ h1.pattern = Target(t).pattern
         /\ h2.pattern = Target(t).pattern + Pow2[Target(t).local_depth]
<1> USE DEF SplitStep
<1>1. PICK n \in Nat, m \in Nat \ {0}, p \in Nat :
        /\ n = Target(t).local_depth /\ m = Pow2[n] /\ p = Target(t).pattern
        /\ Pow2[n + 1] = 2 * m
  BY BusyFacts
<1>2. p \in 0 .. m - 1
  BY <1>1, BusyFacts DEF Patterns, Target
<1>3. Hash[Key(t)] % m = p
  BY <1>1 DEF KeyBelongs, BelongPCs, Belongs
<1>4. h1.pattern = p /\ h2.pattern = p + m
  BY <1>1, <1>3
<1>5. Len(blocks) \in Nat /\ \A b \in Pointers' : b \in Pointers \/ b = Len(blocks) + 1 \/ b = Len(blocks) + 2
  <2>1. Len(blocks) \in Nat /\ Len(blocks') = Len(blocks) + 2
    BY DEF Inv, Typed
  <2>2. Pointers = 1 .. Len(blocks) /\ Pointers' = 1 .. Len(blocks) + 2
    BY <2>1 DEF Pointers
  <2> HIDE DEF SplitStep
  <2> QED
    BY <2>1, <2>2, NextPointers
<1>6. \A b \in Pointers : blocks'[b].local_depth = blocks[b].local_depth
                          /\ blocks'[b].pattern = blocks[b].pattern
  BY DEF Target
<1>7. Patterns'
  <2> SUFFICES ASSUME NEW b \in Pointers' PROVE blocks'[b].pattern \in 0 .. Pow2[blocks'[b].local_depth] - 1
    BY DEF Patterns
  <2>1. CASE b \in Pointers
    BY <1>6, <2>1 DEF Patterns
  <2>2. CASE b = Len(blocks) + 1
    <3>1. blocks'[b].pattern = p /\ blocks'[b].local_depth = n + 1
      BY <1>1, <1>4, <2>2
    <3>2. p \in 0 .. 2 * m - 1
      BY <1>2
    <3> QED
      BY <1>1, <3>1, <3>2
  <2>3. CASE b = Len(blocks) + 2
    <3>1. blocks'[b].pattern = p + m /\ blocks'[b].local_depth = n + 1
      BY <1>1, <1>4, <2>3
    <3>2. p + m \in 0 .. 2 * m - 1
      BY <1>2
    <3> QED
      BY <1>1, <3>1, <3>2
  <2> QED
    BY <1>5, <2>1, <2>2, <2>3
<1>8. KeyBelongs'
  <2> SUFFICES ASSUME NEW u \in Threads, pc'[u] \in BelongPCs PROVE Belongs(Target(u), Key(u))'
    BY DEF KeyBelongs
  <2>1. pc[u] \in BelongPCs
    BY GotoOthers DEF BelongPCs
  <2>2. Belongs(Target(u), Key(u)) /\ loc[u].target \in Pointers
    BY <2>1, BusyFacts DEF KeyBelongs
  <2>3. loc'[u].target = loc[u].target
    <3>1. loc[t] \in Locals
      BY DEF Inv, Typed
    <3>2. loc'[t].target = loc[t].target
      BY <3>1 DEF Locals
    <3> QED
      BY <3>2
  <2> QED
    BY <1>6, <2>2, <2>3 DEF Belongs, Target, Key, Call
<1> QED
  BY <1>1, <1>4, <1>7, <1>8

\* After a split the target still has all its entries, its halves have none.
LEMMA SplitShape ==
  ASSUME Inv, Inv', Patterns, KeyBelongs, Shape, NEW t \in Threads,
         NEW c \in Block, NEW h1 \in Block, NEW h2 \in Block, SplitStep(t, c, h1, h2),
         Target(t).split = FALSE
  PROVE  Shape'
<1> USE DEF SplitStep
<1> DEFINE tg == loc[t].target
           n1 == Len(blocks) + 1
           n2 == Len(blocks) + 2
<1>1. /\ Len(blocks) \in Nat /\ tg \in Pointers /\ Pointers \subseteq Pointers'
      /\ n1 \notin Pointers /\ n2 \notin Pointers /\ n1 # n2 /\ n1 # 1 /\ n2 # 1
      /\ \A b \in Pointers' : b \in Pointers \/ b = n1 \/ b = n2
  <2>1. Len(blocks) \in Nat /\ Len(blocks') = Len(blocks) + 2
    BY DEF Inv, Typed
  <2>2. tg \in Pointers /\ tg \in 1 .. Len(blocks)
    BY BusyFacts DEF Pointers
  <2>3. Pointers = 1 .. Len(blocks) /\ Pointers' = 1 .. Len(blocks) + 2
    BY <2>1 DEF Pointers
  <2>4. Len(blocks) # 0
    BY <2>1, <2>2
  <2> HIDE DEF tg, SplitStep
  <2>5. Len(blocks) + 1 # 1 /\ Len(blocks) + 2 # 1 /\ Len(blocks) + 1 # Len(blocks) + 2
    BY <2>1, <2>4
  <2> QED
    BY <2>1, <2>2, <2>3, <2>5, NextPointers
<1>2. /\ pc[t] = "i_split" /\ pc'[t] = "i_acquire"
      /\ \A u \in Threads \ {t} : pc'[u] = pc[u] /\ loc'[u] = loc[u]
  BY GotoOthers
<1>3. loc'[t].target = tg /\ loc'[t].s[1] = n1 /\ loc'[t].s[2] = n2
  BY DEF Inv, Typed, Locals
<1>4. /\ Newest' = Newest /\ Current' = Current /\ arrays' = arrays
      /\ \A b \in Pointers : /\ blocks'[b].local_depth = blocks[b].local_depth
                             /\ blocks'[b].pattern = blocks[b].pattern
                             /\ blocks'[b].split = IF b = tg THEN TRUE ELSE blocks[b].split
  BY DEF Newest, Current, Target
<1>5. /\ Target(t)' = c /\ blocks'[n1] = h1 /\ blocks'[n2] = h2
      /\ c.local_depth = Target(t).local_depth /\ c.pattern = Target(t).pattern /\ c.split = TRUE
      /\ h1.local_depth = Target(t).local_depth + 1 /\ h1.split = FALSE
      /\ h2.local_depth = Target(t).local_depth + 1 /\ h2.split = FALSE
  BY <1>3 DEF Target
<1> HIDE DEF tg, n1, n2, SplitStep
<1>6. ~Busy(t) /\ ~Pending(t) /\ (\A x : ~Awaits(t, x)) /\ Busy(t)' /\ Pending(t)' /\ \A x : ~Awaits(t, x)'
  BY <1>2 DEF Busy, Pending, Awaits
<1>7. ASSUME NEW u \in Threads \ {t}
      PROVE  /\ pc'[u] = pc[u] /\ loc'[u] = loc[u] /\ loc[u].target \in Pointers
             /\ Busy(u)' <=> Busy(u)
             /\ Pending(u)' <=> Pending(u)
             /\ Busy(u) => loc[u].s[1] \in Pointers /\ loc[u].s[2] \in Pointers
             /\ Target(u)'.local_depth = Target(u).local_depth
  <2>1. pc'[u] = pc[u] /\ loc'[u] = loc[u] /\ loc[u].target \in Pointers
    BY <1>2, BusyFacts
  <2> QED
    BY <1>4, <2>1, BusyFacts DEF Busy, Pending, Target
<1>8. \A b \in Pointers : \A x : Selects(b, x)' <=> Selects(b, x)
  BY <1>4 DEF Selects
<1>9. ASSUME NEW u \in Threads, NEW x
      PROVE  /\ Awaits(u, x)' <=> Awaits(u, x)
             /\ Awaits(u, x) => HalfFor(u, x)' = HalfFor(u, x)
  <2>1. CASE u = t
    BY <1>6, <2>1
  <2>2. CASE u # t
    <3>1. /\ pc'[u] = pc[u] /\ loc'[u] = loc[u]
          /\ Target(u)'.local_depth = Target(u).local_depth
      BY <1>7, <2>2
    <3> QED
      BY <3>1 DEF Awaits, HalfFor, Bit
  <2> QED
    BY <2>1, <2>2
<1>10. \A x, b : Leads(x, b)' <=> Leads(x, b)
  BY <1>4, <1>9 DEF Leads
<1>11. \A b \in Pointers : Whole(b)' <=> Whole(b)
  BY <1>4, <1>8, <1>10 DEF Whole, Entries, DepthOf
<1>12. \A b \in Pointers : Unpublished(b)' <=> Unpublished(b)
  <2> SUFFICES ASSUME NEW b \in Pointers PROVE Unpublished(b)' <=> Unpublished(b)
    OBVIOUS
  <2>1. ~HalfOf(t, b)'
    BY <1>1, <1>3 DEF HalfOf
  <2> QED
    BY <1>6, <1>7, <2>1 DEF Unpublished, HalfOf
<1>13. \A x \in Entries(Newest) : \A b : Leads(x, b) => b \in Pointers
  <2> SUFFICES ASSUME NEW x \in Entries(Newest), NEW b, Leads(x, b) PROVE b \in Pointers
    OBVIOUS
  <2>1. Current[x] \in Pointers
    BY CurrentTyped
  <2>2. ASSUME NEW u \in Threads, Awaits(u, x), b = HalfFor(u, x) PROVE b \in Pointers
    <3>1. PICK i \in 1 .. Len(loc[u].writes) : loc[u].writes[i][1] = x
      BY <2>2 DEF Awaits
    <3>2. loc[u].writes \in Seq(Entries(Newest) \X Pointers) /\ pc[u] = "i_update"
      BY <2>2, Facts DEF LocalOK, Awaits
    <3>3. StoreFits(u, loc[u].writes[i])
      BY <3>2 DEF Shape, StoresOK
    <3>4. loc[u].writes[i][2] \in Pointers
      BY <3>2
    <3> QED
      BY <2>2, <3>1, <3>3, <3>4 DEF StoreFits
  <2> QED
    BY <2>1, <2>2 DEF Leads
<1>14. EntriesOK'
  <2> SUFFICES ASSUME NEW x \in Entries(Newest)
               PROVE  Selects(Current[x], x)' /\ blocks'[Current[x]].local_depth <= DepthOf(Newest)
    BY <1>4 DEF EntriesOK, Entries, DepthOf
  <2>1. Selects(Current[x], x) /\ blocks[Current[x]].local_depth <= DepthOf(Newest)
    BY DEF Shape, EntriesOK
  <2>2. Current[x] \in Pointers
    BY CurrentTyped
  <2> QED
    BY <1>4, <2>1, <2>2 DEF Selects
<1>15. DepthsOK'
  <2> SUFFICES ASSUME NEW b \in Pointers' PROVE blocks'[b].local_depth <= DepthOf(Newest) \/ Unpublished(b)'
    BY <1>4 DEF DepthsOK, DepthOf
  <2>1. CASE b \in Pointers
    BY <1>4, <1>12, <2>1 DEF Shape, DepthsOK
  <2>2. CASE b \in {n1, n2}
    BY <1>3, <1>6, <2>2 DEF Unpublished, HalfOf
  <2> QED
    BY <1>1, <2>1, <2>2
<1>16. HalvesOK'
  <2> SUFFICES ASSUME NEW u \in Threads, Busy(u)' PROVE HalfPair(u)'
    BY DEF HalvesOK
  <2>1. CASE u = t
    <3>1. h1.pattern = Target(t).pattern /\ h2.pattern = Target(t).pattern + Pow2[Target(t).local_depth]
      BY SplitBelongs
    <3> QED
      BY <1>1, <1>2, <1>3, <1>5, <2>1, <3>1 DEF HalfPair
  <2>2. CASE u # t
    <3>1. HalfPair(u) /\ Busy(u)
      BY <1>7, <2>2 DEF Shape, HalvesOK
    <3>2. pc[u] = "i_double" => (Selects(loc[u].target, loc[u].x)' <=> Selects(loc[u].target, loc[u].x))
      <4>1. loc'[u] = loc[u] /\ loc[u].target \in Pointers
        BY <1>7, <2>2
      <4> QED
        BY <1>4, <4>1 DEF Selects
    <3>3. /\ pc'[u] = pc[u] /\ loc'[u] = loc[u] /\ loc[u].target \in Pointers
          /\ loc[u].s[1] \in Pointers /\ loc[u].s[2] \in Pointers
      BY <1>7, <2>2, <3>1
    <3> QED
      BY <1>4, <3>1, <3>2, <3>3 DEF HalfPair, Target, Entries, DepthOf
  <2> QED
    BY <2>1, <2>2
<1>17. \A u \in Threads : Busy(u) => loc[u].target # tg
  BY DEF Shape, HalvesOK, HalfPair, Target, tg
<1>18. Distinct'
  BY <1>3, <1>7, <1>17 DEF Shape, Distinct
<1>19. StoresOK'
  <2> SUFFICES ASSUME NEW u \in Threads, pc'[u] = "i_update", NEW i \in 1 .. Len(loc'[u].writes)
               PROVE  StoreFits(u, loc[u].writes[i])'
    BY DEF StoresOK
  <2>1. u # t
    BY <1>2
  <2>2. StoreFits(u, loc[u].writes[i])
    BY <1>7, <2>1 DEF Shape, StoresOK
  <2> QED
    BY <1>4, <1>7, <2>1, <2>2 DEF StoreFits, Selects, HalfFor, Bit, Target
<1>20. HalvesHidden'
  <2> SUFFICES ASSUME NEW v \in Threads, Pending(v)', NEW b, HalfOf(v, b)' PROVE Hidden(v, b)'
    BY DEF HalvesHidden
  <2>1. \A a \in 1 .. Newest : \A x \in Entries(a) : arrays[a][x] \in Pointers
    BY DEF Inv, Typed
  <2>2. CASE v = t
    <3>1. b \in {n1, n2}
      BY <1>3, <2>2 DEF HalfOf
    <3>2. blocks'[b].split = FALSE
      BY <1>5, <3>1
    <3>3. \A a \in 1 .. Newest : \A x \in Entries(a) : arrays[a][x] # b
      BY <1>1, <2>1, <3>1
    <3>4. \A u \in Threads : loc'[u].target # b
      BY <1>1, <1>3, <1>7, <3>1
    <3>5. \A u \in Threads : u # v /\ Busy(u)' => ~HalfOf(u, b)'
      BY <1>1, <1>7, <2>2, <3>1 DEF HalfOf
    <3> QED
      BY <1>4, <3>2, <3>3, <3>4, <3>5 DEF Hidden
  <2>3. CASE v # t
    <3>1. Pending(v) /\ HalfOf(v, b) /\ b \in Pointers
      BY <1>7, <2>3 DEF HalfOf, Pending, Busy
    <3>2. Hidden(v, b)
      BY <3>1 DEF Shape, HalvesHidden
    <3>3. b # tg
      BY <3>2 DEF Hidden, tg
    <3>4. \A u \in Threads : loc'[u].target # b
      BY <1>3, <1>7, <3>2, <3>3 DEF Hidden
    <3>5. \A u \in Threads : u # v /\ Busy(u)' => ~HalfOf(u, b)'
      BY <1>1, <1>3, <1>7, <3>1, <3>2 DEF HalfOf, Hidden
    <3> QED
      BY <1>4, <3>1, <3>2, <3>3, <3>4, <3>5 DEF Hidden
  <2> QED
    BY <2>2, <2>3
<1>21. UnsplitWhole'
  <2> SUFFICES ASSUME NEW b \in Pointers' PROVE blocks'[b].split = TRUE \/ Unpublished(b)' \/ Whole(b)'
    BY DEF UnsplitWhole
  <2>1. CASE b \in Pointers
    BY <1>4, <1>11, <1>12, <2>1 DEF Shape, UnsplitWhole
  <2>2. CASE b \in {n1, n2}
    BY <1>3, <1>6, <2>2 DEF Unpublished, HalfOf
  <2> QED
    BY <1>1, <2>1, <2>2
<1>22. Whole(tg)
  <2>1. ~Unpublished(tg)
    BY DEF Shape, HalvesHidden, Unpublished, Hidden, tg
  <2>2. blocks[tg].split = FALSE
    BY DEF Target, tg
  <2> QED
    BY <1>1, <2>1, <2>2 DEF Shape, UnsplitWhole
<1>23. PendingWhole'
  <2> SUFFICES ASSUME NEW u \in Threads, Pending(u)' PROVE Whole(loc[u].target)'
    BY DEF PendingWhole
  <2>1. PICK b \in Pointers : b = loc'[u].target /\ Whole(b)
    <3>1. CASE u = t
      BY <1>1, <1>3, <1>22, <3>1
    <3>2. CASE u # t
      BY <1>7, <3>2 DEF Shape, PendingWhole
    <3> QED
      BY <3>1, <3>2
  <2>2. Whole(b)'
    BY <1>11, <2>1
  <2> QED
    BY <2>1, <2>2 DEF Whole, Selects, Leads
<1>24. SplitPending'
  <2> SUFFICES ASSUME NEW x \in Entries(Newest), NEW b, Leads(x, b)', blocks'[b].split = TRUE
               PROVE  \E u \in Threads : Pending(u)' /\ loc'[u].target = b
    BY <1>4 DEF SplitPending, Entries, DepthOf
  <2>1. Leads(x, b) /\ b \in Pointers
    BY <1>10, <1>13
  <2>2. CASE b = tg
    BY <1>3, <1>6, <2>2
  <2>3. CASE b # tg
    <3>1. PICK u \in Threads : Pending(u) /\ loc[u].target = b
      BY <1>4, <2>1, <2>3 DEF Shape, SplitPending
    <3>2. u # t
      BY <1>6, <3>1
    <3> QED
      BY <1>7, <3>1, <3>2
  <2> QED
    BY <2>2, <2>3
<1> QED
  BY <1>14, <1>15, <1>16, <1>18, <1>19, <1>20, <1>21, <1>23, <1>24 DEF Shape

-----------------------------------------------------------------------------
(* The update of the directory                                              *)

\* When t holds the lock, only t can be storing entries.
LEMMA OnlyOwner ==
  ASSUME Inv, NEW t \in Threads, Owner(t) \/ ~dir.lock
  PROVE  \A u \in Threads \ {t} : /\ pc[u] # "i_update" /\ pc[u] # "i_double"
                                  /\ \A x : ~Awaits(u, x)
BY OwnerFacts DEF Owner, OwnerPCs, Awaits

\* When nobody stores, an entry leads where it says.
LEMMA AtRest ==
  ASSUME \A u \in Threads : \A x : ~Awaits(u, x)
  PROVE  \A x, b : Leads(x, b) <=> b = Current[x]
BY DEF Leads

\* What t, about to change the directory, knows of it.
LEMMA PendingFacts ==
  ASSUME Inv, Patterns, KeyBelongs, Shape, NEW t \in Threads, Pending(t),
         ~dir.lock \/ pc[t] = "i_double"
  PROVE  /\ \A u \in Threads : \A x : ~Awaits(u, x)
         /\ HalfPair(t) /\ Target(t).local_depth <= DepthOf(Newest)
         /\ \A x \in Entries(Newest) : Current[x] = loc[t].target <=> Selects(loc[t].target, x)
         /\ \A b : HalfOf(t, b) => Hidden(t, b)
<1>1. /\ Owner(t) \/ ~dir.lock
      /\ Busy(t) /\ pc[t] # "i_update"
  BY DEF Owner, OwnerPCs, Pending, Busy
<1>2. \A u \in Threads : \A x : ~Awaits(u, x)
  BY <1>1, OnlyOwner DEF Awaits
<1>3. loc[t].target \in Pointers
  BY BusyFacts
<1>4. HalfPair(t) /\ \A b : HalfOf(t, b) => Hidden(t, b)
  BY <1>1 DEF Shape, HalvesOK, HalvesHidden
<1>5. Target(t).local_depth <= DepthOf(Newest)
  <2>1. ~Unpublished(loc[t].target)
    BY DEF Shape, HalvesHidden, Hidden, Unpublished
  <2> QED
    BY <1>3, <2>1 DEF Shape, DepthsOK, Target
<1>6. ASSUME NEW x \in Entries(Newest)
      PROVE  Current[x] = loc[t].target <=> Selects(loc[t].target, x)
  <2>1. Whole(loc[t].target) /\ Selects(Current[x], x)
    BY DEF Shape, PendingWhole, EntriesOK
  <2>2. Selects(loc[t].target, x) => Leads(x, loc[t].target)
    BY <2>1 DEF Whole
  <2>3. Leads(x, loc[t].target) => loc[t].target = Current[x]
    BY <1>2, AtRest
  <2> QED
    BY <2>1, <2>2, <2>3
<1> QED
  BY <1>2, <1>4, <1>5, <1>6

\* The index of t's key is an entry of t's target.
LEMMA HomeSelected ==
  ASSUME Inv, KeyBelongs, NEW t \in Threads, Pending(t), ~dir.lock,
         Target(t).local_depth <= DepthOf(Newest)
  PROVE  LET x == Hash[Key(t)] % dir.capacity
         IN  x \in Entries(Newest) /\ Selects(loc[t].target, x)
<1> DEFINE x == Hash[Key(t)] % dir.capacity
<1>1. Busy(t) /\ Hash[Key(t)] \in Nat
  BY BusyFacts DEF Busy, Pending
<1>2. PICK h \in Nat : h = Hash[Key(t)]
  BY <1>1
<1>3. PICK n \in Nat, g \in Nat, m \in Nat \ {0}, c \in Nat \ {0} :
        /\ n = Target(t).local_depth /\ g = DepthOf(Newest) /\ m = Pow2[n] /\ c = Pow2[g]
        /\ dir.capacity = c /\ Entries(Newest) = 0 .. c - 1 /\ n <= g
  BY BusyFacts, OwnerFacts
<1>4. PICK q \in Nat \ {0} : c = m * q
  <2>1. g - n \in Nat
    BY <1>3
  <2>2. Pow2[g - n] \in Nat \ {0}
    BY <2>1, Pow2Step
  <2>3. Pow2[g] = Pow2[n] * Pow2[g - n]
    BY <1>3, Pow2Diff
  <2> QED
    BY <1>3, <2>2, <2>3
<1>5. (h % c) % m = h % m
  <2>1. (h % (m * q)) % m = h % m
    BY ModMod
  <2> QED
    BY <1>4, <2>1
<1>6. h % m = Target(t).pattern
  BY <1>2, <1>3 DEF KeyBelongs, BelongPCs, Pending, Belongs
<1>7. h % c \in 0 .. c - 1
  BY <1>3
<1>8. x = h % c
  BY <1>2, <1>3
<1> HIDE DEF x
<1>9. Selects(loc[t].target, x)
  BY <1>3, <1>5, <1>6, <1>8 DEF Selects, Target
<1> QED
  BY <1>3, <1>7, <1>8, <1>9 DEF x

\* The writes that Acquire lists are the entries of the target.
LEMMA AcquireStores ==
  ASSUME Inv, Patterns, KeyBelongs, Shape, NEW t \in Threads, pc[t] = "i_acquire", ~dir.lock,
         blocks[Current[Hash[Key(t)] % dir.capacity]].local_depth < global_depth
  PROVE  LET w == LSBUpdate(global_depth - blocks[loc[t].s[1]].local_depth, dir.capacity,
                            Hash[Key(t)] % dir.capacity, loc[t].s)
         IN  /\ global_depth - blocks[loc[t].s[1]].local_depth >= 0
             /\ Target(t).local_depth < DepthOf(Newest)
             /\ w \in Seq(Entries(Newest) \X Pointers)
             /\ \A i \in 1 .. Len(w) :
                  Selects(loc[t].target, w[i][1]) /\ w[i][2] = HalfFor(t, w[i][1])
             /\ \A z \in Entries(Newest) :
                  Selects(loc[t].target, z) => \E i \in 1 .. Len(w) : w[i][1] = z
<1> DEFINE x == Hash[Key(t)] % dir.capacity
           dd == global_depth - blocks[loc[t].s[1]].local_depth
           w == LSBUpdate(dd, dir.capacity, x, loc[t].s)
<1>1. Pending(t) /\ HalfPair(t) /\ Target(t).local_depth <= DepthOf(Newest)
  BY PendingFacts DEF Pending
<1>2. x \in Entries(Newest) /\ Selects(loc[t].target, x)
  BY <1>1, HomeSelected
<1>3. Current[x] = loc[t].target
  BY <1>1, <1>2, PendingFacts
<1>4. PICK n \in Nat, g \in Nat, m \in Nat \ {0}, p \in Nat :
        /\ n = Target(t).local_depth /\ g = DepthOf(Newest) /\ m = Pow2[n] /\ p = Target(t).pattern
        /\ global_depth = g /\ Entries(Newest) = 0 .. Pow2[g] - 1 /\ Pow2[g] \in Nat \ {0}
  BY BusyFacts, OwnerFacts
<1>5. n < g
  BY <1>3, <1>4 DEF Target
<1>6. blocks[loc[t].s[1]].local_depth = n + 1 /\ dd >= 0 /\ blocks[loc[t].s[1]].local_depth - 1 = n
  BY <1>1, <1>4, <1>5 DEF HalfPair
<1> HIDE DEF x, dd
<1>7. StoresHalves(n, g, dir.capacity, x, loc[t].s, w) /\ w \in Seq(Entries(Newest) \X Pointers)
  BY <1>4, <1>6, AcquireWrites DEF x, dd
<1> HIDE DEF w
<1>8. x % m = p /\ x \in 0 .. Pow2[g] - 1
  BY <1>2, <1>4 DEF Selects, Target
<1>9. ASSUME NEW i \in 1 .. Len(w)
      PROVE  Selects(loc[t].target, w[i][1]) /\ w[i][2] = HalfFor(t, w[i][1])
  <2>1. Visited(n, g, x, w[i][1]) /\ w[i][2] = loc[t].s[Bit(w[i][1], n) + 1]
    BY <1>7 DEF StoresHalves
  <2>2. w[i][1] % m = p
    BY <1>4, <1>8, <2>1 DEF Visited
  <2> QED
    BY <1>4, <2>1, <2>2 DEF Selects, HalfFor, Target
<1>10. ASSUME NEW z \in Entries(Newest), Selects(loc[t].target, z)
       PROVE  \E i \in 1 .. Len(w) : w[i][1] = z
  <2>1. z % m = p
    BY <1>4, <1>10 DEF Selects, Target
  <2>2. PICK c \in Nat \ {0} : c = Pow2[g]
    BY <1>4
  <2>3. \A a \in 0 .. c - 1 : a \div c = 0
    <3> TAKE a \in 0 .. c - 1
    <3>1. a \in Nat /\ a = c * 0 + a
      OBVIOUS
    <3> QED
      BY <3>1, DivModUnique
  <2>4. z \div c = 0 /\ x \div c = 0
    BY <1>4, <1>8, <2>2, <2>3
  <2>5. Visited(n, g, x, z)
    BY <1>4, <1>8, <2>1, <2>2, <2>4 DEF Visited
  <2>6. z \in 0 .. dir.capacity - 1
    BY <1>4, OwnerFacts
  <2> QED
    BY <1>7, <2>5, <2>6 DEF StoresHalves
<1> QED
  BY <1>4, <1>5, <1>6, <1>7, <1>9, <1>10 DEF w, dd, x

\* A step that leaves the blocks alone and starts no insertion.
LEMMA KeyKept ==
  ASSUME Inv, Patterns, KeyBelongs, blocks' = blocks,
         \A u \in Threads : pc'[u] \in BelongPCs =>
           pc[u] \in BelongPCs /\ todo'[u] = todo[u] /\ loc'[u].target = loc[u].target
  PROVE  Patterns' /\ KeyBelongs'
<1>1. Patterns'
  BY DEF Patterns, Pointers
<1>2. KeyBelongs'
  BY DEF KeyBelongs, Belongs, Target, Key, Call
<1> QED
  BY <1>1, <1>2

\* A step of the owner that changes neither blocks nor arrays, nor which
\* halves it has.
LEMMA OwnStep ==
  ASSUME Inv, Shape, NEW t \in Threads, blocks' = blocks, arrays' = arrays, dir'.arr = dir.arr,
         \A u \in Threads \ {t} : pc'[u] = pc[u] /\ loc'[u] = loc[u],
         Busy(t), Busy(t)', loc'[t].target = loc[t].target, loc'[t].s = loc[t].s
  PROVE  /\ Newest' = Newest /\ Pointers' = Pointers /\ Current' = Current /\ SameBlocks
         /\ \A u \in Threads : /\ Busy(u)' <=> Busy(u)
                               /\ loc'[u].target = loc[u].target /\ loc'[u].s = loc[u].s
                               /\ \A b : HalfOf(u, b)' <=> HalfOf(u, b)
                               /\ Target(u)' = Target(u)
                               /\ \A x : HalfFor(u, x)' = HalfFor(u, x)
         /\ \A b, x : Selects(b, x)' <=> Selects(b, x)
         /\ EntriesOK' /\ Distinct'
<1>1. Newest' = Newest /\ Pointers' = Pointers /\ Current' = Current /\ SameBlocks
  BY BlocksKept DEF Newest, Pointers, Current
<1>2. ASSUME NEW u \in Threads
      PROVE  /\ Busy(u)' <=> Busy(u)
             /\ loc'[u].target = loc[u].target /\ loc'[u].s = loc[u].s
             /\ \A b : HalfOf(u, b)' <=> HalfOf(u, b)
             /\ Target(u)' = Target(u)
             /\ \A x : HalfFor(u, x)' = HalfFor(u, x)
  <2>1. loc'[u].target = loc[u].target /\ loc'[u].s = loc[u].s
    OBVIOUS
  <2>2. Busy(u)' <=> Busy(u)
    BY DEF Busy
  <2> QED
    BY <2>1, <2>2 DEF HalfOf, Target, HalfFor, Bit
<1>3. \A b, x : Selects(b, x)' <=> Selects(b, x)
  BY DEF Selects
<1>4. EntriesOK'
  BY <1>1 DEF Shape, EntriesOK, Selects, Entries, DepthOf
<1>5. Distinct'
  BY <1>2 DEF Shape, Distinct
<1> QED
  BY <1>1, <1>2, <1>3, <1>4, <1>5

\* Acquire chooses to store entries.
LEMMA UpdateShape ==
  ASSUME Inv, Inv', Patterns, KeyBelongs, Shape, NEW t \in Threads, pc[t] = "i_acquire", ~dir.lock,
         blocks' = blocks, arrays' = arrays, dir'.arr = dir.arr,
         \A u \in Threads \ {t} : pc'[u] = pc[u] /\ loc'[u] = loc[u],
         pc'[t] = "i_update", loc'[t].target = loc[t].target, loc'[t].s = loc[t].s,
         NEW w \in Seq(Entries(Newest) \X Pointers), loc'[t].writes = w,
         Target(t).local_depth < DepthOf(Newest),
         \A i \in 1 .. Len(w) : Selects(loc[t].target, w[i][1]) /\ w[i][2] = HalfFor(t, w[i][1]),
         \A z \in Entries(Newest) : Selects(loc[t].target, z) => \E i \in 1 .. Len(w) : w[i][1] = z
  PROVE  Shape'
<1> DEFINE tg == loc[t].target
<1>1. Busy(t) /\ Pending(t) /\ Busy(t)' /\ ~Pending(t)'
  BY DEF Busy, Pending
<1>2. /\ Newest' = Newest /\ Pointers' = Pointers /\ Current' = Current /\ SameBlocks
      /\ \A u \in Threads : /\ Busy(u)' <=> Busy(u)
                            /\ loc'[u].target = loc[u].target /\ loc'[u].s = loc[u].s
                            /\ \A b : HalfOf(u, b)' <=> HalfOf(u, b)
                            /\ Target(u)' = Target(u)
                            /\ \A x : HalfFor(u, x)' = HalfFor(u, x)
      /\ \A b, x : Selects(b, x)' <=> Selects(b, x)
      /\ EntriesOK' /\ Distinct'
  BY <1>1, OwnStep
<1>3. /\ \A u \in Threads : \A x : ~Awaits(u, x)
      /\ HalfPair(t)
      /\ \A x \in Entries(Newest) : Current[x] = tg <=> Selects(tg, x)
      /\ \A b : HalfOf(t, b) => Hidden(t, b)
  BY <1>1, PendingFacts
<1>4. tg \in Pointers /\ loc[t].s[1] \in Pointers /\ loc[t].s[2] \in Pointers
  BY <1>1, BusyFacts
<1>5. \A u \in Threads \ {t} : /\ pc'[u] = pc[u] /\ loc'[u] = loc[u] /\ pc[u] # "i_update"
                               /\ Pending(u)' <=> Pending(u)
  BY OnlyOwner DEF Pending
<1> HIDE DEF tg
<1>6. ASSUME NEW x \in Entries(Newest)
      PROVE  /\ Awaits(t, x)' <=> Selects(tg, x)
             /\ \A u \in Threads \ {t} : ~Awaits(u, x)'
             /\ \A b : Leads(x, b)' <=> b = IF Selects(tg, x) THEN HalfFor(t, x) ELSE Current[x]
             /\ \A b : Leads(x, b) <=> b = Current[x]
  <2>1. Awaits(t, x)' <=> Selects(tg, x)
    BY DEF Awaits, tg
  <2>2. \A u \in Threads \ {t} : ~Awaits(u, x)'
    BY <1>5 DEF Awaits
  <2>3. \A b : Leads(x, b) <=> b = Current[x]
    BY <1>3, AtRest
  <2>4. HalfFor(t, x)' = HalfFor(t, x) /\ Current' = Current
    BY <1>2
  <2>5. \A b : Leads(x, b)' <=> b = IF Selects(tg, x) THEN HalfFor(t, x) ELSE Current[x]
    BY <2>1, <2>2, <2>4 DEF Leads
  <2> QED
    BY <2>1, <2>2, <2>3, <2>5
<1>7. \A x \in Entries(Newest) : \A b \in {loc[t].s[1], loc[t].s[2]} :
        Selects(b, x) <=> Selects(tg, x) /\ b = HalfFor(t, x)
  <2>1. \A x \in Entries(Newest) : x \in Nat
    BY CurrentTyped
  <2> QED
    BY <1>1, <1>3, <2>1, HalfSelects DEF tg
<1>8. \A x \in Entries(Newest) : HalfFor(t, x) \in {loc[t].s[1], loc[t].s[2]}
  <2>1. \A x \in Entries(Newest) : x \in Nat
    BY CurrentTyped
  <2> QED
    BY <1>1, <1>3, <2>1, HalfSelects
<1>9. \A b : Unpublished(b) <=> Unpublished(b)' \/ HalfOf(t, b)
  BY <1>1, <1>2, <1>5 DEF Unpublished
<1>10. DepthsOK'
  <2> SUFFICES ASSUME NEW b \in Pointers
               PROVE  blocks[b].local_depth <= DepthOf(Newest) \/ Unpublished(b)'
    BY <1>2 DEF DepthsOK, DepthOf
  <2>1. CASE HalfOf(t, b)
    <3>1. blocks[b].local_depth = Target(t).local_depth + 1
      BY <1>3, <2>1 DEF HalfOf, HalfPair
    <3>2. Target(t).local_depth \in Nat /\ DepthOf(Newest) \in Nat
      BY BusyFacts, CurrentTyped
    <3> QED
      BY <3>1, <3>2
  <2>2. CASE ~HalfOf(t, b)
    BY <1>9, <2>2 DEF Shape, DepthsOK
  <2> QED
    BY <2>1, <2>2
<1>11. HalvesOK'
  <2> SUFFICES ASSUME NEW u \in Threads, Busy(u)' PROVE HalfPair(u)'
    BY DEF HalvesOK
  <2>1. HalfPair(u) /\ loc'[u].target = loc[u].target /\ loc'[u].s = loc[u].s /\ Target(u)' = Target(u)
    BY <1>2 DEF Shape, HalvesOK
  <2>2. pc'[u] = "i_update" => Target(u).local_depth < DepthOf(Newest)
    BY <1>5
  <2>3. pc'[u] # "i_double"
    BY <1>1, OnlyOwner
  <2> QED
    BY <1>2, <2>1, <2>2, <2>3 DEF HalfPair, DepthOf
<1>12. StoresOK'
  <2> SUFFICES ASSUME NEW u \in Threads, pc'[u] = "i_update", NEW i \in 1 .. Len(loc'[u].writes)
               PROVE  StoreFits(u, loc[u].writes[i])'
    BY DEF StoresOK
  <2>1. u = t /\ i \in 1 .. Len(w)
    BY <1>5
  <2>2. w[i][1] \in Entries(Newest)
    BY <2>1
  <2>3. Selects(tg, w[i][1]) /\ w[i][2] = HalfFor(t, w[i][1]) /\ Current[w[i][1]] = tg
    BY <1>3, <2>1, <2>2 DEF tg
  <2>4. HalfFor(t, w[i][1])' = HalfFor(t, w[i][1])
    BY <1>2 DEF HalfFor, Bit
  <2> QED
    BY <1>2, <2>1, <2>3, <2>4 DEF StoreFits, Selects, tg
<1>13. HalvesHidden'
  <2> SUFFICES ASSUME NEW v \in Threads, Pending(v)', NEW b, HalfOf(v, b)' PROVE Hidden(v, b)'
    BY DEF HalvesHidden
  <2>1. v # t /\ Pending(v) /\ HalfOf(v, b)
    BY <1>1, <1>2, <1>5
  <2>2. Hidden(v, b)
    BY <2>1 DEF Shape, HalvesHidden
  <2> QED
    BY <1>2, <2>2 DEF Hidden
<1>14. UnsplitWhole'
  <2> SUFFICES ASSUME NEW b \in Pointers, blocks[b].split # TRUE, ~Unpublished(b)',
                      NEW x \in Entries(Newest), Selects(b, x)
               PROVE  Leads(x, b)'
    BY <1>2 DEF UnsplitWhole, Whole, Entries, DepthOf
  <2>1. CASE HalfOf(t, b)
    BY <1>6, <1>7, <2>1 DEF HalfOf
  <2>2. CASE ~HalfOf(t, b)
    <3>1. Whole(b)
      BY <1>9, <2>2 DEF Shape, UnsplitWhole
    <3>2. Current[x] = b
      BY <1>6, <3>1 DEF Whole
    <3>3. b # tg
      BY <1>3 DEF HalfPair, Target, tg
    <3> QED
      BY <1>3, <1>6, <3>2, <3>3
  <2> QED
    BY <2>1, <2>2
<1>15. PendingWhole'
  <2> SUFFICES ASSUME NEW u \in Threads, Pending(u)' PROVE Whole(loc[u].target)'
    BY DEF PendingWhole
  <2>1. u # t /\ Pending(u) /\ Busy(u)
    BY <1>1, <1>5 DEF Pending, Busy
  <2>2. PICK b : b = loc[u].target /\ b = loc'[u].target
    BY <1>2
  <2>3. Whole(b) /\ b # tg
    BY <1>1, <2>1, <2>2 DEF Shape, PendingWhole, Distinct, tg
  <2>4. ASSUME NEW x \in Entries(Newest), Selects(b, x)
        PROVE  Leads(x, b)'
    <3>1. Current[x] = b
      BY <1>6, <2>3, <2>4 DEF Whole
    <3> QED
      BY <1>3, <1>6, <2>3, <3>1
  <2>5. Whole(b)'
    BY <1>2, <2>4 DEF Whole, Entries, DepthOf
  <2> QED
    BY <2>2, <2>5, WholeTarget
<1>16. SplitPending'
  <2> SUFFICES ASSUME NEW x \in Entries(Newest), NEW b \in Pointers, Leads(x, b)', blocks[b].split = TRUE
               PROVE  \E u \in Threads : Pending(u)' /\ loc'[u].target = b
    BY <1>2 DEF SplitPending, Entries, DepthOf
  <2>1. ~Selects(tg, x)
    <3> SUFFICES ASSUME Selects(tg, x) PROVE FALSE
      OBVIOUS
    <3>1. HalfOf(t, b)
      BY <1>6, <1>8 DEF HalfOf
    <3> QED
      BY <1>3, <3>1 DEF Hidden
  <2>2. Current[x] = b /\ Leads(x, b)
    BY <1>6, <2>1
  <2>3. PICK u \in Threads : Pending(u) /\ loc[u].target = b
    BY <2>2 DEF Shape, SplitPending
  <2>4. u # t
    BY <1>3, <2>1, <2>2, <2>3 DEF tg
  <2> QED
    BY <1>5, <2>3, <2>4
<1> QED
  BY <1>2, <1>10, <1>11, <1>12, <1>13, <1>14, <1>15, <1>16 DEF Shape

\* Acquire chooses to double.
LEMMA DoubleShape ==
  ASSUME Inv, Inv', Patterns, KeyBelongs, Shape, NEW t \in Threads, pc[t] = "i_acquire", ~dir.lock,
         blocks' = blocks, arrays' = arrays, dir'.arr = dir.arr,
         \A u \in Threads \ {t} : pc'[u] = pc[u] /\ loc'[u] = loc[u],
         pc'[t] = "i_double", loc'[t].target = loc[t].target, loc'[t].s = loc[t].s,
         NEW x \in Entries(Newest), loc'[t].x = x, Selects(loc[t].target, x),
         Target(t).local_depth = DepthOf(Newest)
  PROVE  Shape'
<1>1. Busy(t) /\ Pending(t) /\ Busy(t)' /\ Pending(t)'
  BY DEF Busy, Pending
<1>2. /\ Newest' = Newest /\ Pointers' = Pointers /\ Current' = Current /\ SameBlocks
      /\ \A u \in Threads : /\ Busy(u)' <=> Busy(u)
                            /\ loc'[u].target = loc[u].target /\ loc'[u].s = loc[u].s
                            /\ \A b : HalfOf(u, b)' <=> HalfOf(u, b)
                            /\ Target(u)' = Target(u)
      /\ EntriesOK' /\ Distinct'
  BY <1>1, OwnStep
<1>3. \A u \in Threads \ {t} : /\ pc'[u] = pc[u] /\ loc'[u] = loc[u]
                               /\ pc[u] # "i_update" /\ pc[u] # "i_double"
  BY OnlyOwner
<1>4. \A u \in Threads : Pending(u)' <=> Pending(u)
  BY <1>1, <1>3 DEF Pending
<1>5. SamePending
  BY <1>2, <1>4 DEF SamePending
<1>6. SameLeads
  <2>1. \A u \in Threads : \A z : ~Awaits(u, z) /\ ~Awaits(u, z)'
    BY <1>3 DEF Awaits
  <2> QED
    BY <1>2, <2>1 DEF SameLeads, Leads
<1>7. DepthsOK' /\ UnsplitWhole' /\ PendingWhole' /\ SplitPending'
  BY <1>2, <1>5, <1>6, OwnershipKept
<1>8. HalvesOK'
  <2> SUFFICES ASSUME NEW u \in Threads, Busy(u)' PROVE HalfPair(u)'
    BY DEF HalvesOK
  <2>1. HalfPair(u) /\ loc'[u].target = loc[u].target /\ loc'[u].s = loc[u].s /\ Target(u)' = Target(u)
    BY <1>2 DEF Shape, HalvesOK
  <2>2. pc'[u] # "i_update" /\ (pc'[u] = "i_double" => u = t)
    BY <1>3
  <2>3. u = t => /\ Target(u).local_depth = DepthOf(Newest)
                 /\ loc'[u].x \in Entries(Newest) /\ Selects(loc[u].target, loc[u].x)'
    BY <2>1 DEF Selects
  <2> QED
    BY <1>2, <2>1, <2>2, <2>3 DEF HalfPair, Entries, DepthOf
<1>9. StoresOK'
  BY <1>3 DEF StoresOK
<1>10. HalvesHidden'
  <2> SUFFICES ASSUME NEW v \in Threads, Pending(v)', NEW b, HalfOf(v, b)' PROVE Hidden(v, b)'
    BY DEF HalvesHidden
  <2>1. Hidden(v, b)
    BY <1>2, <1>4 DEF Shape, HalvesHidden
  <2> QED
    BY <1>2, <2>1 DEF Hidden
<1> QED
  BY <1>2, <1>7, <1>8, <1>9, <1>10 DEF Shape

\* One entry is stored.
LEMMA StoreEntryShape ==
  ASSUME Inv, Patterns, KeyBelongs, Shape, NEW t \in Threads, StoreEntry(t)
  PROVE  Shape'
<1> DEFINE w == Head(loc[t].writes)
           tg == loc[t].target
<1>1. /\ Inv' /\ w \in Entries(Newest) \X Pointers
      /\ loc'[t] = [loc[t] EXCEPT !.writes = Tail(loc[t].writes)]
      /\ \A u \in Threads \ {t} : loc'[u] = loc[u]
      /\ Current' = [Current EXCEPT ![w[1]] = w[2]]
      /\ \A a \in 1 .. Newest - 1 : arrays'[a] = arrays[a]
      /\ Newest' = Newest
  BY StoreEntryInv
<1>2. /\ pc[t] = "i_update" /\ loc[t].writes # <<>>
      /\ UNCHANGED <<blocks, dir, pc>>
  BY DEF StoreEntry
<1>3. /\ Newest \in 1 .. Newest /\ Newest \in Nat \ {0} /\ Current = arrays[Newest]
      /\ Current \in [Entries(Newest) -> Pointers] /\ Current' = arrays'[Newest]
      /\ \A x \in Entries(Newest) : x \in Nat
  <2>1. Newest \in 1 .. Newest /\ Newest \in Nat \ {0} /\ Current = arrays[Newest]
        /\ Current \in [Entries(Newest) -> Pointers] /\ \A x \in Entries(Newest) : x \in Nat
    BY CurrentTyped
  <2>2. Current' = arrays'[Newest']
    BY <1>1, CurrentTyped DEF Current, Inv, Sizes
  <2> QED
    BY <1>1, <2>1, <2>2
<1>4. /\ Busy(t) /\ Busy(t)' /\ ~Pending(t) /\ ~Pending(t)' /\ HalfPair(t) /\ Pointers' = Pointers
      /\ tg \in Pointers /\ loc[t].s[1] \in Pointers /\ loc[t].s[2] \in Pointers /\ SameBlocks
      /\ Target(t).local_depth \in Nat /\ DepthOf(Newest) \in Nat
  BY <1>2, BusyFacts, BlocksKept, CurrentTyped DEF Busy, Pending, Pointers, Shape, HalvesOK
<1>5. PICK n \in Nat : n = Len(loc[t].writes) /\ n >= 1
      /\ loc[t].writes \in Seq(Entries(Newest) \X Pointers) /\ w = loc[t].writes[1]
  <2>1. loc[t].writes \in Seq(Entries(Newest) \X Pointers)
    BY <1>2, Facts DEF LocalOK
  <2> QED
    BY <1>2, <2>1
<1>6. /\ loc'[t].target = tg /\ loc'[t].s = loc[t].s /\ Len(loc'[t].writes) = n - 1
      /\ \A i \in 1 .. n - 1 : loc'[t].writes[i] = loc[t].writes[i + 1]
  <2>1. loc[t] \in Locals
    BY DEF Inv, Typed
  <2>2. loc'[t].target = tg /\ loc'[t].s = loc[t].s /\ loc'[t].writes = Tail(loc[t].writes)
    BY <1>1, <2>1 DEF Locals
  <2>3. \A S : \A q \in Seq(S) : Len(q) >= 1 => Len(Tail(q)) = Len(q) - 1
                                 /\ \A i \in 1 .. Len(q) - 1 : Tail(q)[i] = q[i + 1]
    OBVIOUS
  <2> QED
    BY <1>5, <2>2, <2>3
<1>7. ASSUME NEW i \in 1 .. n PROVE StoreFits(t, loc[t].writes[i])
  BY <1>2, <1>5, <1>7 DEF Shape, StoresOK
<1>8. StoreFits(t, w)
  <2>1. 1 \in 1 .. n
    BY <1>5
  <2> QED
    BY <1>5, <1>7, <2>1
<1>9. w[1] \in Entries(Newest) /\ w[2] \in Pointers /\ Selects(tg, w[1]) /\ w[2] = HalfFor(t, w[1])
      /\ w[2] \in {loc[t].s[1], loc[t].s[2]} /\ Selects(w[2], w[1])
  <2>1. w[1] \in Entries(Newest) /\ w[2] \in Pointers /\ Selects(tg, w[1]) /\ w[2] = HalfFor(t, w[1])
    BY <1>1, <1>8 DEF StoreFits
  <2>2. w[1] \in Nat
    BY <1>3, <2>1
  <2> QED
    BY <1>4, <2>1, <2>2, HalfSelects
<1>10. \A x \in Entries(Newest) : Current'[x] = IF x = w[1] THEN w[2] ELSE Current[x]
  BY <1>1, <1>3
<1> HIDE DEF w, tg
<1>11. ASSUME NEW u \in Threads
       PROVE  /\ pc'[u] = pc[u] /\ loc'[u].target = loc[u].target /\ loc'[u].s = loc[u].s
              /\ Busy(u)' <=> Busy(u)
              /\ Pending(u)' <=> Pending(u)
              /\ \A b : HalfOf(u, b)' <=> HalfOf(u, b)
              /\ Target(u)' = Target(u)
              /\ \A x : HalfFor(u, x)' = HalfFor(u, x)
              /\ u # t => pc[u] # "i_update" /\ \A x : ~Awaits(u, x) /\ ~Awaits(u, x)'
  <2>1. pc'[u] = pc[u] /\ loc'[u].target = loc[u].target /\ loc'[u].s = loc[u].s
    BY <1>1, <1>2, <1>6 DEF tg
  <2>2. u # t => pc[u] # "i_update"
    BY <1>2, OnlyOwner DEF Owner, OwnerPCs
  <2>3. Target(u)' = Target(u)
    BY <1>2, <2>1 DEF Target
  <2> QED
    BY <2>1, <2>2, <2>3 DEF Busy, Pending, HalfOf, HalfFor, Bit, Awaits
<1>12. SamePending
  BY <1>11 DEF SamePending
<1>13. SameLeads
  <2> SUFFICES ASSUME NEW x \in Entries(Newest), NEW b \in Pointers
               PROVE  Leads(x, b)' <=> Leads(x, b)
    BY DEF SameLeads
  <2>1. Awaits(t, x)' => Awaits(t, x)
    <3> SUFFICES ASSUME Awaits(t, x)' PROVE Awaits(t, x)
      OBVIOUS
    <3>1. PICK i \in 1 .. n - 1 : loc'[t].writes[i][1] = x
      BY <1>6 DEF Awaits
    <3>2. i + 1 \in 1 .. n /\ loc[t].writes[i + 1][1] = x
      BY <1>5, <1>6, <3>1
    <3> QED
      BY <1>2, <1>5, <3>2 DEF Awaits
  <2>2. Awaits(t, x) => Awaits(t, x)' \/ x = w[1]
    <3> SUFFICES ASSUME Awaits(t, x), x # w[1] PROVE Awaits(t, x)'
      OBVIOUS
    <3>1. PICK i \in 1 .. n : loc[t].writes[i][1] = x
      BY <1>5 DEF Awaits
    <3>2. i # 1
      BY <1>5, <3>1
    <3>3. PICK j \in 1 .. n - 1 : j + 1 = i
      BY <1>5, <3>2
    <3>4. loc'[t].writes[j][1] = x
      BY <1>6, <3>1, <3>3
    <3> QED
      BY <1>2, <1>6, <3>4 DEF Awaits
  <2>3. x = w[1] => Awaits(t, x)
    <3>1. 1 \in 1 .. n
      BY <1>5
    <3> QED
      BY <1>2, <1>5, <3>1 DEF Awaits
  <2>4. Leads(x, b) <=> b = IF Awaits(t, x) THEN HalfFor(t, x) ELSE Current[x]
    BY <1>11 DEF Leads
  <2>5. HalfFor(t, x)' = HalfFor(t, x)
    BY <1>11
  <2>6. Leads(x, b)' <=> b = IF Awaits(t, x)' THEN HalfFor(t, x) ELSE Current'[x]
    BY <1>11, <2>5 DEF Leads
  <2> QED
    BY <1>9, <1>10, <2>1, <2>2, <2>3, <2>4, <2>6
<1>14. DepthsOK' /\ UnsplitWhole' /\ PendingWhole' /\ SplitPending'
  BY <1>1, <1>4, <1>12, <1>13, OwnershipKept
<1>15. EntriesOK'
  <2> SUFFICES ASSUME NEW x \in Entries(Newest)
               PROVE  Selects(Current[x], x)' /\ blocks[Current'[x]].local_depth <= DepthOf(Newest)
    BY <1>1, <1>2 DEF EntriesOK, Entries, DepthOf
  <2>1. CASE x = w[1]
    <3>1. blocks[w[2]].local_depth = Target(t).local_depth + 1
      BY <1>4, <1>9 DEF HalfPair
    <3>2. Target(t).local_depth < DepthOf(Newest)
      BY <1>2, <1>4 DEF HalfPair
    <3>3. blocks[w[2]].local_depth <= DepthOf(Newest)
      BY <1>4, <3>1, <3>2
    <3> QED
      BY <1>2, <1>9, <1>10, <2>1, <3>3 DEF Selects
  <2>2. CASE x # w[1]
    <3>1. Selects(Current[x], x) /\ blocks[Current[x]].local_depth <= DepthOf(Newest)
      BY DEF Shape, EntriesOK
    <3> QED
      BY <1>2, <1>10, <2>2, <3>1 DEF Selects
  <2> QED
    BY <2>1, <2>2
<1>16. HalvesOK'
  <2> SUFFICES ASSUME NEW u \in Threads, Busy(u)' PROVE HalfPair(u)'
    BY DEF HalvesOK
  <2>1. HalfPair(u) /\ loc'[u].target = loc[u].target /\ loc'[u].s = loc[u].s /\ Target(u)' = Target(u)
        /\ pc'[u] = pc[u]
    BY <1>11 DEF Shape, HalvesOK
  <2>2. pc[u] # "i_double"
    BY <1>2, OnlyOwner DEF Owner, OwnerPCs
  <2> QED
    BY <1>1, <1>2, <2>1, <2>2 DEF HalfPair, DepthOf
<1>17. Distinct'
  BY <1>11 DEF Shape, Distinct
<1>18. StoresOK'
  <2> SUFFICES ASSUME NEW i \in 1 .. n - 1
               PROVE  StoreFits(t, loc[t].writes[i])'
    BY <1>6, <1>11 DEF StoresOK
  <2>1. PICK v : v = loc'[t].writes[i]
    OBVIOUS
  <2>2. i + 1 \in 1 .. n /\ v = loc[t].writes[i + 1]
    <3>1. i + 1 \in 1 .. n
      BY <1>5
    <3>2. v = loc[t].writes[i + 1]
      BY <1>6, <2>1
    <3> QED
      BY <3>1, <3>2
  <2>3. StoreFits(t, v) /\ v[1] \in Entries(Newest)
    BY <1>5, <1>7, <2>2
  <2>4. HalfFor(t, v[1])' = HalfFor(t, v[1])
    BY <1>11, <2>1 DEF HalfFor, Bit
  <2>5. Current'[v[1]] \in {tg, v[2]}
    BY <1>9, <1>10, <2>3 DEF StoreFits, tg
  <2>6. Selects(tg, v[1]) /\ v[2] = HalfFor(t, v[1])
    BY <2>3 DEF StoreFits, tg
  <2>7. loc'[t].s = loc[t].s /\ Target(t)' = Target(t) /\ loc'[t].target = tg
    BY <1>6, <1>11
  <2> QED
    BY <1>2, <2>1, <2>5, <2>6, <2>7 DEF StoreFits, Selects, HalfFor, Bit
<1>19. HalvesHidden'
  <2> SUFFICES ASSUME NEW v \in Threads, Pending(v)', NEW b, HalfOf(v, b)' PROVE Hidden(v, b)'
    BY DEF HalvesHidden
  <2>1. Pending(v) /\ HalfOf(v, b) /\ v # t
    BY <1>4, <1>11
  <2>2. Hidden(v, b)
    BY <2>1 DEF Shape, HalvesHidden
  <2>3. w[2] # b
    BY <1>4, <1>9, <2>1, <2>2 DEF Hidden, HalfOf
  <2>4. ASSUME NEW a \in 1 .. Newest, NEW x \in Entries(a) PROVE arrays'[a][x] # b
    <3>1. arrays[a][x] # b
      BY <2>2 DEF Hidden
    <3>2. CASE a = Newest
      BY <1>3, <1>10, <2>3, <3>1, <3>2
    <3>3. CASE a # Newest
      <4>1. a \in 1 .. Newest - 1
        BY <1>3, <3>3
      <4> QED
        BY <1>1, <3>1, <4>1
    <3> QED
      BY <3>2, <3>3
  <2> QED
    BY <1>1, <1>2, <1>11, <2>2, <2>4 DEF Hidden
<1> QED
  BY <1>14, <1>15, <1>16, <1>17, <1>18, <1>19 DEF Shape

-----------------------------------------------------------------------------
(* Doubling the directory                                                   *)

\* An entry of the doubled array and the entry that it repeats.
LEMMA DoubleArith ==
  ASSUME NEW c \in Nat \ {0}, NEW x \in 0 .. c - 1, NEW y \in 0 .. 2 * c - 1
  PROVE  /\ y % c \in 0 .. c - 1
         /\ y % c = x <=> (y = x \/ y = x + c)
         /\ y % (2 * c) = y /\ x % c = x
<1>0. x % c = x
  BY DivModUnique
<1>1. CASE y < c
  <2>1. y = c * 0 + y /\ y \in 0 .. c - 1
    BY <1>1
  <2>2. y % c = y
    BY <2>1, DivModUnique
  <2> QED
    BY <1>1, <2>2
<1>2. CASE c <= y
  <2>1. y = c * 1 + (y - c) /\ y - c \in 0 .. c - 1
    BY <1>2
  <2>2. y % c = y - c
    BY <2>1, DivModUnique
  <2> QED
    BY <1>2, <2>2
<1>3. y % (2 * c) = y
  <2>1. PICK d \in Nat \ {0} : d = 2 * c
    OBVIOUS
  <2>2. y \in 0 .. d - 1 /\ y = d * 0 + y
    BY <2>1
  <2> QED
    BY <2>1, <2>2, DivModUnique
<1> QED
  BY <1>0, <1>1, <1>2, <1>3

\* The doubled array takes the place of the old one.
LEMMA PublishArrayShape ==
  ASSUME Inv, Patterns, KeyBelongs, Shape, NEW t \in Threads, PublishArray(t)
  PROVE  Shape'
<1> DEFINE tg == loc[t].target
           x == loc[t].x
           g == DepthOf(Newest)
           c == dir.capacity
           s1 == loc[t].s[1]
           s2 == loc[t].s[2]
           D == Doubled(t)
<1>1. /\ Inv' /\ Newest' = Newest + 1 /\ Current' = D
      /\ DepthOf(Newest + 1) = g + 1
      /\ Entries(Newest + 1) = 0 .. 2 * c - 1
      /\ \A a \in 1 .. Newest : arrays'[a] = arrays[a]
      /\ loc'[t] = [loc[t] EXCEPT !.arr = Newest]
      /\ \A u \in Threads \ {t} : loc'[u] = loc[u]
  BY PublishArrayInv
<1>2. /\ pc[t] = "i_double" /\ blocks' = blocks
      /\ pc'[t] = "i_capacity" /\ \A u \in Threads \ {t} : pc'[u] = pc[u]
  BY GotoOthers DEF PublishArray
<1>3. Pending(t) /\ Busy(t) /\ ~Pending(t)' /\ ~Busy(t)' /\ Pointers' = Pointers
  BY <1>2 DEF Pending, Busy, Pointers
<1>4. /\ g \in Nat /\ c \in Nat \ {0} /\ c = Pow2[g] /\ Pow2[g + 1] = 2 * c
      /\ Entries(Newest) = 0 .. c - 1
      /\ Current = arrays[Newest] /\ Current \in [Entries(Newest) -> Pointers]
      /\ Newest \in 1 .. Newest /\ Newest \in Nat
  BY <1>2, OwnerFacts, CurrentTyped, Pow2Step
<1>5. /\ \A u \in Threads : \A z : ~Awaits(u, z)
      /\ HalfPair(t)
      /\ \A z \in Entries(Newest) : Current[z] = tg <=> Selects(tg, z)
      /\ \A b : HalfOf(t, b) => Hidden(t, b)
  BY <1>2, <1>3, PendingFacts
<1>6. /\ tg \in Pointers /\ s1 \in Pointers /\ s2 \in Pointers /\ s1 # s2
      /\ blocks[tg].split = TRUE /\ blocks[tg].local_depth = g
      /\ blocks[s1].local_depth = g + 1 /\ blocks[s2].local_depth = g + 1
      /\ x \in 0 .. c - 1 /\ blocks[tg].pattern = x
      /\ blocks[s1].pattern = x /\ blocks[s2].pattern = x + c
  <2>1. /\ x \in 0 .. c - 1 /\ blocks[tg].local_depth = g /\ x % c = blocks[tg].pattern
    BY <1>2, <1>4, <1>5 DEF HalfPair, Target, Selects
  <2>2. x % c = x
    <3>1. c \in Nat \ {0} /\ 0 \in 0 .. 2 * c - 1
      BY <1>4
    <3> HIDE DEF x, c
    <3> QED
      BY <2>1, <3>1, DoubleArith
  <2> QED
    BY <1>3, <1>4, <1>5, <2>1, <2>2, BusyFacts DEF HalfPair, Target
<1>7. \A y \in 0 .. 2 * c - 1 :
        D[y] = IF y = x THEN s1 ELSE IF y = x + c THEN s2 ELSE Current[y % c]
  <2> SUFFICES ASSUME NEW y \in 0 .. 2 * c - 1
               PROVE  D[y] = IF y = x THEN s1 ELSE IF y = x + c THEN s2 ELSE Current[y % c]
    OBVIOUS
  <2>1. x \in Nat /\ c \in Nat \ {0} /\ x # x + c
    BY <1>4, <1>6
  <2>2. D[y] = CASE y = x -> s1 [] y = x + c -> s2 [] OTHER -> Current[y % c]
    BY DEF Doubled
  <2> QED
    BY <2>1, <2>2
<1>8. \A b, z : Selects(b, z)' <=> Selects(b, z)
  BY <1>2 DEF Selects
<1>9. ASSUME NEW u \in Threads
      PROVE  /\ loc'[u].target = loc[u].target /\ loc'[u].s = loc[u].s
             /\ Busy(u)' <=> Busy(u) /\ u # t
             /\ Pending(u)' <=> Pending(u) /\ u # t
             /\ \A b : HalfOf(u, b)' <=> HalfOf(u, b)
             /\ Target(u)' = Target(u)
             /\ u # t => pc'[u] = pc[u] /\ loc'[u] = loc[u] /\ pc[u] # "i_update" /\ pc[u] # "i_double"
             /\ pc'[u] # "i_update"
  <2>1. loc'[u].target = loc[u].target /\ loc'[u].s = loc[u].s
    <3>1. loc[t] \in Locals
      BY DEF Inv, Typed
    <3>2. loc'[t].target = loc[t].target /\ loc'[t].s = loc[t].s
      BY <1>1, <3>1 DEF Locals
    <3> QED
      BY <1>1, <3>2
  <2>2. u # t => /\ pc'[u] = pc[u] /\ loc'[u] = loc[u]
                 /\ pc[u] # "i_update" /\ pc[u] # "i_double"
    BY <1>1, <1>2, OnlyOwner DEF Owner, OwnerPCs
  <2>3. Target(u)' = Target(u)
    BY <1>2, <2>1 DEF Target
  <2>4. /\ Busy(u)' <=> Busy(u) /\ u # t
        /\ Pending(u)' <=> Pending(u) /\ u # t
    BY <1>3, <2>2 DEF Busy, Pending
  <2> QED
    BY <1>2, <2>1, <2>2, <2>3, <2>4 DEF HalfOf
<1> HIDE DEF tg, x, g, c, s1, s2, D
<1>10. \A u \in Threads : \A z : ~Awaits(u, z)'
  BY <1>9 DEF Awaits
<1>11. \A y, b : Leads(y, b) <=> b = Current[y]
  BY <1>5, AtRest
<1>12. \A y, b : Leads(y, b)' <=> b = D[y]
  BY <1>1, <1>10 DEF Leads
<1>13. ASSUME NEW y \in 0 .. 2 * c - 1
       PROVE  /\ y \in Nat /\ y % c \in Entries(Newest)
              /\ y % c = x <=> (y = x \/ y = x + c)
              /\ y % (2 * c) = y
              /\ \A b \in Pointers : blocks[b].local_depth <= g =>
                   (Selects(b, y) <=> Selects(b, y % c))
              /\ Selects(s1, y) <=> y = x
              /\ Selects(s2, y) <=> y = x + c
  <2>1. /\ y % c \in 0 .. c - 1 /\ y % (2 * c) = y
        /\ y % c = x <=> (y = x \/ y = x + c)
    <3>1. c \in Nat \ {0} /\ x \in 0 .. c - 1
      BY <1>4, <1>6
    <3>2. y % c \in 0 .. c - 1
      BY <3>1, DoubleArith
    <3>3. y % (2 * c) = y
      BY <3>1, DoubleArith
    <3>4. y % c = x <=> (y = x \/ y = x + c)
      BY <3>1, DoubleArith
    <3> QED
      BY <3>2, <3>3, <3>4
  <2>2. y \in Nat
    BY <1>4
  <2>3. ASSUME NEW b \in Pointers, blocks[b].local_depth <= g
        PROVE  Selects(b, y) <=> Selects(b, y % c)
    <3>1. blocks[b] \in Block
      BY DEF Inv, Typed, Pointers
    <3>2. PICK n \in Nat, m \in Nat \ {0} : n = blocks[b].local_depth /\ m = Pow2[n] /\ n <= g
      BY <2>3, <3>1, BlockFacts
    <3>3. PICK q \in Nat \ {0} : c = m * q
      <4>0. g \in Nat
        BY <1>4
      <4>1. g - n \in Nat
        BY <3>2, <4>0
      <4>2. Pow2[g - n] \in Nat \ {0}
        BY <4>1, Pow2Step
      <4>3. Pow2[g] = Pow2[n] * Pow2[g - n]
        BY <1>4, <3>2, Pow2Diff
      <4> QED
        BY <1>4, <3>2, <4>2, <4>3
    <3>4. (y % (m * q)) % m = y % m
      BY <2>2, ModMod
    <3> QED
      BY <3>2, <3>3, <3>4 DEF Selects
  <2>4. Selects(s1, y) <=> y = x
    BY <1>4, <1>6, <2>1 DEF Selects
  <2>5. Selects(s2, y) <=> y = x + c
    BY <1>4, <1>6, <2>1 DEF Selects
  <2> QED
    BY <1>4, <2>1, <2>2, <2>3, <2>4, <2>5
<1>14. x \in 0 .. 2 * c - 1 /\ x + c \in 0 .. 2 * c - 1 /\ x # x + c
  BY <1>4, <1>6
\* A block without the split bit keeps its entries, and gets their copies.
<1>15. ASSUME NEW b \in Pointers, b # tg, blocks[b].local_depth <= g, Whole(b),
              NEW y \in 0 .. 2 * c - 1, Selects(b, y)
       PROVE  D[y] = b
  <2>1. Selects(b, y % c) /\ y % c \in Entries(Newest)
    BY <1>13, <1>15
  <2>2. Current[y % c] = b
    BY <1>11, <1>15, <2>1 DEF Whole
  <2>3. y % c # x
    <3> SUFFICES ASSUME y % c = x PROVE FALSE
      OBVIOUS
    <3>1. Selects(tg, x) /\ x \in Entries(Newest)
      BY <1>2, <1>4, <1>5, <1>6 DEF HalfPair, x, tg
    <3> QED
      BY <1>5, <1>15, <2>2, <3>1
  <2> QED
    BY <1>7, <1>13, <2>2, <2>3
<1>16. HalfOf(t, s1) /\ HalfOf(t, s2) /\ \A b : HalfOf(t, b) => b = s1 \/ b = s2
  BY DEF HalfOf, s1, s2
<1>17. \A b : Unpublished(b) <=> Unpublished(b)' \/ HalfOf(t, b)
  BY <1>3, <1>9 DEF Unpublished
<1>18. Entries(Newest)' = 0 .. 2 * c - 1 /\ DepthOf(Newest)' = g + 1
  BY <1>1 DEF Entries, DepthOf
<1>19. EntriesOK'
  <2> SUFFICES ASSUME NEW y \in 0 .. 2 * c - 1
               PROVE  Selects(D[y], y) /\ blocks[D[y]].local_depth <= g + 1
    BY <1>1, <1>2, <1>8, <1>18 DEF EntriesOK, Selects
  <2>1. CASE y = x \/ y = x + c
    <3>1. \/ D[y] = s1 /\ y = x
          \/ D[y] = s2 /\ y = x + c
      BY <1>7, <2>1
    <3>2. Selects(D[y], y)
      BY <1>13, <3>1
    <3>3. blocks[D[y]].local_depth = g + 1
      BY <1>6, <3>1
    <3> QED
      BY <1>4, <3>2, <3>3
  <2>2. CASE y # x /\ y # x + c
    <3>1. y % c \in Entries(Newest) /\ D[y] = Current[y % c]
      BY <1>7, <1>13, <2>2
    <3>2. Selects(Current[y % c], y % c) /\ blocks[Current[y % c]].local_depth <= g
      BY <3>1 DEF Shape, EntriesOK, g
    <3>3. Current[y % c] \in Pointers
      BY <1>4, <3>1
    <3>4. blocks[Current[y % c]].local_depth \in Nat
      BY <3>3, BlockFacts DEF Inv, Typed, Pointers
    <3>5. blocks[Current[y % c]].local_depth <= g + 1
      BY <1>4, <3>2, <3>4
    <3> QED
      BY <1>13, <3>1, <3>2, <3>3, <3>5
  <2> QED
    BY <2>1, <2>2
<1>20. DepthsOK'
  <2> SUFFICES ASSUME NEW b \in Pointers
               PROVE  blocks[b].local_depth <= g + 1 \/ Unpublished(b)'
    BY <1>2, <1>3, <1>18 DEF DepthsOK
  <2>1. CASE HalfOf(t, b)
    BY <1>4, <1>6, <1>16, <2>1
  <2>2. CASE ~HalfOf(t, b)
    <3>1. blocks[b].local_depth <= g \/ Unpublished(b)'
      BY <1>17, <2>2 DEF Shape, DepthsOK, g
    <3>2. blocks[b].local_depth \in Nat
      BY BlockFacts DEF Inv, Typed, Pointers
    <3> QED
      BY <1>4, <3>1, <3>2
  <2> QED
    BY <2>1, <2>2
<1>21. HalvesOK'
  <2> SUFFICES ASSUME NEW u \in Threads, Busy(u)' PROVE HalfPair(u)'
    BY DEF HalvesOK
  <2>1. HalfPair(u) /\ loc'[u] = loc[u] /\ Target(u)' = Target(u)
        /\ pc'[u] # "i_update" /\ pc'[u] # "i_double"
    BY <1>9 DEF Shape, HalvesOK
  <2> QED
    BY <1>2, <2>1 DEF HalfPair
<1>22. Distinct'
  BY <1>9 DEF Shape, Distinct
<1>23. StoresOK'
  BY <1>9 DEF StoresOK
<1>24. HalvesHidden'
  <2> SUFFICES ASSUME NEW v \in Threads, Pending(v)', NEW b, HalfOf(v, b)' PROVE Hidden(v, b)'
    BY DEF HalvesHidden
  <2>1. v # t /\ Pending(v) /\ HalfOf(v, b)
    BY <1>9
  <2>2. Hidden(v, b)
    BY <2>1 DEF Shape, HalvesHidden
  <2>3. b # s1 /\ b # s2
    BY <1>3, <1>16, <2>1, <2>2 DEF Hidden
  <2>4. ASSUME NEW a \in 1 .. Newest', NEW y \in Entries(a) PROVE arrays'[a][y] # b
    <3>1. CASE a \in 1 .. Newest
      BY <1>1, <2>2, <3>1 DEF Hidden
    <3>2. CASE a = Newest + 1
      <4>1. y \in 0 .. 2 * c - 1 /\ arrays'[a][y] = D[y]
        <5>1. Current' = arrays'[Newest']
          BY <1>1, CurrentTyped DEF Current, Inv, Sizes
        <5> QED
          BY <1>1, <3>2, <5>1 DEF c
      <4>2. Current[y % c] # b
        <5>1. \A z \in Entries(Newest) : Current[z] # b
          BY <1>4, <2>2 DEF Hidden
        <5> QED
          BY <1>13, <4>1, <5>1
      <4> QED
        BY <1>7, <2>3, <4>1, <4>2
    <3>3. a \in 1 .. Newest \/ a = Newest + 1
      BY <1>1, <1>4
    <3> QED
      BY <3>1, <3>2, <3>3
  <2>5. \A u \in Threads : loc'[u].target # b
    BY <1>9, <2>2 DEF Hidden
  <2>6. \A u \in Threads : u # v /\ Busy(u)' => ~HalfOf(u, b)'
    BY <1>9, <2>2 DEF Hidden
  <2>7. blocks'[b].split = FALSE
    BY <1>2, <2>2 DEF Hidden
  <2>8. \A a \in 1 .. Newest' : \A y \in Entries(a)' : arrays'[a][y] # b
    BY <2>4 DEF Entries, DepthOf
  <2> QED
    BY <2>5, <2>6, <2>7, <2>8 DEF Hidden
<1>25. UnsplitWhole'
  <2> SUFFICES ASSUME NEW b \in Pointers, blocks[b].split # TRUE, ~Unpublished(b)',
                      NEW y \in 0 .. 2 * c - 1, Selects(b, y)
               PROVE  D[y] = b
    BY <1>2, <1>3, <1>8, <1>12, <1>18 DEF UnsplitWhole, Whole
  <2>1. CASE HalfOf(t, b)
    BY <1>7, <1>13, <1>14, <1>16, <2>1
  <2>2. CASE ~HalfOf(t, b)
    <3>1. Whole(b) /\ blocks[b].local_depth <= g
      BY <1>17, <2>2 DEF Shape, UnsplitWhole, DepthsOK, g
    <3>2. b # tg
      BY <1>6
    <3> QED
      BY <1>15, <3>1, <3>2
  <2> QED
    BY <2>1, <2>2
<1>26. PendingWhole'
  <2> SUFFICES ASSUME NEW u \in Threads, Pending(u)' PROVE Whole(loc[u].target)'
    BY DEF PendingWhole
  <2>1. u # t /\ Pending(u) /\ Busy(u)
    BY <1>9 DEF Pending, Busy
  <2>2. PICK b \in Pointers : b = loc[u].target /\ b = loc'[u].target
    BY <1>9, BusyFacts
  <2>3. Whole(b) /\ b # tg
    BY <1>3, <2>1, <2>2 DEF Shape, PendingWhole, Distinct, tg
  <2>4. ~Unpublished(b)
    BY <2>2 DEF Unpublished, Shape, HalvesHidden, Hidden
  <2>5. blocks[b].local_depth <= g
    BY <2>4 DEF Shape, DepthsOK, g
  <2>6. Whole(b)'
    BY <1>8, <1>12, <1>15, <1>18, <2>3, <2>5 DEF Whole
  <2> QED
    BY <2>2, <2>6, WholeTarget
<1>27. SplitPending'
  <2> SUFFICES ASSUME NEW y \in 0 .. 2 * c - 1, NEW b \in Pointers, D[y] = b, blocks[b].split = TRUE
               PROVE  \E u \in Threads : Pending(u)' /\ loc'[u].target = b
    BY <1>2, <1>3, <1>12, <1>18 DEF SplitPending
  <2>1. y # x /\ y # x + c
    <3>1. b # s1 /\ b # s2
      BY <1>5, <1>16 DEF Hidden
    <3> QED
      BY <1>7, <3>1
  <2>2. Current[y % c] = b /\ y % c \in Entries(Newest) /\ Leads(y % c, b)
    BY <1>7, <1>11, <1>13, <2>1
  <2>3. PICK u \in Threads : Pending(u) /\ loc[u].target = b
    BY <2>2 DEF Shape, SplitPending
  <2>4. u # t
    <3> SUFFICES ASSUME b = tg PROVE FALSE
      BY <2>3 DEF tg
    <3>1. Selects(tg, y % c)
      BY <1>5, <2>2
    <3>2. y % c \in 0 .. c - 1
      BY <1>4, <2>2
    <3>3. (y % c) % c = y % c
      <4>1. c \in Nat \ {0} /\ 0 \in 0 .. 2 * c - 1
        BY <1>4
      <4> QED
        BY <3>2, <4>1, DoubleArith
    <3>4. y % c = x
      BY <1>4, <1>6, <3>1, <3>3 DEF Selects
    <3> QED
      BY <1>13, <2>1, <3>4
  <2> QED
    BY <1>9, <2>3, <2>4
<1> QED
  BY <1>19, <1>20, <1>21, <1>22, <1>23, <1>24, <1>25, <1>26, <1>27 DEF Shape

-----------------------------------------------------------------------------
(* The theorems                                                             *)

\* The constructor.
LEMMA InitDirectory ==
  ASSUME Init
  PROVE  Directory
<1> USE DEF Init
<1>1. Inv
  BY InitInv
<1>2. PICK c \in Nat \ {0} : c = Pow2[InitDepth]
  BY Pow2Step, ExtendibleAssumption
<1>3. /\ Newest = 1 /\ DepthOf(Newest) = InitDepth /\ InitDepth \in Nat
      /\ Entries(Newest) = 0 .. c - 1 /\ Pointers = 1 .. c
  <2>1. \A f : \A n \in Nat : \A S : f \in [1 .. n -> S] => Len(f) = n
    OBVIOUS
  <2>2. PICK f : f = [i \in 1 .. c |-> NewBlock(InitDepth, i - 1)]
    OBVIOUS
  <2>3. f \in [1 .. c -> {f[i] : i \in 1 .. c}]
    BY <2>2
  <2>4. Len(blocks) = c
    BY <1>2, <2>1, <2>2, <2>3
  <2>5. InitDepth \in Nat
    BY ExtendibleAssumption
  <2> QED
    BY <1>2, <2>4, <2>5 DEF Newest, DepthOf, Entries, Pointers
<1>4. \A b \in Pointers : /\ blocks[b].local_depth = InitDepth /\ blocks[b].pattern = b - 1
                          /\ blocks[b].split = FALSE
  BY <1>2, <1>3 DEF NewBlock
<1>5. \A x \in Entries(Newest) : Current[x] = x + 1 /\ x + 1 \in Pointers
  BY <1>2, <1>3 DEF Current
<1>6. \A t \in Threads : pc[t] = "idle" /\ ~Busy(t) /\ ~Pending(t) /\ \A x : ~Awaits(t, x)
  BY DEF Busy, Pending, Awaits
<1> HIDE DEF Init
<1>7. ASSUME NEW x \in Entries(Newest), NEW b \in Pointers
      PROVE  Selects(b, x) <=> b = x + 1
  <2>1. x \in 0 .. c - 1 /\ 0 \in 0 .. 2 * c - 1
    BY <1>2, <1>3
  <2>2. x % c = x
    BY <2>1, DoubleArith
  <2>3. blocks[b].pattern = b - 1 /\ blocks[b].local_depth = InitDepth /\ b \in 1 .. c
    BY <1>3, <1>4
  <2>4. Selects(b, x) <=> x = b - 1
    BY <1>2, <2>2, <2>3 DEF Selects
  <2> QED
    BY <2>1, <2>3, <2>4
<1>8. Patterns
  BY <1>2, <1>3, <1>4 DEF Patterns
<1>9. KeyBelongs
  BY <1>6 DEF KeyBelongs, BelongPCs
<1>10. Shape
  <2>1. EntriesOK
    BY <1>3, <1>4, <1>5, <1>7 DEF EntriesOK
  <2>2. DepthsOK
    BY <1>3, <1>4 DEF DepthsOK
  <2>3. HalvesOK /\ Distinct /\ StoresOK /\ HalvesHidden /\ PendingWhole
    BY <1>6 DEF HalvesOK, Distinct, StoresOK, HalvesHidden, PendingWhole
  <2>4. \A x, b : Leads(x, b) <=> b = Current[x]
    BY <1>6, AtRest
  <2>5. UnsplitWhole
    BY <1>5, <1>7, <2>4 DEF UnsplitWhole, Whole
  <2>6. SplitPending
    BY <1>4 DEF SplitPending
  <2> QED
    BY <2>1, <2>2, <2>3, <2>5, <2>6 DEF Shape
<1> QED
  BY <1>8, <1>9, <1>10 DEF Directory

\* Acquire finds the entry of the key leading to its target; so it doubles
\* exactly when the target has as many bits as the directory, and depth_diff is
\* not negative when it does not.
LEMMA AcquireDirectory ==
  ASSUME Inv, Directory, NEW t \in Threads, Acquire(t)
  PROVE  Directory' /\ ("resplit" \notin races => pc'[t] # "lost")
<1> DEFINE x == Hash[Key(t)] % dir.capacity
           dd == global_depth - blocks[loc[t].s[1]].local_depth
           w == LSBUpdate(dd, dir.capacity, x, loc[t].s)
           normal == blocks[Current[x]].local_depth < global_depth
<1>1. /\ pc[t] = "i_acquire" /\ ~dir.lock /\ dir'.arr = dir.arr
      /\ UNCHANGED <<blocks, arrays, todo, races>>
      /\ \/ normal /\ dd >= 0 /\ Goto(t, "i_update") /\ Put(t, "writes", w)
         \/ normal /\ dd < 0 /\ Goto(t, "lost") /\ UNCHANGED loc
         \/ ~normal /\ Goto(t, "i_double") /\ Put(t, "x", x)
  BY DEF Acquire, Inv, Typed
<1> HIDE DEF x, dd, w, normal
<1>2. Inv' /\ Patterns /\ KeyBelongs /\ Pending(t) /\ loc[t] \in Locals
  BY <1>1, AcquireInv DEF Directory, Pending, Inv, Typed
<1>3. \A u \in Threads \ {t} : pc'[u] = pc[u] /\ loc'[u] = loc[u]
  BY <1>1, GotoOthers DEF Inv, Typed, Put
<1>4. loc'[t].target = loc[t].target /\ loc'[t].s = loc[t].s
  <2>1. CASE Put(t, "writes", w)
    <3>1. loc' = [loc EXCEPT ![t] = [loc[t] EXCEPT !["writes"] = w]]
      BY <2>1 DEF Put
    <3>2. [loc[t] EXCEPT !["writes"] = w].target = loc[t].target
          /\ [loc[t] EXCEPT !["writes"] = w].s = loc[t].s
      BY <1>2 DEF Locals
    <3> QED
      BY <3>1, <3>2 DEF Inv, Typed
  <2>2. CASE UNCHANGED loc
    BY <2>2
  <2>3. CASE Put(t, "x", x)
    <3>1. loc' = [loc EXCEPT ![t] = [loc[t] EXCEPT !["x"] = x]]
      BY <2>3 DEF Put
    <3>2. [loc[t] EXCEPT !["x"] = x].target = loc[t].target
          /\ [loc[t] EXCEPT !["x"] = x].s = loc[t].s
      BY <1>2 DEF Locals
    <3> QED
      BY <3>1, <3>2 DEF Inv, Typed
  <2> QED
    BY <1>1, <2>1, <2>2, <2>3
<1>5. Patterns' /\ KeyBelongs'
  <2>1. \A u \in Threads : pc'[u] \in BelongPCs => pc[u] \in BelongPCs
    BY <1>1, <1>3 DEF BelongPCs
  <2>2. \A u \in Threads : todo'[u] = todo[u] /\ loc'[u].target = loc[u].target
    BY <1>1, <1>3, <1>4
  <2> QED
    BY <1>1, <1>2, <2>1, <2>2, KeyKept
<1>6. ASSUME "resplit" \notin races PROVE Shape' /\ pc'[t] # "lost"
  <2>1. Shape
    BY <1>6 DEF Directory
  <2>2. /\ Target(t).local_depth <= DepthOf(Newest) /\ HalfPair(t)
        /\ \A z \in Entries(Newest) : Current[z] = loc[t].target <=> Selects(loc[t].target, z)
    BY <1>1, <1>2, <2>1, PendingFacts
  <2>3. x \in Entries(Newest) /\ Selects(loc[t].target, x)
    BY <1>1, <1>2, <2>2, HomeSelected DEF x
  <2>4. normal => /\ dd >= 0 /\ Target(t).local_depth < DepthOf(Newest)
                  /\ w \in Seq(Entries(Newest) \X Pointers)
                  /\ \A i \in 1 .. Len(w) :
                       Selects(loc[t].target, w[i][1]) /\ w[i][2] = HalfFor(t, w[i][1])
                  /\ \A z \in Entries(Newest) :
                       Selects(loc[t].target, z) => \E i \in 1 .. Len(w) : w[i][1] = z
    BY <1>1, <1>2, <2>1, AcquireStores DEF x, dd, w, normal
  <2>5. CASE normal /\ dd >= 0 /\ Goto(t, "i_update") /\ Put(t, "writes", w)
    <3>1. pc'[t] = "i_update" /\ loc'[t].writes = w
      <4>1. loc' = [loc EXCEPT ![t] = [loc[t] EXCEPT !["writes"] = w]]
        BY <2>5 DEF Put
      <4>2. [loc[t] EXCEPT !["writes"] = w].writes = w
        BY <1>2 DEF Locals
      <4> QED
        BY <2>5, <4>1, <4>2, GotoOthers DEF Inv, Typed
    <3>2. Shape'
      BY <1>1, <1>2, <1>3, <1>4, <2>1, <2>4, <2>5, <3>1, UpdateShape
    <3> QED
      BY <3>1, <3>2
  <2>6. CASE normal /\ dd < 0
    <3>1. dd \in Int
      <4>1. global_depth \in Nat /\ blocks[loc[t].s[1]] \in Block
        <5>1. global_depth \in Nat /\ \A b \in Pointers : blocks[b] \in Block
          BY DEF Inv, Typed, Pointers
        <5>2. Busy(t)
          BY <1>1 DEF Busy
        <5>3. loc[t].s[1] \in Pointers
          BY <5>2, BusyFacts
        <5> QED
          BY <5>1, <5>3
      <4> QED
        BY <4>1, BlockFacts DEF dd
    <3> QED
      BY <2>4, <2>6, <3>1
  <2>7. CASE ~normal /\ Goto(t, "i_double") /\ Put(t, "x", x)
    <3>1. pc'[t] = "i_double" /\ loc'[t].x = x
      <4>1. loc' = [loc EXCEPT ![t] = [loc[t] EXCEPT !["x"] = x]]
        BY <2>7 DEF Put
      <4>2. [loc[t] EXCEPT !["x"] = x].x = x
        BY <1>2 DEF Locals
      <4> QED
        BY <2>7, <4>1, <4>2, GotoOthers DEF Inv, Typed
    <3>2. Target(t).local_depth = DepthOf(Newest)
      <4>1. global_depth = DepthOf(Newest) /\ DepthOf(Newest) \in Nat
        BY <1>1, OwnerFacts
      <4>2. Current[x] = loc[t].target
        BY <2>2, <2>3
      <4>3. ~(Target(t).local_depth < DepthOf(Newest))
        BY <2>7, <4>1, <4>2 DEF normal, Target
      <4>4. Target(t).local_depth \in Nat
        BY BusyFacts
      <4> QED
        BY <2>2, <4>1, <4>3, <4>4
    <3>3. Shape'
      BY <1>1, <1>2, <1>3, <1>4, <2>1, <2>3, <3>1, <3>2, DoubleShape
    <3> QED
      BY <3>1, <3>3
  <2> QED
    BY <1>1, <2>5, <2>6, <2>7
<1> QED
  BY <1>1, <1>5, <1>6 DEF Directory

\* A split keeps the directory; the second split of a block is the exception.
LEMMA SplitDirectory ==
  ASSUME Inv, Directory, NEW t \in Threads, Split(t), Target(t).sema = 0
  PROVE  Directory'
<1>1. PICK c \in Block, h1 \in Block, h2 \in Block : SplitStep(t, c, h1, h2)
  BY SplitSteps
<1>2. Inv'
  BY <1>1, SplitInv
<1>3. Patterns /\ KeyBelongs
  BY DEF Directory
<1>4. Patterns' /\ KeyBelongs'
  BY <1>1, <1>3, SplitBelongs
<1>5. ASSUME "resplit" \notin races' PROVE Shape'
  <2>1. "resplit" \notin races /\ Target(t).split # TRUE
    BY <1>1, <1>5 DEF SplitStep
  <2>2. Target(t).split = FALSE
    BY <2>1, BusyFacts DEF Block
  <2>3. Shape
    BY <2>1 DEF Directory
  <2> QED
    BY <1>1, <1>2, <1>3, <2>2, <2>3, SplitShape
<1> QED
  BY <1>4, <1>5 DEF Directory

\* The owner's stores into the directory, of an entry and of a doubled array.
LEMMA StoresDirectory ==
  ASSUME Inv, Directory, NEW t \in Threads, StoreEntry(t) \/ PublishArray(t)
  PROVE  Directory'
<1>1. Patterns /\ KeyBelongs /\ blocks' = blocks /\ todo' = todo /\ races' = races
  BY DEF Directory, StoreEntry, PublishArray
<1>2. ASSUME NEW u \in Threads
      PROVE  /\ pc'[u] \in BelongPCs => pc[u] \in BelongPCs
             /\ loc'[u].target = loc[u].target
  <2>1. loc[t] \in Locals
    BY DEF Inv, Typed
  <2>2. CASE StoreEntry(t)
    <3>1. /\ loc'[t] = [loc[t] EXCEPT !.writes = Tail(loc[t].writes)]
          /\ \A v \in Threads \ {t} : loc'[v] = loc[v]
          /\ pc' = pc
      BY <2>2, StoreEntryInv DEF StoreEntry
    <3>2. loc'[t].target = loc[t].target
      BY <2>1, <3>1 DEF Locals
    <3> QED
      BY <3>1, <3>2
  <2>3. CASE PublishArray(t)
    <3>1. /\ loc'[t] = [loc[t] EXCEPT !.arr = Newest]
          /\ \A v \in Threads \ {t} : loc'[v] = loc[v]
          /\ pc[t] = "i_double" /\ Goto(t, "i_capacity")
      BY <2>3, PublishArrayInv DEF PublishArray
    <3>2. loc'[t].target = loc[t].target
      BY <2>1, <3>1 DEF Locals
    <3> QED
      BY <3>1, <3>2, GotoOthers DEF BelongPCs
  <2> QED
    BY <2>2, <2>3
<1>3. Patterns' /\ KeyBelongs'
  BY <1>1, <1>2, KeyKept
<1>4. ASSUME "resplit" \notin races PROVE Shape'
  BY <1>1, <1>4, StoreEntryShape, PublishArrayShape DEF Directory
<1> QED
  BY <1>1, <1>3, <1>4 DEF Directory

\* The steps that the directory does not notice keep it.
LEMMA CalmDirectory ==
  ASSUME Inv, Inv', Directory, Calm
  PROVE  Directory'
<1>1. Patterns' /\ KeyBelongs'
  BY CalmBelongs DEF Directory
<1>2. "resplit" \notin races' => Shape'
  BY CalmShape DEF Directory, Calm
<1> QED
  BY <1>1, <1>2 DEF Directory

\* A stuttering step is calm.
LEMMA StutterCalm ==
  ASSUME Inv, UNCHANGED vars
  PROVE  Calm
<1>1. SameBlocks
  BY BlocksKept DEF vars
<1> QED
  BY <1>1 DEF vars, Calm, Busy, Pending

\* Unless a block is split twice, every block owns exactly the entries of its
\* pattern, those that a thread is about to store counted as stored.
THEOREM DirectoryHolds == Spec => []Directory
<1>1. Inv /\ Inv' /\ Directory /\ [Next]_vars => Directory'
  <2> SUFFICES ASSUME Inv, Inv', Directory, [Next]_vars PROVE Directory'
    OBVIOUS
  <2>1. ASSUME NEW t \in Threads, Step(t) PROVE Directory'
    BY <2>1, AcquireDirectory, SplitDirectory, StoresDirectory, CalmSteps, CalmDirectory
  <2>2. CASE UNCHANGED vars
    BY <2>2, StutterCalm, CalmDirectory
  <2> QED
    BY <2>1, <2>2 DEF Next, Terminating
<1> QED
  BY InitDirectory, <1>1, InvHolds, PTL DEF Spec

\* The newest array has an entry for every value of its bits.
LEMMA DirectorySize ==
  ASSUME Inv
  PROVE  Size(dir.arr) = Pow2[DepthOf(Newest)]
<1>1. PICK c \in Nat \ {0} : c = Pow2[DepthOf(Newest)] /\ Entries(Newest) = 0 .. c - 1
  BY CurrentTyped
<1>2. Cardinality(0 .. c - 1) = c
  <2>1. 0 \in Int /\ c - 1 \in Int /\ 0 <= c - 1
    OBVIOUS
  <2>2. Cardinality(0 .. c - 1) = (c - 1) - 0 + 1
    BY <2>1, FS_Interval
  <2> QED
    BY <2>2
<1>3. DOMAIN arrays[dir.arr] = 0 .. c - 1
  BY <1>1, CurrentTyped DEF Current
<1> QED
  BY <1>1, <1>2, <1>3 DEF Size

\* DirectoryShape: the property of the run, for any threads, calls, hash
\* function, block size and initial depth.
THEOREM DirectoryIsShaped == Spec => []DirectoryShape
<1>1. Inv /\ Directory /\ TypeOK => DirectoryShape
  <2> SUFFICES ASSUME Inv, Directory, TypeOK, "resplit" \notin races PROVE DirectoryShape
    BY DEF DirectoryShape
  <2>1. Shape
    BY DEF Directory
  <2>2. /\ DOMAIN Current = Entries(Newest) /\ dir.arr = Newest /\ Current = arrays[Newest]
        /\ \A x \in Entries(Newest) : Current[x] \in Pointers
        /\ Pow2[DepthOf(Newest)] \in Nat \ {0} /\ Newest \in 1 .. Newest
        /\ Entries(Newest) = 0 .. Pow2[DepthOf(Newest)] - 1
    BY CurrentTyped DEF Inv, Sizes
  <2>3. ASSUME NEW x \in Entries(Newest)
        PROVE  /\ blocks[Current[x]].pattern = x % Pow2[blocks[Current[x]].local_depth]
               /\ blocks[Current[x]].local_depth <= DepthOf(Newest)
    BY <2>1 DEF Shape, EntriesOK, Selects
  <2>4. ASSUME ~dir.lock
        PROVE  /\ \A t \in Threads : ~Owner(t)
               /\ global_depth = DepthOf(Newest) /\ dir.capacity = Pow2[DepthOf(Newest)]
    <3>1. \A t \in Threads : ~Owner(t)
      BY <2>4 DEF Inv, Locked
    <3>2. \A t \in Threads : pc[t] # "i_capacity" /\ pc[t] # "i_delete"
      BY <3>1 DEF Owner, OwnerPCs
    <3> QED
      BY <3>1, <3>2 DEF Inv, Sizes
  <2>5. Size(dir.arr) = Pow2[DepthOf(Newest)]
    BY DirectorySize
  <2>6. ASSUME ~dir.lock, NEW x \in Entries(Newest), NEW y \in Entries(Newest)
        PROVE  LET ld == blocks[Current[x]].local_depth
               IN  (x % Pow2[ld] = y % Pow2[ld]) <=> Current[x] = Current[y]
    <3> DEFINE b == Current[x]
    <3>1. \A z, d : Leads(z, d) <=> d = Current[z]
      <4>1. \A t \in Threads : pc[t] # "i_update"
        BY <2>4, <2>6 DEF Owner, OwnerPCs
      <4> QED
        BY <4>1, AtRest DEF Awaits
    <3>2. b \in Pointers
      BY <2>2
    <3>3. Whole(b)
      <4>1. CASE blocks[b].split = TRUE
        BY <2>1, <3>1, <3>2, <4>1 DEF Shape, SplitPending, PendingWhole
      <4>2. CASE blocks[b].split # TRUE
        <5>1. ~Unpublished(b)
          BY <2>1, <2>2 DEF Shape, HalvesHidden, Unpublished, Hidden
        <5> QED
          BY <2>1, <3>2, <4>2, <5>1 DEF Shape, UnsplitWhole
      <4> QED
        BY <4>1, <4>2
    <3>4. Selects(b, y) => Current[y] = b
      BY <3>1, <3>3 DEF Whole
    <3>5. Current[y] = b => Selects(b, y)
      BY <2>1 DEF Shape, EntriesOK
    <3>6. Selects(b, x)
      BY <2>1 DEF Shape, EntriesOK
    <3> QED
      BY <3>4, <3>5, <3>6 DEF Selects
  <2> QED
    BY <2>2, <2>3, <2>4, <2>5, <2>6 DEF DirectoryShape
<1> QED
  BY <1>1, InvHolds, DirectoryHolds, TypeCorrect, PTL

\* Directory::LSBUpdate is never called with a negative depth_diff, so never
\* divides by zero, unless a block has been split twice.
NoUnderflow == [][\A t \in Threads :
  "resplit" \notin races /\ Acquire(t) => pc'[t] # "lost"]_vars

\* NoUnderflow, for any threads, calls, hash function, block size and depth.
THEOREM UpdateTerminates == Spec => NoUnderflow
<1>1. Inv /\ Directory /\ [Next]_vars =>
        [\A t \in Threads : "resplit" \notin races /\ Acquire(t) => pc'[t] # "lost"]_vars
  BY AcquireDirectory
<1> QED
  BY <1>1, InvHolds, DirectoryHolds, PTL DEF Spec, NoUnderflow
=============================================================================

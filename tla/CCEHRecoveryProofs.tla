------------------------- MODULE CCEHRecoveryProofs -------------------------
(***************************************************************************)
(* Power failures during Insert, and Recovery: what the directory and its  *)
(* durable twin look like at every step.                                   *)
(*                                                                         *)
(* The entries of a directory form groups: a group starts at a leader, is  *)
(* as long as the leader's segment says, and the entries in it that lead   *)
(* elsewhere lead to deeper segments and are in its upper half (Leaders).  *)
(* Recovery goes from leader to leader and sets those entries back.  The   *)
(* invariant says that mem and pm have the same leaders at every moment,   *)
(* whatever was evicted, and that the entries of one segment agree on as   *)
(* many bits as its depth says, in either image (Together).  The durable   *)
(* directory keeps the promise of the durable depths by that alone.        *)
(*                                                                         *)
(* What Recovery repairs rests on more.  Its loop stops before the last    *)
(* group, so the block that ends the directory, the entries whose first    *)
(* InitDepth bits are all ones, may stay as a power failure left it.       *)
(* Outside it a group is whole unless its segment is being split (Whole);  *)
(* the block itself stays as initCCEH made it if no key belongs to it      *)
(* (Spared); and an acknowledged key is, in both images, in each segment   *)
(* that an entry could lead it to (HeldOK).                                *)
(*                                                                         *)
(* Hypotheses on a behaviour.  OneSplit: no two threads are in a split at  *)
(* once; the model has no lock on the directory, and without one a doubling*)
(* may come between the steps of another split.  Serial: one Insert at a   *)
(* time; a second one may store into the new segment of a split and return *)
(* before the entries that lead to it are durable.  Elsewhere: no key of   *)
(* the workload belongs to the last block.  The model imposes none of them;*)
(* with one thread, as in the runs, the first two hold (RecoveryOneThread).*)
(***************************************************************************)
EXTENDS CCEHRecovery, PowersProofs, SequenceTheorems

-----------------------------------------------------------------------------
(* Bits of an index                                                         *)

Ix(D) == 0 .. Pow2[D] - 1

\* The first l bits of an index of D bits.
Top(x, D, l) == x \div Pow2[D - l]

\* The first m bits of the first l.
LEMMA TopTop ==
  ASSUME NEW D \in Nat, NEW l \in 0 .. D, NEW m \in 0 .. l, NEW x \in Nat
  PROVE  Top(x, D, m) = Top(x, D, l) \div Pow2[l - m] /\ Top(x, D, l) \in Nat
<1>1. PICK a \in Nat : a = D - l
  OBVIOUS
<1>2. PICK b \in Nat : b = l - m
  OBVIOUS
<1>3. D - m = a + b
  BY <1>1, <1>2
<1>4. Pow2[a] \in Nat \ {0} /\ Pow2[b] \in Nat \ {0}
  BY Pow2Step
<1>5. Pow2[a + b] = Pow2[a] * Pow2[b]
  BY Pow2Sum
<1>6. (x \div Pow2[a]) \div Pow2[b] = x \div (Pow2[a] * Pow2[b])
  BY <1>4, DivDiv
<1>7. x \div Pow2[a] \in Nat
  BY <1>4
<1> QED
  BY <1>1, <1>2, <1>3, <1>5, <1>6, <1>7 DEF Top

\* Agreement on l bits is agreement on fewer.
LEMMA TopCoarse ==
  ASSUME NEW D \in Nat, NEW l \in 0 .. D, NEW m \in 0 .. l, NEW x \in Nat, NEW y \in Nat,
         Top(x, D, l) = Top(y, D, l)
  PROVE  Top(x, D, m) = Top(y, D, m)
<1>1. Top(x, D, m) = Top(x, D, l) \div Pow2[l - m]
  BY TopTop
<1>2. Top(y, D, m) = Top(y, D, l) \div Pow2[l - m]
  BY TopTop
<1> QED
  BY <1>1, <1>2

\* One more bit.
LEMMA TopHalf ==
  ASSUME NEW D \in Nat, NEW l \in 0 .. D - 1, NEW x \in Nat
  PROVE  /\ Top(x, D, l) \in Nat /\ Top(x, D, l + 1) \in Nat
         /\ Top(x, D, l + 1) \in {2 * Top(x, D, l), 2 * Top(x, D, l) + 1}
<1>1. l + 1 \in 0 .. D /\ l \in 0 .. l + 1 /\ (l + 1) - l = 1 /\ l \in 0 .. D
  OBVIOUS
<1>2. Pow2[1] = 2
  <2>1. Pow2[0 + 1] = 2 * Pow2[0] /\ Pow2[0] = 1
    BY Pow2Step
  <2> QED
    BY <2>1
<1>3. Top(x, D, l) = Top(x, D, l + 1) \div Pow2[(l + 1) - l] /\ Top(x, D, l + 1) \in Nat
  BY <1>1, TopTop
<1>4. PICK q \in Nat : q = Top(x, D, l + 1)
  BY <1>3
<1>5. Top(x, D, l) = q \div 2
  BY <1>1, <1>2, <1>3, <1>4
<1> QED
  BY <1>4, <1>5

\* The first l bits are an index of l bits.
LEMMA TopRange ==
  ASSUME NEW D \in Nat, NEW l \in 0 .. D, NEW x \in Ix(D)
  PROVE  Top(x, D, l) \in 0 .. Pow2[l] - 1
<1>1. D - l \in Nat /\ Pow2[D - l] \in Nat \ {0} /\ Pow2[l] \in Nat \ {0} /\ Pow2[D] \in Nat
  BY Pow2Step
<1>2. Pow2[D] = Pow2[l] * Pow2[D - l]
  BY Pow2Diff
<1>3. x \in Nat /\ x < Pow2[l] * Pow2[D - l]
  BY <1>1, <1>2 DEF Ix
<1>4. x \div Pow2[D - l] \in 0 .. Pow2[l] - 1
  BY <1>1, <1>3, DivBound
<1> QED
  BY <1>4 DEF Top

\* All the bits.
LEMMA TopSelf ==
  ASSUME NEW D \in Nat, NEW x \in Nat
  PROVE  Top(x, D, D) = x
BY Pow2Step DEF Top

\* Doubling a directory repeats every entry.
LEMMA TopDouble ==
  ASSUME NEW D \in Nat, NEW l \in 0 .. D, NEW x \in Nat
  PROVE  /\ x \div 2 \in Nat
         /\ Top(x \div 2, D, l) = Top(x, D + 1, l)
         /\ x \in Ix(D + 1) => x \div 2 \in Ix(D)
<1>1. D + 1 \in Nat /\ D \in 0 .. D + 1 /\ l \in 0 .. D + 1 /\ (D + 1) - D = 1
  OBVIOUS
<1>2. Pow2[1] = 2
  <2>1. Pow2[0 + 1] = 2 * Pow2[0] /\ Pow2[0] = 1
    BY Pow2Step
  <2> QED
    BY <2>1
<1>3. Top(x, D + 1, D) = x \div 2
  BY <1>1, <1>2 DEF Top
<1>4. Top(x, D + 1, l) = Top(x, D + 1, D) \div Pow2[D - l]
  BY <1>1, TopTop
<1>5. Top(x \div 2, D, l) = (x \div 2) \div Pow2[D - l]
  BY DEF Top
<1>6. x \in Ix(D + 1) => x \div 2 \in Ix(D)
  <2>1. Pow2[D + 1] = 2 * Pow2[D] /\ Pow2[D] \in Nat
    BY Pow2Step
  <2> QED
    BY <2>1 DEF Ix
<1> QED
  BY <1>3, <1>4, <1>5, <1>6

\* An aligned index starts its range.
LEMMA TopAligned ==
  ASSUME NEW D \in Nat, NEW l \in 0 .. D, NEW b \in Nat, (b % Pow2[D - l]) = 0
  PROVE  /\ b = Pow2[D - l] * Top(b, D, l)
         /\ l < D => Top(b, D, l + 1) = 2 * Top(b, D, l)
<1>1. PICK w \in Nat \ {0} : w = Pow2[D - l]
  BY Pow2Step
<1>2. PICK q \in Nat, r \in 0 .. w - 1 : b \div w = q /\ b % w = r /\ b = w * q + r
  BY DivMod
<1>3. b = w * q /\ Top(b, D, l) = q
  BY <1>1, <1>2 DEF Top
<1>4. ASSUME l < D PROVE Top(b, D, l + 1) = 2 * Top(b, D, l)
  <2>1. PICK v \in Nat \ {0} : v = Pow2[D - (l + 1)]
    BY <1>4, Pow2Step
  <2>2. D - (l + 1) \in Nat /\ (D - (l + 1)) + 1 = D - l
    BY <1>4
  <2>3. Pow2[(D - (l + 1)) + 1] = 2 * Pow2[D - (l + 1)]
    BY <2>2, Pow2Step
  <2>4. w = 2 * v
    BY <1>1, <2>1, <2>2, <2>3
  <2>5. b = v * (2 * q) + 0
    BY <1>3, <2>4
  <2>6. b \div v = 2 * q
    <3>1. 2 * q \in Int /\ 0 \in 0 .. v - 1
      OBVIOUS
    <3> QED
      BY <2>5, <3>1, DivModUnique
  <2> QED
    BY <1>3, <2>1, <2>6 DEF Top
<1> QED
  BY <1>1, <1>3, <1>4

\* The range of an aligned index is an interval.
LEMMA AlignedRange ==
  ASSUME NEW D \in Nat, NEW l \in 0 .. D, NEW b \in Nat, (b % Pow2[D - l]) = 0
  PROVE  \A x \in Nat : Top(x, D, l) = Top(b, D, l) <=> x \in b .. b + Pow2[D - l] - 1
<1>1. PICK w \in Nat \ {0} : w = Pow2[D - l]
  BY Pow2Step
<1>2. PICK q \in Nat : q = Top(b, D, l)
  BY TopTop
<1>3. b = w * q
  BY <1>1, <1>2, TopAligned
<1> SUFFICES ASSUME NEW x \in Nat PROVE Top(x, D, l) = q <=> x \in b .. b + w - 1
  BY <1>1, <1>2
<1>4. PICK p \in Nat, r \in 0 .. w - 1 : x \div w = p /\ x % w = r /\ x = w * p + r
  BY DivMod
<1>5. Top(x, D, l) = p
  BY <1>1, <1>4 DEF Top
<1>6. CASE p = q
  BY <1>3, <1>4, <1>5, <1>6
<1>7. CASE p > q
  <2>1. w * p >= w * (q + 1)
    BY <1>7
  <2>2. w * (q + 1) = w * q + w /\ w * p \in Nat /\ w * q \in Nat
    OBVIOUS
  <2> QED
    BY <1>3, <1>4, <1>5, <1>7, <2>1, <2>2
<1>8. CASE p < q
  <2>1. w * q >= w * (p + 1)
    BY <1>8
  <2>2. w * (p + 1) = w * p + w /\ w * p \in Nat /\ w * q \in Nat
    OBVIOUS
  <2> QED
    BY <1>3, <1>4, <1>5, <1>8, <2>1, <2>2
<1> QED
  BY <1>6, <1>7, <1>8

\* A hash value has HashBits bits.
LEMMA HashTyped ==
  ASSUME NEW k \in KeyWords
  PROVE  Hash[k] \in Ix(HashBits) /\ Hash[k] \in Nat
<1>1. Hash[k] \in 0 .. Pow2[HashBits] - 1
  BY RecoveryAssumption
<1> QED
  BY <1>1 DEF Ix

\* The prefix of a key is the first bits of its hash value.
LEMMA PrefixIs ==
  ASSUME NEW k \in KeyWords, NEW D \in 0 .. HashBits
  PROVE  Prefix(k, D) = Top(Hash[k], HashBits, D) /\ Prefix(k, D) \in Ix(D) /\ Prefix(k, D) \in Nat
<1>1. HashBits \in Nat
  BY RecoveryAssumption
<1>2. Top(Hash[k], HashBits, D) \in 0 .. Pow2[D] - 1
  BY <1>1, HashTyped, TopRange
<1> QED
  BY <1>2 DEF Prefix, Top, Ix

\* A shorter prefix is the first bits of a longer one.
LEMMA TopPrefix ==
  ASSUME NEW k \in KeyWords, NEW D \in 0 .. HashBits, NEW l \in 0 .. D
  PROVE  Top(Prefix(k, D), D, l) = Prefix(k, l)
<1>1. HashBits \in Nat /\ D \in Nat /\ l \in 0 .. HashBits
  BY RecoveryAssumption
<1>2. Top(Hash[k], HashBits, l) = Top(Hash[k], HashBits, D) \div Pow2[D - l]
  BY <1>1, HashTyped, TopTop
<1> QED
  BY <1>1, <1>2, PrefixIs DEF Top

\* One more bit of the prefix is the bit that Split tests.
LEMMA PrefixHalf ==
  ASSUME NEW k \in KeyWords, NEW l \in 0 .. HashBits - 1
  PROVE  /\ Prefix(k, l) \in Nat /\ Prefix(k, l + 1) \in Nat
         /\ Prefix(k, l + 1) = 2 * Prefix(k, l) + SplitBit(k, l)
         /\ SplitBit(k, l) \in {0, 1}
<1>1. HashBits \in Nat /\ l + 1 \in 0 .. HashBits /\ l \in 0 .. HashBits
  BY RecoveryAssumption
<1>2. Top(Hash[k], HashBits, l + 1) \in {2 * Top(Hash[k], HashBits, l), 2 * Top(Hash[k], HashBits, l) + 1}
  BY <1>1, TopHalf, HashTyped
<1>3. HashBits - l - 1 = HashBits - (l + 1)
  BY <1>1
<1>4. SplitBit(k, l) = Prefix(k, l + 1) % 2
  BY <1>3 DEF SplitBit, Prefix
<1>5. PICK p \in Nat : p = Prefix(k, l)
  BY <1>1, PrefixIs
<1>6. PICK q \in Nat : q = Prefix(k, l + 1)
  BY <1>1, PrefixIs
<1>7. q = 2 * p \/ q = 2 * p + 1
  BY <1>1, <1>2, <1>5, <1>6, PrefixIs
<1> QED
  BY <1>4, <1>5, <1>6, <1>7

\* The entries a split redirects.
LEMMA UpperHalfIs ==
  ASSUME NEW k \in KeyWords, NEW D \in 0 .. HashBits, NEW l \in 0 .. D - 1, NEW y \in Nat
  PROVE  y \in UpperHalf(k, D, l) <=> Top(y, D, l + 1) = 2 * Prefix(k, l) + 1
<1>1. HashBits \in Nat /\ D \in Nat /\ l \in 0 .. D /\ l \in Nat /\ D - (l + 1) \in Nat
  BY RecoveryAssumption
<1>2. PICK v \in Nat \ {0} : v = Pow2[D - (l + 1)]
  BY <1>1, Pow2Step
<1>3. PICK w \in Nat \ {0} : w = Pow2[D - l]
  BY <1>1, Pow2Step
<1>4. w = 2 * v
  <2>1. (D - (l + 1)) + 1 = D - l
    BY <1>1
  <2>2. Pow2[(D - (l + 1)) + 1] = 2 * Pow2[D - (l + 1)]
    BY <1>1, Pow2Step
  <2> QED
    BY <1>2, <1>3, <2>1, <2>2
<1>5. PICK x \in Nat : x = Prefix(k, D)
  BY PrefixIs
<1>6. PICK q \in Nat, r \in 0 .. w - 1 : x \div w = q /\ x % w = r /\ x = w * q + r
  BY DivMod
<1>7. Prefix(k, l) = q
  BY <1>1, <1>3, <1>5, <1>6, TopPrefix DEF Top
<1>8. UpperHalf(k, D, l) = w * q + v .. w * q + w - 1
  <2>1. w \div 2 = v
    BY <1>4
  <2>2. x - r = w * q
    BY <1>6
  <2> QED
    BY <1>3, <1>5, <1>6, <2>1, <2>2 DEF UpperHalf
<1>9. PICK p \in Nat, j \in 0 .. v - 1 : y \div v = p /\ y % v = j /\ y = v * p + j
  BY DivMod
<1>10. w * q = v * (2 * q)
  BY <1>4
<1>11. PICK n \in Nat : n = 2 * q + 1
  OBVIOUS
<1>12. UpperHalf(k, D, l) = v * n .. v * n + v - 1
  <2>1. v * n = v * (2 * q) + v
    BY <1>11
  <2> QED
    BY <1>4, <1>8, <1>10, <2>1
<1>13. Top(y, D, l + 1) = p
  BY <1>2, <1>9 DEF Top
<1>14. (y >= v * n /\ y <= v * n + v - 1) <=> p = n
  <2>1. CASE p = n
    BY <1>9, <2>1
  <2>2. CASE p > n
    <3>1. v * p >= v * (n + 1)
      BY <2>2
    <3> QED
      BY <1>9, <2>2, <3>1
  <2>3. CASE p < n
    <3>1. v * n >= v * (p + 1)
      BY <2>3
    <3> QED
      BY <1>9, <2>3, <3>1
  <2> QED
    BY <2>1, <2>2, <2>3
<1>15. v * n \in Nat
  OBVIOUS
<1> QED
  BY <1>7, <1>11, <1>12, <1>13, <1>14, <1>15

-----------------------------------------------------------------------------
(* Directories: seg is the array, L the local depths, D the depth           *)

DirOK(seg, L, D) ==
  /\ D \in InitDepth .. HashBits
  /\ L \in [DOMAIN L -> InitDepth .. HashBits]
  /\ seg \in [Ix(D) -> DOMAIN L]
  /\ \A x \in Ix(D) : L[seg[x]] <= D

\* Entry x lies in the range that the depth of the segment at b gives to b.
InGroup(b, x, seg, L, D) == Top(x, D, L[seg[b]]) = Top(b, D, L[seg[b]])

\* What entry x of the group of b may hold: the segment of b or, in the upper
\* half, a deeper one.
Fits(B, seg, L, D, x, g) ==
  \E b \in B :
    /\ InGroup(b, x, seg, L, D)
    /\ \/ g = seg[b]
       \/ /\ L[seg[b]] < L[g]
          /\ Top(x, D, L[seg[b]] + 1) # Top(b, D, L[seg[b]] + 1)

\* B has the first entry of every group of a directory that a power failure
\* may have left in the middle of a split: the entries Recovery stops at.
Leaders(B, seg, L, D) ==
  /\ B \in SUBSET Ix(D)
  /\ \A b \in B : (b % Pow2[D - L[seg[b]]]) = 0
  /\ \A b, c \in B : InGroup(b, c, seg, L, D) => b = c
  /\ \A x \in Ix(D) : Fits(B, seg, L, D, x, seg[x])

\* What SMT needs to know of the sets involved.
LEMMA DirTypes ==
  ASSUME NEW seg, NEW L, NEW D, DirOK(seg, L, D)
  PROVE  /\ D \in Nat /\ D \in 1 .. HashBits /\ HashBits \in Nat /\ InitDepth \in Nat
         /\ \A x \in Ix(D) : /\ x \in Nat /\ seg[x] \in DOMAIN L
                             /\ L[seg[x]] \in Nat /\ L[seg[x]] \in 0 .. D
                             /\ L[seg[x]] \in InitDepth .. D
         /\ \A g \in DOMAIN L : L[g] \in Nat /\ L[g] \in InitDepth .. HashBits
<1>1. HashBits \in Nat /\ InitDepth \in 1 .. HashBits
  BY RecoveryAssumption
<1>2. D \in Nat /\ D \in 1 .. HashBits /\ InitDepth \in Nat
  BY <1>1 DEF DirOK
<1>3. \A g \in DOMAIN L : L[g] \in InitDepth .. HashBits
  BY DEF DirOK
<1>4. \A x \in Ix(D) : x \in Nat /\ seg[x] \in DOMAIN L /\ L[seg[x]] <= D
  BY DEF DirOK, Ix
<1> QED
  BY <1>1, <1>2, <1>3, <1>4

\* Two groups that share an entry are one.
LEMMA LeaderUnique ==
  ASSUME NEW seg, NEW L, NEW D, DirOK(seg, L, D),
         NEW B, Leaders(B, seg, L, D), NEW b \in B, NEW c \in B, NEW x \in Ix(D),
         InGroup(b, x, seg, L, D), InGroup(c, x, seg, L, D)
  PROVE  b = c
<1>1. b \in Ix(D) /\ c \in Ix(D)
  BY DEF Leaders
<1>2. PICK i \in 0 .. D : i = L[seg[b]]
  BY <1>1, DirTypes
<1>3. PICK j \in 0 .. D : j = L[seg[c]]
  BY <1>1, DirTypes
<1>4. Top(x, D, i) = Top(b, D, i) /\ Top(x, D, j) = Top(c, D, j)
  BY <1>2, <1>3 DEF InGroup
<1>5. D \in Nat /\ b \in Nat /\ c \in Nat /\ x \in Nat
  BY <1>1, DirTypes
<1>6. CASE i <= j
  <2>1. i \in 0 .. j
    BY <1>6
  <2>2. Top(x, D, i) = Top(c, D, i)
    BY <1>4, <1>5, <2>1, TopCoarse
  <2> QED
    BY <1>2, <1>4, <2>2 DEF Leaders, InGroup
<1>7. CASE j <= i
  <2>1. j \in 0 .. i
    BY <1>7
  <2>2. Top(x, D, j) = Top(b, D, j)
    BY <1>4, <1>5, <2>1, TopCoarse
  <2> QED
    BY <1>3, <1>4, <2>2 DEF Leaders, InGroup
<1> QED
  BY <1>6, <1>7

\* Entries may change to anything that fits; the leaders stay.
LEMMA LeadersChange ==
  ASSUME NEW seg, NEW L, NEW D, DirOK(seg, L, D),
         NEW B, Leaders(B, seg, L, D), NEW new,
         \A x \in Ix(D) : new[x] = seg[x] \/ Fits(B, seg, L, D, x, new[x])
  PROVE  Leaders(B, new, L, D) /\ \A b \in B : new[b] = seg[b]
<1>1. ASSUME NEW b \in B PROVE new[b] = seg[b]
  <2>1. b \in Ix(D)
    BY DEF Leaders
  <2>2. CASE Fits(B, seg, L, D, b, new[b])
    <3>1. PICK c \in B : /\ InGroup(c, b, seg, L, D)
                         /\ \/ new[b] = seg[c]
                            \/ Top(b, D, L[seg[c]] + 1) # Top(c, D, L[seg[c]] + 1)
      BY <2>2 DEF Fits
    <3>2. c = b
      BY <3>1 DEF Leaders
    <3> QED
      BY <3>1, <3>2
  <2> QED
    BY <2>1, <2>2
<1>2. \A b \in B : \A x : InGroup(b, x, new, L, D) <=> InGroup(b, x, seg, L, D)
  BY <1>1 DEF InGroup
<1>3. \A x, g : Fits(B, new, L, D, x, g) <=> Fits(B, seg, L, D, x, g)
  BY <1>1, <1>2 DEF Fits
<1>4. \A x \in Ix(D) : Fits(B, seg, L, D, x, seg[x])
  BY DEF Leaders
<1>5. \A x \in Ix(D) : Fits(B, new, L, D, x, new[x])
  BY <1>3, <1>4
<1>6. B \in SUBSET Ix(D) /\ \A b \in B : (b % Pow2[D - L[new[b]]]) = 0
  BY <1>1 DEF Leaders
<1>7. \A b, c \in B : InGroup(b, c, new, L, D) => b = c
  BY <1>2 DEF Leaders
<1> QED
  BY <1>1, <1>5, <1>6, <1>7 DEF Leaders

\* Only the depths of the segments in the directory matter.
LEMMA LeadersDepths ==
  ASSUME NEW seg, NEW L, NEW K, NEW D, NEW B, Leaders(B, seg, L, D),
         \A x \in Ix(D) : K[seg[x]] = L[seg[x]]
  PROVE  Leaders(B, seg, K, D)
<1>1. \A b \in B : K[seg[b]] = L[seg[b]] /\ b \in Ix(D)
  BY DEF Leaders
<1>2. \A b \in B : \A x : InGroup(b, x, seg, K, D) <=> InGroup(b, x, seg, L, D)
  BY <1>1 DEF InGroup
<1>3. \A x \in Ix(D) : Fits(B, seg, L, D, x, seg[x]) => Fits(B, seg, K, D, x, seg[x])
  BY <1>1, <1>2 DEF Fits
<1>4. \A b \in B : (b % Pow2[D - K[seg[b]]]) = 0
  BY <1>1 DEF Leaders
<1> QED
  BY <1>2, <1>3, <1>4 DEF Leaders

\* The walk of Recovery: from a leader to the next.
LEMMA LeaderNext ==
  ASSUME NEW seg, NEW L, NEW D, DirOK(seg, L, D),
         NEW B, Leaders(B, seg, L, D), NEW b \in B
  PROVE  LET w == Pow2[D - L[seg[b]]]
         IN  /\ w \in Nat \ {0} /\ b + w <= Pow2[D] /\ (b + w # Pow2[D] => b + w \in B)
             /\ \A x \in Ix(D) : InGroup(b, x, seg, L, D) <=> x \in b .. b + w - 1
<1>1. b \in Ix(D) /\ b \in Nat /\ D \in Nat
  BY DirTypes DEF Leaders
<1>2. PICK l \in 0 .. D : l = L[seg[b]]
  BY <1>1, DirTypes
<1>3. PICK w \in Nat \ {0} : w = Pow2[D - l]
  BY <1>1, Pow2Step
<1>4. PICK q \in Nat : q = Top(b, D, l)
  BY <1>1, TopTop
<1>5. b = w * q
  <2>1. (b % Pow2[D - l]) = 0
    BY <1>2 DEF Leaders
  <2> QED
    BY <1>1, <1>3, <1>4, <2>1, TopAligned
<1>6. \A x \in Nat : Top(x, D, l) = q <=> x \in b .. b + w - 1
  <2>1. (b % Pow2[D - l]) = 0
    BY <1>2 DEF Leaders
  <2> QED
    BY <1>1, <1>3, <1>4, <2>1, AlignedRange
<1>7. \A x \in Ix(D) : InGroup(b, x, seg, L, D) <=> x \in b .. b + w - 1
  BY <1>2, <1>4, <1>6 DEF InGroup, Ix
<1>8. b + w <= Pow2[D]
  <2>1. q \in 0 .. Pow2[l] - 1
    BY <1>1, <1>4, TopRange
  <2>2. Pow2[D] = Pow2[l] * w /\ Pow2[l] \in Nat
    <3>1. l \in Nat /\ l <= D
      BY <1>1
    <3>2. Pow2[D] = Pow2[l] * Pow2[D - l]
      BY <1>1, <3>1, Pow2Diff
    <3> QED
      BY <1>3, <3>1, <3>2, Pow2Step
  <2>3. w * (q + 1) <= w * Pow2[l]
    BY <2>1, <2>2
  <2> QED
    BY <1>5, <2>2, <2>3
<1>9. ASSUME b + w # Pow2[D] PROVE b + w \in B
  <2>1. b + w \in Ix(D)
    <3>1. PICK n \in Nat : n = Pow2[D]
      BY <1>1, Pow2Step
    <3> QED
      BY <1>1, <1>8, <1>9, <3>1 DEF Ix
  <2>2. PICK c \in B : InGroup(c, b + w, seg, L, D)
    BY <2>1 DEF Leaders, Fits
  <2>3. c \in Ix(D) /\ c \in Nat
    BY DirTypes DEF Leaders
  <2>4. PICK m \in 0 .. D : m = L[seg[c]]
    BY <2>3, DirTypes
  <2>5. PICK v \in Nat \ {0} : v = Pow2[D - m]
    BY <1>1, Pow2Step
  <2>6. PICK p \in Nat : p = Top(c, D, m)
    BY <1>1, <2>3, TopTop
  <2>8. \A x \in Nat : Top(x, D, m) = p <=> x \in c .. c + v - 1
    <3>1. (c % Pow2[D - m]) = 0
      BY <2>4 DEF Leaders
    <3> QED
      BY <1>1, <2>3, <2>5, <2>6, <3>1, AlignedRange
  <2>9. c <= b + w /\ b + w <= c + v - 1
    BY <1>1, <2>2, <2>3, <2>4, <2>6, <2>8 DEF InGroup
  <2>10. c # b
    <3>1. SUFFICES ASSUME c = b PROVE FALSE
      OBVIOUS
    <3>2. m = l
      BY <1>2, <2>4, <3>1
    <3> QED
      BY <1>3, <2>5, <2>9, <3>1, <3>2, <1>1
  <2>11. ~(c < b)
    <3>1. SUFFICES ASSUME c < b PROVE FALSE
      OBVIOUS
    <3>2. b \in c .. c + v - 1
      BY <1>1, <2>3, <2>9, <3>1
    <3>3. InGroup(c, b, seg, L, D)
      BY <1>1, <2>4, <2>6, <2>8, <3>2 DEF InGroup
    <3> QED
      BY <2>10, <3>3 DEF Leaders
  <2>12. ~(c < b + w)
    <3>1. SUFFICES ASSUME c < b + w PROVE FALSE
      OBVIOUS
    <3>2. c \in b .. b + w - 1
      BY <1>1, <2>3, <2>11, <3>1
    <3>3. InGroup(b, c, seg, L, D)
      BY <1>7, <2>3, <3>2
    <3> QED
      BY <2>10, <3>3 DEF Leaders
  <2>13. c = b + w
    BY <1>1, <2>3, <2>9, <2>12
  <2> QED
    BY <2>13
<1> QED
  BY <1>2, <1>3, <1>7, <1>8, <1>9

\* Recovery starts at a leader.
LEMMA LeaderZero ==
  ASSUME NEW seg, NEW L, NEW D, DirOK(seg, L, D), NEW B, Leaders(B, seg, L, D)
  PROVE  0 \in B
<1>1. 0 \in Ix(D)
  BY DirTypes, Pow2Step DEF Ix
<1>2. PICK b \in B : InGroup(b, 0, seg, L, D)
  BY <1>1 DEF Leaders, Fits
<1>3. b \in Nat
  BY DirTypes DEF Leaders
<1>4. PICK w \in Nat \ {0} : w = Pow2[D - L[seg[b]]]
  BY LeaderNext
<1>5. 0 \in b .. b + w - 1
  BY <1>1, <1>2, <1>4, LeaderNext
<1> QED
  BY <1>3, <1>5

\* Doubling: every leader moves to twice its index.
LEMMA LeadersDouble ==
  ASSUME NEW seg, NEW L, NEW D, DirOK(seg, L, D), D < HashBits,
         NEW B, Leaders(B, seg, L, D),
         NEW x \in Ix(D), L[seg[x]] = D, NEW s \in DOMAIN L, L[s] = D + 1,
         NEW new, \A n \in Ix(D + 1) : new[n] = IF n = 2 * x + 1 THEN s ELSE seg[n \div 2],
         NEW C, C = {n \in Ix(D + 1) : \E b \in B : n = 2 * b}
  PROVE  Leaders(C, new, L, D + 1)
<1>1. D \in Nat /\ D + 1 \in Nat /\ x \in Nat
  BY DirTypes
<1>2. \A b \in B : b \in Ix(D) /\ b \in Nat /\ 2 * b \in Ix(D + 1) /\ (2 * b) \div 2 = b
  <2>1. Pow2[D + 1] = 2 * Pow2[D] /\ Pow2[D] \in Nat
    BY <1>1, Pow2Step
  <2>2. \A b \in B : b \in Ix(D) /\ b \in Nat
    BY DirTypes DEF Leaders
  <2> QED
    BY <2>1, <2>2 DEF Ix
<1>3. ASSUME NEW b \in B PROVE new[2 * b] = seg[b] /\ 2 * b \in C
  <2>1. 2 * b # 2 * x + 1
    BY <1>1, <1>2
  <2> QED
    BY <1>2, <2>1
<1>4. \A n \in Ix(D + 1) : n \in Nat /\ n \div 2 \in Ix(D) /\ n \div 2 \in Nat
  <2>1. \A n \in Ix(D + 1) : n \in Nat
    BY DEF Ix
  <2> QED
    BY <1>1, <2>1, TopDouble
<1>5. ASSUME NEW b \in B, NEW n \in Ix(D + 1)
      PROVE  InGroup(2 * b, n, new, L, D + 1) <=> InGroup(b, n \div 2, seg, L, D)
  <2>1. PICK l \in 0 .. D : l = L[seg[b]] /\ l = L[new[2 * b]]
    BY <1>2, <1>3, DirTypes
  <2>2. Top(n, D + 1, l) = Top(n \div 2, D, l)
    BY <1>1, <1>4, TopDouble
  <2>3. 2 * b \in Nat
    BY <1>2
  <2>4. Top(2 * b, D + 1, l) = Top((2 * b) \div 2, D, l)
    BY <1>1, <2>3, TopDouble
  <2> QED
    BY <1>2, <2>1, <2>2, <2>4 DEF InGroup
<1>6. \A c \in C : (c % Pow2[(D + 1) - L[new[c]]]) = 0
  <2> SUFFICES ASSUME NEW c \in C PROVE (c % Pow2[(D + 1) - L[new[c]]]) = 0
    OBVIOUS
  <2>1. PICK b \in B : c = 2 * b
    OBVIOUS
  <2>2. PICK l \in 0 .. D : l = L[seg[b]] /\ l = L[new[c]]
    BY <1>2, <1>3, <2>1, DirTypes
  <2>3. D - l \in Nat /\ (D + 1) - l = (D - l) + 1
    BY <1>1
  <2>4. PICK w \in Nat \ {0} : w = Pow2[D - l]
    BY <2>3, Pow2Step
  <2>5. Pow2[(D - l) + 1] = 2 * w
    BY <2>3, <2>4, Pow2Step
  <2>6. (b % w) = 0
    BY <2>2, <2>4 DEF Leaders
  <2>7. PICK q \in Nat, r \in 0 .. w - 1 : b \div w = q /\ b % w = r /\ b = w * q + r
    BY <1>2, DivMod
  <2>8. b = w * q
    BY <2>6, <2>7
  <2>9. PICK v \in Nat \ {0} : v = 2 * w
    OBVIOUS
  <2>10. c = v * q + 0
    BY <2>1, <2>8, <2>9
  <2>11. (c % v) = 0
    <3>1. c \in Nat /\ 0 \in 0 .. v - 1 /\ q \in Int
      BY <1>2, <2>1
    <3> QED
      BY <2>10, <3>1, DivModUnique
  <2> QED
    BY <2>2, <2>3, <2>5, <2>9, <2>11
<1>7. \A b, c \in C : InGroup(b, c, new, L, D + 1) => b = c
  <2> SUFFICES ASSUME NEW b \in C, NEW c \in C, InGroup(b, c, new, L, D + 1) PROVE b = c
    OBVIOUS
  <2>1. PICK i \in B : b = 2 * i
    OBVIOUS
  <2>2. PICK j \in B : c = 2 * j
    OBVIOUS
  <2>3. InGroup(i, j, seg, L, D)
    BY <1>2, <1>5, <2>1, <2>2
  <2> QED
    BY <2>1, <2>2, <2>3 DEF Leaders
<1>8. \A n \in Ix(D + 1) : Fits(C, new, L, D + 1, n, new[n])
  <2> SUFFICES ASSUME NEW n \in Ix(D + 1) PROVE Fits(C, new, L, D + 1, n, new[n])
    OBVIOUS
  <2>1. PICK y \in Ix(D) : y = n \div 2 /\ y \in Nat
    BY <1>4
  <2>2. PICK b \in B : /\ InGroup(b, y, seg, L, D)
                       /\ \/ seg[y] = seg[b]
                          \/ /\ L[seg[b]] < L[seg[y]]
                             /\ Top(y, D, L[seg[b]] + 1) # Top(b, D, L[seg[b]] + 1)
    BY DEF Leaders, Fits
  <2>3. InGroup(2 * b, n, new, L, D + 1) /\ new[2 * b] = seg[b] /\ 2 * b \in C
    BY <1>3, <1>5, <2>1, <2>2
  <2>4. PICK l \in 0 .. D : l = L[seg[b]] /\ l = L[new[2 * b]]
    BY <1>2, <2>3, DirTypes
  <2>5. L[seg[y]] \in 0 .. D
    BY DirTypes
  <2>6. ASSUME l < D
        PROVE  /\ Top(n, D + 1, l + 1) = Top(y, D, l + 1)
               /\ Top(2 * b, D + 1, l + 1) = Top(b, D, l + 1)
    <3>1. l + 1 \in 0 .. D /\ n \in Nat /\ 2 * b \in Nat
      BY <1>1, <1>2, <1>4, <2>6
    <3>2. Top(n \div 2, D, l + 1) = Top(n, D + 1, l + 1)
      BY <1>1, <3>1, TopDouble
    <3>3. Top((2 * b) \div 2, D, l + 1) = Top(2 * b, D + 1, l + 1)
      BY <1>1, <3>1, TopDouble
    <3> QED
      BY <1>2, <2>1, <3>2, <3>3
  <2>7. CASE n # 2 * x + 1
    <3>1. new[n] = seg[y]
      BY <2>1, <2>7
    <3>2. CASE seg[y] = seg[b]
      BY <2>3, <3>1, <3>2 DEF Fits
    <3>3. CASE L[seg[b]] < L[seg[y]] /\ Top(y, D, L[seg[b]] + 1) # Top(b, D, L[seg[b]] + 1)
      <4>1. l < D
        BY <1>1, <2>4, <2>5, <3>3
      <4>2. Top(n, D + 1, l + 1) # Top(2 * b, D + 1, l + 1)
        BY <2>4, <2>6, <3>3, <4>1
      <4> QED
        BY <2>3, <2>4, <3>1, <3>3, <4>2 DEF Fits
    <3> QED
      BY <2>2, <3>2, <3>3
  <2>8. CASE n = 2 * x + 1
    <3>1. new[n] = s /\ y = x
      BY <1>1, <2>1, <2>8
    <3>2. L[new[2 * b]] < L[new[n]]
      BY <1>1, <2>4, <3>1
    <3>3. Top(n, D + 1, l + 1) # Top(2 * b, D + 1, l + 1)
      <4>1. CASE l < D
        <5>1. L[seg[y]] = D
          BY <3>1
        <5>2. Top(y, D, l + 1) # Top(b, D, l + 1)
          <6>0. l # D
            BY <1>1, <4>1
          <6>1. seg[y] # seg[b]
            BY <2>4, <5>1, <6>0, Zenon
          <6> QED
            BY <2>2, <2>4, <6>1
        <5> QED
          BY <2>6, <4>1, <5>2
      <4>2. CASE l = D
        <5>1. Top(y, D, D) = Top(b, D, D)
          BY <2>2, <2>4, <4>2 DEF InGroup
        <5>2. y = b
          BY <1>1, <1>2, <2>1, <5>1, TopSelf
        <5>3. Top(n, D + 1, D + 1) = n /\ Top(2 * b, D + 1, D + 1) = 2 * b
          <6>1. n \in Nat /\ 2 * b \in Nat
            BY <1>2, <1>4
          <6> QED
            BY <1>1, <6>1, TopSelf
        <5> QED
          BY <1>1, <1>2, <2>8, <3>1, <4>2, <5>2, <5>3
      <4> QED
        BY <1>1, <4>1, <4>2
    <3> QED
      BY <2>3, <2>4, <3>2, <3>3 DEF Fits
  <2> QED
    BY <2>7, <2>8
<1>9. C \in SUBSET Ix(D + 1)
  OBVIOUS
<1> QED
  BY <1>6, <1>7, <1>8, <1>9 DEF Leaders

\* The middle of a group.
LEMMA MidEntry ==
  ASSUME NEW D \in Nat, NEW l \in 0 .. D - 1, NEW p \in 0 .. Pow2[l] - 1
  PROVE  \E m \in Ix(D) : (m % Pow2[D - (l + 1)]) = 0 /\ Top(m, D, l + 1) = 2 * p + 1
<1>1. l \in Nat /\ l + 1 \in Nat /\ l + 1 <= D /\ D - (l + 1) \in Nat
  OBVIOUS
<1>2. PICK v \in Nat \ {0} : v = Pow2[D - (l + 1)]
  BY <1>1, Pow2Step
<1>3. PICK n \in Nat : n = 2 * p + 1
  OBVIOUS
<1>4. PICK c \in Nat : c = Pow2[l + 1]
  BY <1>1, Pow2Step
<1>5. n <= c - 1
  <2>1. c = 2 * Pow2[l] /\ Pow2[l] \in Nat
    BY <1>1, <1>4, Pow2Step
  <2> QED
    BY <1>3, <2>1
<1>6. Pow2[D] = c * v
  BY <1>1, <1>2, <1>4, Pow2Diff
<1>7. PICK m \in Nat : m = v * n + 0
  OBVIOUS
<1>8. m \in Ix(D)
  <2>1. v * (n + 1) <= v * c
    BY <1>5
  <2>2. v * (n + 1) = v * n + v /\ v * c = c * v /\ v * n \in Nat /\ v * c \in Nat
    OBVIOUS
  <2> QED
    BY <1>6, <1>7, <2>1, <2>2 DEF Ix
<1>9. m \div v = n /\ (m % v) = 0
  <2>1. n \in Int /\ 0 \in 0 .. v - 1
    OBVIOUS
  <2> QED
    BY <1>7, <2>1, DivModUnique
<1> QED
  BY <1>2, <1>3, <1>8, <1>9 DEF Top

\* The depth of g is raised once its upper half leads to s: the middle of its
\* group becomes a leader.
LEMMA LeadersRaise ==
  ASSUME NEW seg, NEW L, NEW D, DirOK(seg, L, D),
         NEW B, Leaders(B, seg, L, D),
         NEW g \in DOMAIN L, NEW s \in DOMAIN L, NEW p \in Nat,
         L[g] < D, L[s] = L[g] + 1,
         \A x \in Ix(D) : Top(x, D, L[g] + 1) = 2 * p + 1 => seg[x] = s,
         \A x \in Ix(D) : seg[x] = g => Top(x, D, L[g]) = p,
         NEW K, K = [L EXCEPT ![g] = L[g] + 1]
  PROVE  \E C : Leaders(C, seg, K, D)
<1>0. D \in Nat /\ L[g] \in Nat
  BY DirTypes
<1>1. PICK l \in 0 .. D - 1 : l = L[g]
  BY <1>0
<1>2. K[g] = l + 1 /\ \A h \in DOMAIN L : h # g => K[h] = L[h]
  BY <1>1
<1>3. s # g
  BY <1>0
<1>4. K[s] = l + 1
  BY <1>1, <1>2, <1>3
<1>5. \A b \in B : b \in Ix(D) /\ b \in Nat /\ seg[b] \in DOMAIN L /\ L[seg[b]] \in 0 .. D
  BY DirTypes DEF Leaders
<1>6. \A x \in Ix(D) : seg[x] \in DOMAIN L /\ L[seg[x]] \in 0 .. D /\ K[seg[x]] \in Nat /\ K[seg[x]] >= L[seg[x]]
  BY <1>1, <1>2, DirTypes
<1>7. ASSUME NEW b \in B, NEW x \in Ix(D), InGroup(b, x, seg, K, D)
      PROVE  InGroup(b, x, seg, L, D)
  <2>1. CASE seg[b] = g
    <3>1. Top(x, D, l + 1) = Top(b, D, l + 1)
      BY <1>2, <1>7, <2>1 DEF InGroup
    <3>2. l + 1 \in 0 .. D /\ l \in 0 .. l + 1 /\ x \in Nat /\ b \in Nat
      BY <1>5, DirTypes
    <3>3. Top(x, D, l) = Top(b, D, l)
      BY <1>0, <3>1, <3>2, TopCoarse
    <3> QED
      BY <1>1, <2>1, <3>3 DEF InGroup
  <2>2. CASE seg[b] # g
    BY <1>2, <1>5, <1>7, <2>2 DEF InGroup
  <2> QED
    BY <2>1, <2>2
<1>8. CASE \A b \in B : seg[b] # g
  <2>1. \A b \in B : K[seg[b]] = L[seg[b]]
    BY <1>2, <1>5, <1>8
  <2>2. \A b \in B : \A x : InGroup(b, x, seg, K, D) <=> InGroup(b, x, seg, L, D)
    BY <2>1 DEF InGroup
  <2>3. \A x \in Ix(D) : Fits(B, seg, K, D, x, seg[x])
    <3> SUFFICES ASSUME NEW x \in Ix(D) PROVE Fits(B, seg, K, D, x, seg[x])
      OBVIOUS
    <3>1. PICK b \in B : /\ InGroup(b, x, seg, L, D)
                         /\ \/ seg[x] = seg[b]
                            \/ /\ L[seg[b]] < L[seg[x]]
                               /\ Top(x, D, L[seg[b]] + 1) # Top(b, D, L[seg[b]] + 1)
      BY DEF Leaders, Fits
    <3>2. L[seg[b]] < L[seg[x]] => K[seg[b]] < K[seg[x]]
      <4>1. L[seg[b]] \in Nat /\ L[seg[x]] \in Nat
        BY <1>5, <1>6
      <4> QED
        BY <1>6, <2>1, <4>1
    <3> QED
      BY <2>1, <2>2, <3>1, <3>2 DEF Fits
  <2>4. B \in SUBSET Ix(D) /\ \A b \in B : (b % Pow2[D - K[seg[b]]]) = 0
    BY <2>1 DEF Leaders
  <2>5. \A b, c \in B : InGroup(b, c, seg, K, D) => b = c
    BY <2>2 DEF Leaders
  <2>6. Leaders(B, seg, K, D)
    BY <2>3, <2>4, <2>5 DEF Leaders
  <2> QED
    BY <2>6
<1>9. CASE \E b \in B : seg[b] = g
  <2>1. PICK b \in B : seg[b] = g
    BY <1>9
  <2>2. b \in Ix(D) /\ b \in Nat /\ Top(b, D, l) = p
    BY <1>1, <1>5, <2>1
  <2>3. p \in 0 .. Pow2[l] - 1
    <3>1. l \in 0 .. D
      BY <1>0
    <3> QED
      BY <1>0, <2>2, <3>1, TopRange
  <2>4. PICK m \in Ix(D) : (m % Pow2[D - (l + 1)]) = 0 /\ Top(m, D, l + 1) = 2 * p + 1
    BY <1>0, <2>3, MidEntry
  <2>5. seg[m] = s
    BY <1>1, <2>4
  <2>6. \A c \in B : seg[c] = g => c = b
    BY <1>1, <1>5, <2>1, <2>2 DEF Leaders, InGroup
  <2>7. Top(b, D, l + 1) = 2 * p
    <3>1. (b % Pow2[D - l]) = 0
      BY <1>1, <2>1 DEF Leaders
    <3>2. l \in 0 .. D /\ l < D
      BY <1>0
    <3> QED
      BY <1>0, <2>2, <3>1, <3>2, TopAligned
  <2>8. \A x \in Ix(D) : (Top(x, D, l) = p) => Top(x, D, l + 1) \in {2 * p, 2 * p + 1}
    BY <1>0, DirTypes, TopHalf
  <2>9. \A x \in Ix(D) : (Top(x, D, l + 1) \in {2 * p, 2 * p + 1}) => Top(x, D, l) = p
    <3> SUFFICES ASSUME NEW x \in Ix(D), Top(x, D, l + 1) \in {2 * p, 2 * p + 1} PROVE Top(x, D, l) = p
      OBVIOUS
    <3>1. PICK q \in Nat : q = Top(x, D, l)
      BY <1>0, DirTypes, TopHalf
    <3>2. Top(x, D, l + 1) \in {2 * q, 2 * q + 1}
      BY <1>0, <3>1, DirTypes, TopHalf
    <3> QED
      BY <3>1, <3>2
  <2> DEFINE C == B \cup {m}
  <2>10. C \in SUBSET Ix(D)
    BY <1>5
  <2>11. ASSUME NEW c \in C PROVE (c % Pow2[D - K[seg[c]]]) = 0
    <3>1. CASE c = m
      BY <1>4, <2>4, <2>5, <3>1
    <3>2. CASE c = b
      <4>1. PICK v \in Nat \ {0} : v = Pow2[D - (l + 1)]
        BY <1>0, Pow2Step
      <4>2. D - (l + 1) \in Nat /\ (D - (l + 1)) + 1 = D - l
        BY <1>0
      <4>3. Pow2[D - l] = 2 * v
        BY <4>1, <4>2, Pow2Step
      <4>4. (b % Pow2[D - l]) = 0
        BY <1>1, <2>1 DEF Leaders
      <4>5. b = Pow2[D - l] * p
        <5>1. l \in 0 .. D
          BY <1>0
        <5> QED
          BY <1>0, <2>2, <4>4, <5>1, TopAligned
      <4>6. b = v * (2 * p) + 0
        BY <4>3, <4>5
      <4>7. (b % v) = 0
        <5>1. 2 * p \in Int /\ 0 \in 0 .. v - 1
          OBVIOUS
        <5> QED
          BY <2>2, <4>6, <5>1, DivModUnique
      <4> QED
        BY <1>2, <2>1, <3>2, <4>1, <4>7
    <3>3. CASE c \in B /\ c # b
      <4>1. K[seg[c]] = L[seg[c]]
        BY <1>2, <1>5, <2>6, <3>3
      <4> QED
        BY <3>3, <4>1 DEF Leaders
    <3> QED
      BY <3>1, <3>2, <3>3
  <2>12. ASSUME NEW c \in C, NEW d \in C, InGroup(c, d, seg, K, D) PROVE c = d
    <3>1. CASE c \in B /\ d \in B
      BY <1>5, <1>7, <2>12, <3>1 DEF Leaders
    <3>2. CASE c = m /\ d \in B
      <4>1. Top(d, D, l + 1) = 2 * p + 1
        BY <1>4, <2>4, <2>5, <2>12, <3>2 DEF InGroup
      <4>2. Top(d, D, l) = p
        BY <1>5, <2>9, <3>2, <4>1
      <4>3. InGroup(b, d, seg, L, D)
        BY <1>1, <2>1, <2>2, <4>2 DEF InGroup
      <4>4. d = b
        BY <3>2, <4>3 DEF Leaders
      <4> QED
        BY <2>7, <4>1, <4>4
    <3>3. CASE c \in B /\ d = m
      <4>1. InGroup(c, m, seg, L, D)
        BY <1>7, <2>12, <3>3
      <4>2. Top(m, D, l) = p
        BY <2>4, <2>9
      <4>3. InGroup(b, m, seg, L, D)
        BY <1>1, <2>1, <2>2, <4>2 DEF InGroup
      <4>4. c = b
        BY <3>3, <4>1, <4>3, LeaderUnique
      <4>5. Top(m, D, l + 1) = Top(b, D, l + 1)
        BY <1>2, <2>1, <2>12, <3>3, <4>4 DEF InGroup
      <4> QED
        BY <2>4, <2>7, <4>5
    <3> QED
      BY <3>1, <3>2, <3>3
  <2>13. ASSUME NEW x \in Ix(D) PROVE Fits(C, seg, K, D, x, seg[x])
    <3>1. PICK c \in B : /\ InGroup(c, x, seg, L, D)
                         /\ \/ seg[x] = seg[c]
                            \/ /\ L[seg[c]] < L[seg[x]]
                               /\ Top(x, D, L[seg[c]] + 1) # Top(c, D, L[seg[c]] + 1)
      BY DEF Leaders, Fits
    <3>2. CASE c # b
      <4>1. K[seg[c]] = L[seg[c]]
        BY <1>2, <1>5, <2>6, <3>2
      <4>2. InGroup(c, x, seg, K, D)
        BY <3>1, <4>1 DEF InGroup
      <4>3. L[seg[c]] < L[seg[x]] => K[seg[c]] < K[seg[x]]
        <5>1. L[seg[c]] \in Nat /\ L[seg[x]] \in Nat
          BY <1>5, <1>6
        <5> QED
          BY <1>6, <4>1, <5>1
      <4> QED
        BY <3>1, <4>1, <4>2, <4>3 DEF Fits
    <3>3. CASE c = b
      <4>1. Top(x, D, l) = p
        BY <1>1, <2>1, <2>2, <3>1, <3>3 DEF InGroup
      <4>2. CASE Top(x, D, l + 1) = 2 * p + 1
        <5>1. seg[x] = seg[m]
          BY <1>1, <2>5, <4>2
        <5>2. InGroup(m, x, seg, K, D)
          BY <1>4, <2>4, <2>5, <4>2 DEF InGroup
        <5> QED
          BY <5>1, <5>2 DEF Fits
      <4>3. CASE Top(x, D, l + 1) = 2 * p
        <5>1. seg[x] = seg[b]
          BY <1>1, <2>1, <2>7, <3>1, <3>3, <4>3
        <5>2. InGroup(b, x, seg, K, D)
          BY <1>2, <2>1, <2>7, <4>3 DEF InGroup
        <5> QED
          BY <5>1, <5>2 DEF Fits
      <4> QED
        BY <2>8, <4>1, <4>2, <4>3
    <3> QED
      BY <3>2, <3>3
  <2>14. Leaders(C, seg, K, D)
    <3> HIDE DEF C
    <3> QED
      BY <2>10, <2>11, <2>12, <2>13 DEF Leaders
  <2> QED
    BY <2>14
<1> QED
  BY <1>8, <1>9

-----------------------------------------------------------------------------
(* An array and its durable twin                                            *)

\* The entries that lead to a segment, in either array, agree on as many bits
\* as its depth says.
Together(seg, twin, L, D) ==
  \A x, y \in Ix(D) : \A g \in {seg[x], twin[x]} \cap {seg[y], twin[y]} :
    Top(x, D, L[g]) = Top(y, D, L[g])

\* An entry may be copied from one array to the other.
LEMMA TogetherCopy ==
  ASSUME NEW seg, NEW twin, NEW L, NEW D, Together(seg, twin, L, D), NEW a, NEW b,
         \A x \in Ix(D) : a[x] \in {seg[x], twin[x]} /\ b[x] \in {seg[x], twin[x]}
  PROVE  Together(a, b, L, D)
BY DEF Together

\* Entries may be set to g within the range of g.
LEMMA TogetherSet ==
  ASSUME NEW seg, NEW twin, NEW L, NEW D, Together(seg, twin, L, D), NEW new, NEW g, NEW q,
         \A x \in Ix(D) : g \in {seg[x], twin[x]} => Top(x, D, L[g]) = q,
         \A x \in Ix(D) : new[x] = seg[x] \/ (new[x] = g /\ Top(x, D, L[g]) = q)
  PROVE  Together(new, twin, L, D)
<1> SUFFICES ASSUME NEW x \in Ix(D), NEW y \in Ix(D), NEW h \in {new[x], twin[x]} \cap {new[y], twin[y]}
             PROVE  Top(x, D, L[h]) = Top(y, D, L[h])
  BY DEF Together
<1>1. CASE h = g
  <2>1. Top(x, D, L[g]) = q
    BY <1>1
  <2>2. Top(y, D, L[g]) = q
    BY <1>1
  <2> QED
    BY <1>1, <2>1, <2>2
<1>2. CASE h # g
  <2>1. h \in {seg[x], twin[x]} \cap {seg[y], twin[y]}
    BY <1>2
  <2> QED
    BY <2>1 DEF Together
<1> QED
  BY <1>1, <1>2

\* Only the depths of the segments in the array matter.
LEMMA TogetherDepths ==
  ASSUME NEW seg, NEW twin, NEW L, NEW K, NEW D, Together(seg, twin, L, D),
         \A x \in Ix(D) : K[seg[x]] = L[seg[x]] /\ K[twin[x]] = L[twin[x]]
  PROVE  Together(seg, twin, K, D)
BY DEF Together

\* Smaller depths ask for less.
LEMMA TogetherLower ==
  ASSUME NEW seg, NEW twin, NEW L, NEW K, NEW D \in Nat, Together(seg, twin, L, D),
         \A x \in Ix(D) : /\ L[seg[x]] \in 0 .. D /\ K[seg[x]] \in 0 .. L[seg[x]]
                          /\ L[twin[x]] \in 0 .. D /\ K[twin[x]] \in 0 .. L[twin[x]]
  PROVE  Together(seg, twin, K, D)
<1> SUFFICES ASSUME NEW x \in Ix(D), NEW y \in Ix(D), NEW g \in {seg[x], twin[x]} \cap {seg[y], twin[y]}
             PROVE  Top(x, D, K[g]) = Top(y, D, K[g])
  BY DEF Together
<1>1. Top(x, D, L[g]) = Top(y, D, L[g])
  BY DEF Together
<1>2. PICK l \in 0 .. D : l = L[g]
  OBVIOUS
<1>3. PICK m \in 0 .. l : m = K[g]
  BY <1>2
<1>4. x \in Nat /\ y \in Nat
  BY DEF Ix
<1> QED
  BY <1>1, <1>2, <1>3, <1>4, TopCoarse

\* The depth of g is raised once the entries that lead to it agree on that bit.
LEMMA TogetherRaise ==
  ASSUME NEW seg, NEW twin, NEW L, NEW D, Together(seg, twin, L, D), NEW g \in DOMAIN L, NEW q,
         \A x \in Ix(D) : seg[x] \in DOMAIN L /\ twin[x] \in DOMAIN L,
         \A x \in Ix(D) : g \in {seg[x], twin[x]} => Top(x, D, L[g] + 1) = q,
         NEW K, K = [L EXCEPT ![g] = L[g] + 1]
  PROVE  Together(seg, twin, K, D)
<1> SUFFICES ASSUME NEW x \in Ix(D), NEW y \in Ix(D), NEW h \in {seg[x], twin[x]} \cap {seg[y], twin[y]}
             PROVE  Top(x, D, K[h]) = Top(y, D, K[h])
  BY DEF Together
<1>1. CASE h = g
  BY <1>1
<1>2. CASE h # g
  <2>1. K[h] = L[h]
    BY <1>2
  <2> QED
    BY <2>1 DEF Together
<1> QED
  BY <1>1, <1>2

\* Doubling keeps the entries of a segment together.
LEMMA TogetherDouble ==
  ASSUME NEW seg, NEW L, NEW D, DirOK(seg, L, D), Together(seg, seg, L, D),
         NEW x \in Ix(D), NEW s \in DOMAIN L, \A y \in Ix(D) : seg[y] # s,
         NEW new, \A n \in Ix(D + 1) : new[n] = IF n = 2 * x + 1 THEN s ELSE seg[n \div 2]
  PROVE  Together(new, new, L, D + 1)
<1> SUFFICES ASSUME NEW i \in Ix(D + 1), NEW j \in Ix(D + 1), new[i] = new[j]
             PROVE  Top(i, D + 1, L[new[i]]) = Top(j, D + 1, L[new[i]])
  BY DEF Together
<1>1. D \in Nat /\ i \in Nat /\ j \in Nat
  BY DirTypes DEF Ix
<1>2. i \div 2 \in Ix(D) /\ j \div 2 \in Ix(D)
  BY <1>1, TopDouble
<1>3. CASE i = 2 * x + 1
  <2>1. new[i] = s
    BY <1>3
  <2>2. j = 2 * x + 1
    BY <1>2, <2>1
  <2> QED
    BY <1>3, <2>2
<1>4. CASE i # 2 * x + 1
  <2>1. new[i] = seg[i \div 2]
    BY <1>4
  <2>2. new[j] = seg[j \div 2]
    BY <1>2, <2>1
  <2>3. PICK l \in 0 .. D : l = L[new[i]]
    BY <1>2, <2>1, DirTypes
  <2>4. Top(i \div 2, D, l) = Top(j \div 2, D, l)
    <3>1. PICK u \in Ix(D) : u = i \div 2
      BY <1>2
    <3>2. PICK v \in Ix(D) : v = j \div 2
      BY <1>2
    <3>3. seg[u] = seg[v] /\ l = L[seg[u]]
      BY <2>1, <2>2, <2>3, <3>1, <3>2
    <3>4. Top(u, D, L[seg[u]]) = Top(v, D, L[seg[u]])
      BY <3>3 DEF Together
    <3> QED
      BY <3>1, <3>2, <3>3, <3>4
  <2>5. Top(i \div 2, D, l) = Top(i, D + 1, l) /\ Top(j \div 2, D, l) = Top(j, D + 1, l)
    BY <1>1, TopDouble
  <2> QED
    BY <2>3, <2>4, <2>5
<1> QED
  BY <1>3, <1>4

\* Doubling makes a directory of the next depth.
LEMMA DirDouble ==
  ASSUME NEW seg, NEW L, NEW D, DirOK(seg, L, D), D < HashBits,
         NEW x \in Ix(D), NEW s \in DOMAIN L, L[s] = D + 1,
         NEW new \in [Ix(D + 1) -> DOMAIN L],
         \A n \in Ix(D + 1) : new[n] = IF n = 2 * x + 1 THEN s ELSE seg[n \div 2]
  PROVE  DirOK(new, L, D + 1)
<1>1. D \in Nat /\ HashBits \in Nat /\ InitDepth \in Nat /\ D + 1 \in InitDepth .. HashBits
  BY DirTypes DEF DirOK
<1>2. ASSUME NEW n \in Ix(D + 1) PROVE L[new[n]] <= D + 1
  <2>0. n \in Nat
    BY DEF Ix
  <2>1. n \div 2 \in Ix(D)
    BY <1>1, <2>0, TopDouble
  <2>2. L[seg[n \div 2]] \in 0 .. D
    BY <2>1, DirTypes
  <2>3. L[seg[n \div 2]] <= D + 1
    BY <1>1, <2>2
  <2>4. D + 1 <= D + 1
    BY <1>1
  <2> QED
    BY <2>3, <2>4
<1> QED
  BY <1>1, <1>2 DEF DirOK

-----------------------------------------------------------------------------
(* Images of the memory                                                     *)

SegRec == [bucket : [Slots -> KeyWords], sema : Int, local_depth : InitDepth .. HashBits]
Arrays == UNION {[Ix(n) -> Nat] : n \in Nat}
DirRec == [depth : 0 .. HashBits, segment : Arrays]
Image == [segs : Seq(SegRec), dirs : Seq(DirRec), dir : Nat]

\* The local depths in an image.
Lds(m) == [g \in 1 .. Len(m.segs) |-> m.segs[g].local_depth]

\* The parts of an image.
LEMMA ImageTypes ==
  ASSUME NEW m \in Image
  PROVE  /\ m.segs \in Seq(SegRec) /\ m.dirs \in Seq(DirRec) /\ m.dir \in Nat
         /\ Len(m.segs) \in Nat /\ Len(m.dirs) \in Nat
         /\ DOMAIN m.segs = 1 .. Len(m.segs) /\ DOMAIN m.dirs = 1 .. Len(m.dirs)
         /\ m = [segs |-> m.segs, dirs |-> m.dirs, dir |-> m.dir]
<1>1. m.segs \in Seq(SegRec) /\ m.dirs \in Seq(DirRec) /\ m.dir \in Nat
      /\ m = [segs |-> m.segs, dirs |-> m.dirs, dir |-> m.dir]
  BY DEF Image
<1>2. PICK S : S = SegRec
  OBVIOUS
<1>3. PICK T : T = DirRec
  OBVIOUS
<1>4. m.segs \in Seq(S) /\ m.dirs \in Seq(T)
  BY <1>1, <1>2, <1>3
<1>5. /\ Len(m.segs) \in Nat /\ Len(m.dirs) \in Nat
      /\ DOMAIN m.segs = 1 .. Len(m.segs) /\ DOMAIN m.dirs = 1 .. Len(m.dirs)
  BY <1>4
<1> QED
  BY <1>1, <1>5

\* The parts of a segment.
LEMMA SegTypes ==
  ASSUME NEW m \in Image, NEW i \in 1 .. Len(m.segs)
  PROVE  /\ m.segs[i] \in SegRec
         /\ m.segs[i].bucket \in [Slots -> KeyWords] /\ m.segs[i].sema \in Int
         /\ m.segs[i].local_depth \in InitDepth .. HashBits
         /\ m.segs[i] = [bucket |-> m.segs[i].bucket, sema |-> m.segs[i].sema,
                         local_depth |-> m.segs[i].local_depth]
<1>1. PICK S : S = SegRec
  OBVIOUS
<1>2. m.segs \in Seq(S)
  BY <1>1 DEF Image
<1>3. m.segs[i] \in SegRec
  BY <1>1, <1>2
<1> QED
  BY <1>3 DEF SegRec

\* The parts of a directory.
LEMMA DirRecTypes ==
  ASSUME NEW m \in Image, NEW d \in 1 .. Len(m.dirs)
  PROVE  /\ m.dirs[d] \in DirRec
         /\ m.dirs[d].depth \in 0 .. HashBits /\ m.dirs[d].segment \in Arrays
         /\ m.dirs[d] = [depth |-> m.dirs[d].depth, segment |-> m.dirs[d].segment]
<1>1. PICK S : S = DirRec
  OBVIOUS
<1>2. m.dirs \in Seq(S)
  BY <1>1 DEF Image
<1>3. m.dirs[d] \in DirRec
  BY <1>1, <1>2
<1> QED
  BY <1>3 DEF DirRec

\* n is m with another segment i.
SegPut(m, n, i, bucket, sema, depth) ==
  /\ n \in Image
  /\ n.dirs = m.dirs /\ n.dir = m.dir /\ Len(n.segs) = Len(m.segs)
  /\ n.segs[i] = [bucket |-> bucket, sema |-> sema, local_depth |-> depth]
  /\ \A g \in 1 .. Len(m.segs) : g # i => n.segs[g] = m.segs[g]

\* A segment of an image is replaced.
LEMMA PutSeg ==
  ASSUME NEW m \in Image, NEW i \in 1 .. Len(m.segs),
         NEW bucket \in [Slots -> KeyWords], NEW sema \in Int, NEW depth \in InitDepth .. HashBits,
         NEW n, n = [m EXCEPT !.segs = [m.segs EXCEPT ![i] =
                       [bucket |-> bucket, sema |-> sema, local_depth |-> depth]]]
  PROVE  SegPut(m, n, i, bucket, sema, depth)
<1>1. PICK r : r = [bucket |-> bucket, sema |-> sema, local_depth |-> depth]
  OBVIOUS
<1>2. PICK S : S = SegRec
  OBVIOUS
<1>3. r \in S
  BY <1>1, <1>2 DEF SegRec
<1>4. PICK q : q = m.segs
  OBVIOUS
<1>5. q \in Seq(S) /\ i \in 1 .. Len(q)
  BY <1>2, <1>4 DEF Image
<1>6. [q EXCEPT ![i] = r] \in Seq(S) /\ Len([q EXCEPT ![i] = r]) = Len(q)
  BY <1>3, <1>5
<1>7. [q EXCEPT ![i] = r][i] = r /\ \A g \in 1 .. Len(q) : g # i => [q EXCEPT ![i] = r][g] = q[g]
  BY <1>5
<1>8. n.segs = [q EXCEPT ![i] = r] /\ n.dirs = m.dirs /\ n.dir = m.dir
  BY <1>1, <1>4, ImageTypes
<1>9. n = [segs |-> n.segs, dirs |-> n.dirs, dir |-> n.dir]
  BY <1>1, <1>4, ImageTypes
<1>10. n \in Image
  <2>1. n.segs \in Seq(SegRec) /\ n.dirs \in Seq(DirRec) /\ n.dir \in Nat
    BY <1>2, <1>6, <1>8, ImageTypes
  <2> QED
    BY <1>9, <2>1 DEF Image
<1> QED
  BY <1>1, <1>4, <1>6, <1>7, <1>8, <1>10 DEF SegPut

\* n is m with another directory d.
DirPut(m, n, d, depth, segment) ==
  /\ n \in Image
  /\ n.segs = m.segs /\ n.dir = m.dir /\ Len(n.dirs) = Len(m.dirs)
  /\ n.dirs[d].depth = depth /\ n.dirs[d].segment = segment
  /\ \A e \in 1 .. Len(m.dirs) : e # d => n.dirs[e] = m.dirs[e]

\* A directory of an image is replaced.
LEMMA PutDir ==
  ASSUME NEW m \in Image, NEW d \in 1 .. Len(m.dirs),
         NEW depth \in 0 .. HashBits, NEW segment \in Arrays,
         NEW n, n = [m EXCEPT !.dirs = [m.dirs EXCEPT ![d] =
                       [depth |-> depth, segment |-> segment]]]
  PROVE  DirPut(m, n, d, depth, segment)
<1>1. PICK r : r = [depth |-> depth, segment |-> segment]
  OBVIOUS
<1>2. PICK S : S = DirRec
  OBVIOUS
<1>3. r \in S /\ r.depth = depth /\ r.segment = segment
  BY <1>1, <1>2 DEF DirRec
<1>4. PICK q : q = m.dirs
  OBVIOUS
<1>5. q \in Seq(S) /\ d \in 1 .. Len(q)
  BY <1>2, <1>4 DEF Image
<1>6. [q EXCEPT ![d] = r] \in Seq(S) /\ Len([q EXCEPT ![d] = r]) = Len(q)
  BY <1>3, <1>5
<1>7. [q EXCEPT ![d] = r][d] = r /\ \A g \in 1 .. Len(q) : g # d => [q EXCEPT ![d] = r][g] = q[g]
  BY <1>5
<1>8. n.dirs = [q EXCEPT ![d] = r] /\ n.segs = m.segs /\ n.dir = m.dir
  BY <1>1, <1>4, ImageTypes
<1>9. n = [segs |-> n.segs, dirs |-> n.dirs, dir |-> n.dir]
  BY <1>1, <1>4, ImageTypes
<1>10. n \in Image
  <2>1. n.segs \in Seq(SegRec) /\ n.dirs \in Seq(DirRec) /\ n.dir \in Nat
    BY <1>2, <1>6, <1>8, ImageTypes
  <2> QED
    BY <1>9, <2>1 DEF Image
<1> QED
  BY <1>3, <1>4, <1>6, <1>7, <1>8, <1>10 DEF DirPut

-----------------------------------------------------------------------------
(* Types                                                                    *)

SplitPCs == {"split", "doubled", "redirected", "published", "raised", "reopen"}
PairPCs == {"claimed", "stored", "persisted"}
PCs == {"idle"} \cup PairPCs \cup SplitPCs
Locals == [key : KeyWords, target : Nat, slot : Nat, s : Nat]
Segments == 1 .. Len(mem.segs)

\* The two images of directory d have the same size.
SizesAgree(d) ==
  \E n \in InitDepth .. HashBits :
    /\ mem.dirs[d].segment \in [Ix(n) -> Segments] /\ mem.dirs[d].depth \in {0, n}
    /\ pm.dirs[d].segment \in [Ix(n) -> Segments] /\ pm.dirs[d].depth \in {0, n}

LocalsOK(t) ==
  /\ pc[t] = "idle" => loc[t] = NoLocals
  /\ pc[t] # "idle" => loc[t].key \in workload.keys /\ loc[t].target \in Segments
  /\ pc[t] \in PairPCs => loc[t].slot \in Slots
  /\ pc[t] \in SplitPCs => loc[t].s \in Segments

ImagesOK ==
  /\ mem \in Image /\ pm \in Image
  /\ Len(mem.segs) = Len(pm.segs) /\ Len(mem.dirs) = Len(pm.dirs)
  /\ mem.dir \in 1 .. Len(mem.dirs) /\ pm.dir \in 1 .. Len(mem.dirs)
  /\ \A d \in 1 .. Len(mem.dirs) : SizesAgree(d)

ThreadsOK ==
  /\ pc \in [Threads -> PCs] /\ loc \in [Threads -> Locals]
  /\ \A t \in Threads : LocalsOK(t)

RestOK ==
  /\ acked \in SUBSET workload.keys
  /\ mode \in {"run", "recover"} /\ ri \in Nat
  /\ workload \in Workloads /\ crashes \in 0 .. workload.crashes

Typed == ImagesOK /\ ThreadsOK /\ RestOK

\* What the assumptions on the constants give.
LEMMA Constants ==
  /\ HashBits \in Nat /\ InitDepth \in Nat /\ InitDepth \in 1 .. HashBits /\ NumSlot \in Nat \ {0}
  /\ INVALID \in KeyWords /\ SENTINEL \in KeyWords /\ Keys \subseteq KeyWords
  /\ INVALID \notin Keys /\ SENTINEL \notin Keys /\ INVALID # SENTINEL
  /\ \A w \in Workloads : w.keys \subseteq Keys /\ w.crashes \in Nat
BY RecoveryAssumption DEF KeyWords

-----------------------------------------------------------------------------
(* What each step does to the images                                        *)

\* sema of segment i is stored.
LEMMA PutSema ==
  ASSUME NEW m \in Image, NEW i \in 1 .. Len(m.segs), NEW v \in Int,
         NEW n, n = [m EXCEPT !.segs[i].sema = v]
  PROVE  SegPut(m, n, i, m.segs[i].bucket, v, m.segs[i].local_depth)
<1>1. PICK q : q = m.segs
  OBVIOUS
<1>2. PICK r : r = q[i]
  OBVIOUS
<1>3. /\ r \in SegRec /\ r.bucket \in [Slots -> KeyWords] /\ r.sema \in Int
      /\ r.local_depth \in InitDepth .. HashBits
      /\ r = [bucket |-> r.bucket, sema |-> r.sema, local_depth |-> r.local_depth]
  BY <1>1, <1>2, SegTypes
<1>4. m = [segs |-> q, dirs |-> m.dirs, dir |-> m.dir] /\ DOMAIN q = 1 .. Len(q)
  BY <1>1, ImageTypes
<1>5. n = [m EXCEPT !.segs = [q EXCEPT ![i] = [r EXCEPT !.sema = v]]]
  BY <1>1, <1>2, <1>4
<1>6. [r EXCEPT !.sema = v] = [bucket |-> r.bucket, sema |-> v, local_depth |-> r.local_depth]
  BY <1>3
<1>7. n = [m EXCEPT !.segs = [m.segs EXCEPT ![i] = [bucket |-> r.bucket, sema |-> v, local_depth |-> r.local_depth]]]
  BY <1>1, <1>5, <1>6
<1>8. r.bucket \in [Slots -> KeyWords]
  BY <1>3
<1> QED
  BY <1>1, <1>2, <1>3, <1>7, <1>8, PutSeg

\* local_depth of segment i is stored.
LEMMA PutDepth ==
  ASSUME NEW m \in Image, NEW i \in 1 .. Len(m.segs), NEW v \in InitDepth .. HashBits,
         NEW n, n = [m EXCEPT !.segs[i].local_depth = v]
  PROVE  SegPut(m, n, i, m.segs[i].bucket, m.segs[i].sema, v)
<1>1. PICK q : q = m.segs
  OBVIOUS
<1>2. PICK r : r = q[i]
  OBVIOUS
<1>3. /\ r \in SegRec /\ r.bucket \in [Slots -> KeyWords] /\ r.sema \in Int
      /\ r.local_depth \in InitDepth .. HashBits
      /\ r = [bucket |-> r.bucket, sema |-> r.sema, local_depth |-> r.local_depth]
  BY <1>1, <1>2, SegTypes
<1>4. m = [segs |-> q, dirs |-> m.dirs, dir |-> m.dir] /\ DOMAIN q = 1 .. Len(q)
  BY <1>1, ImageTypes
<1>5. n = [m EXCEPT !.segs = [q EXCEPT ![i] = [r EXCEPT !.local_depth = v]]]
  BY <1>1, <1>2, <1>4
<1>6. [r EXCEPT !.local_depth = v] = [bucket |-> r.bucket, sema |-> r.sema, local_depth |-> v]
  BY <1>3
<1>7. n = [m EXCEPT !.segs = [m.segs EXCEPT ![i] = [bucket |-> r.bucket, sema |-> r.sema, local_depth |-> v]]]
  BY <1>1, <1>5, <1>6
<1>8. r.bucket \in [Slots -> KeyWords]
  BY <1>3
<1> QED
  BY <1>1, <1>2, <1>3, <1>7, <1>8, PutSeg

\* Slot j of segment i is stored.
LEMMA PutSlot ==
  ASSUME NEW m \in Image, NEW i \in 1 .. Len(m.segs), NEW j \in Slots, NEW v \in KeyWords,
         NEW n, n = [m EXCEPT !.segs[i].bucket[j] = v]
  PROVE  SegPut(m, n, i, [m.segs[i].bucket EXCEPT ![j] = v], m.segs[i].sema, m.segs[i].local_depth)
<1>1. PICK q : q = m.segs
  OBVIOUS
<1>2. PICK r : r = q[i]
  OBVIOUS
<1>3. /\ r \in SegRec /\ r.bucket \in [Slots -> KeyWords] /\ r.sema \in Int
      /\ r.local_depth \in InitDepth .. HashBits
      /\ r = [bucket |-> r.bucket, sema |-> r.sema, local_depth |-> r.local_depth]
  BY <1>1, <1>2, SegTypes
<1>4. m = [segs |-> q, dirs |-> m.dirs, dir |-> m.dir] /\ DOMAIN q = 1 .. Len(q)
  BY <1>1, ImageTypes
<1>5. n = [m EXCEPT !.segs = [q EXCEPT ![i] = [r EXCEPT !.bucket[j] = v]]]
  BY <1>1, <1>2, <1>4
<1>6. [r EXCEPT !.bucket[j] = v] = [bucket |-> [r.bucket EXCEPT ![j] = v], sema |-> r.sema, local_depth |-> r.local_depth]
  BY <1>3
<1>7. n = [m EXCEPT !.segs = [m.segs EXCEPT ![i] = [bucket |-> [r.bucket EXCEPT ![j] = v], sema |-> r.sema, local_depth |-> r.local_depth]]]
  BY <1>1, <1>5, <1>6
<1>8. [r.bucket EXCEPT ![j] = v] \in [Slots -> KeyWords]
  BY <1>3
<1> QED
  BY <1>1, <1>2, <1>3, <1>7, <1>8, PutSeg

\* local_depth and sema of segment i are stored.
LEMMA PutHeader ==
  ASSUME NEW m \in Image, NEW i \in 1 .. Len(m.segs), NEW v \in InitDepth .. HashBits, NEW w \in Int,
         NEW n, n = [m EXCEPT !.segs[i].local_depth = v, !.segs[i].sema = w]
  PROVE  SegPut(m, n, i, m.segs[i].bucket, w, v)
<1>1. PICK q : q = m.segs
  OBVIOUS
<1>2. PICK r : r = q[i]
  OBVIOUS
<1>3. /\ r \in SegRec /\ r.bucket \in [Slots -> KeyWords] /\ r.sema \in Int
      /\ r.local_depth \in InitDepth .. HashBits
      /\ r = [bucket |-> r.bucket, sema |-> r.sema, local_depth |-> r.local_depth]
  BY <1>1, <1>2, SegTypes
<1>4. m = [segs |-> q, dirs |-> m.dirs, dir |-> m.dir] /\ DOMAIN q = 1 .. Len(q)
  BY <1>1, ImageTypes
<1>5. n = [m EXCEPT !.segs = [q EXCEPT ![i] = [r EXCEPT !.local_depth = v, !.sema = w]]]
  BY <1>1, <1>2, <1>4
<1>6. [r EXCEPT !.local_depth = v, !.sema = w] = [bucket |-> r.bucket, sema |-> w, local_depth |-> v]
  <2>1. PICK r1 : r1 = [r EXCEPT !.local_depth = v]
    OBVIOUS
  <2>2. r1 = [bucket |-> r.bucket, sema |-> r.sema, local_depth |-> v]
    BY <1>3, <2>1
  <2>3. [r1 EXCEPT !.sema = w] = [bucket |-> r.bucket, sema |-> w, local_depth |-> v]
    BY <2>2
  <2>4. [r EXCEPT !.local_depth = v, !.sema = w] = [r1 EXCEPT !.sema = w]
    BY <2>1
  <2> QED
    BY <2>3, <2>4
<1>7. n = [m EXCEPT !.segs = [m.segs EXCEPT ![i] = [bucket |-> r.bucket, sema |-> w, local_depth |-> v]]]
  BY <1>1, <1>5, <1>6
<1>8. r.bucket \in [Slots -> KeyWords]
  BY <1>3
<1> QED
  BY <1>1, <1>2, <1>3, <1>7, <1>8, PutSeg

\* sema and slot j of segment i are stored.
LEMMA PutClaim ==
  ASSUME NEW m \in Image, NEW i \in 1 .. Len(m.segs), NEW j \in Slots, NEW v \in Int, NEW w \in KeyWords,
         NEW n, n = [m EXCEPT !.segs[i].sema = v, !.segs[i].bucket[j] = w]
  PROVE  SegPut(m, n, i, [m.segs[i].bucket EXCEPT ![j] = w], v, m.segs[i].local_depth)
<1>1. PICK m1 : m1 = [m EXCEPT !.segs[i].sema = v]
  OBVIOUS
<1>2. SegPut(m, m1, i, m.segs[i].bucket, v, m.segs[i].local_depth)
  BY <1>1, PutSema
<1>3. m1 \in Image /\ i \in 1 .. Len(m1.segs)
  BY <1>2 DEF SegPut
<1>4. n = [m1 EXCEPT !.segs[i].bucket[j] = w]
  BY <1>1, Zenon
<1>5. SegPut(m1, n, i, [m1.segs[i].bucket EXCEPT ![j] = w], m1.segs[i].sema, m1.segs[i].local_depth)
  BY <1>3, <1>4, PutSlot
<1>6. /\ m1.segs[i].bucket = m.segs[i].bucket /\ m1.segs[i].sema = v
      /\ m1.segs[i].local_depth = m.segs[i].local_depth
  BY <1>2 DEF SegPut
<1> QED
  BY <1>2, <1>5, <1>6 DEF SegPut

\* Claim changes one slot and sema of one segment of mem.
LEMMA ClaimEffect ==
  ASSUME mem \in Image, NEW t \in Threads, NEW k, NEW i \in 1 .. Len(mem.segs), NEW j \in Slots,
         Claim(t, k, i, j)
  PROVE  SegPut(mem, mem', i, [mem.segs[i].bucket EXCEPT ![j] = SENTINEL],
                mem.segs[i].sema + 1, mem.segs[i].local_depth)
<1>0. mem.segs[i].sema \in Int
  BY SegTypes
<1>1. mem.segs[i].sema + 1 \in Int /\ SENTINEL \in KeyWords
  BY <1>0, Constants
<1>2. mem' = [mem EXCEPT !.segs[i].sema = mem.segs[i].sema + 1, !.segs[i].bucket[j] = SENTINEL]
  BY DEF Claim
<1> QED
  BY <1>1, <1>2, PutClaim

\* StoreKey changes one slot of mem.
LEMMA StoreKeyEffect ==
  ASSUME Typed, NEW t \in Threads, StoreKey(t), NEW i, i = loc[t].target
  PROVE  SegPut(mem, mem', i, [mem.segs[i].bucket EXCEPT ![loc[t].slot] = loc[t].key],
                mem.segs[i].sema, mem.segs[i].local_depth)
<1>0. mem \in Image /\ i \in 1 .. Len(mem.segs) /\ loc[t].slot \in Slots /\ loc[t].key \in KeyWords
  BY DEF Typed, ImagesOK, ThreadsOK, RestOK, LocalsOK, StoreKey, Goto, Segments, PairPCs, Locals
<1>1. mem' = [mem EXCEPT !.segs[i].bucket[loc[t].slot] = loc[t].key]
  BY DEF StoreKey
<1> QED
  BY <1>0, <1>1, PutSlot

\* PersistPair changes one slot of pm.
LEMMA PersistPairEffect ==
  ASSUME Typed, NEW t \in Threads, PersistPair(t), NEW i, i = loc[t].target
  PROVE  SegPut(pm, pm', i, [pm.segs[i].bucket EXCEPT ![loc[t].slot] = mem.segs[i].bucket[loc[t].slot]],
                pm.segs[i].sema, pm.segs[i].local_depth)
<1>0. mem \in Image /\ pm \in Image /\ i \in 1 .. Len(mem.segs) /\ i \in 1 .. Len(pm.segs)
      /\ loc[t].slot \in Slots
  BY DEF Typed, ImagesOK, ThreadsOK, RestOK, LocalsOK, PersistPair, Goto, Segments, PairPCs
<1>1. mem.segs[i].bucket[loc[t].slot] \in KeyWords
  BY <1>0, SegTypes
<1>2. pm' = [pm EXCEPT !.segs[i].bucket[loc[t].slot] = mem.segs[i].bucket[loc[t].slot]]
  BY DEF PersistPair, Target
<1> QED
  BY <1>0, <1>1, <1>2, PutSlot

\* ReturnInsert changes sema.
LEMMA ReturnInsertEffect ==
  ASSUME Typed, NEW t \in Threads, ReturnInsert(t), NEW i, i = loc[t].target
  PROVE  SegPut(mem, mem', i, mem.segs[i].bucket, mem.segs[i].sema - 1, mem.segs[i].local_depth)
<1>0. mem \in Image /\ i \in 1 .. Len(mem.segs)
  BY DEF Typed, ImagesOK, ThreadsOK, RestOK, LocalsOK, ReturnInsert, Goto, Segments
<1>3. mem.segs[i].sema \in Int
  BY <1>0, SegTypes
<1>1. mem.segs[i].sema - 1 \in Int
  BY <1>3
<1>2. mem' = [mem EXCEPT !.segs[i].sema = mem.segs[i].sema - 1]
  BY DEF ReturnInsert
<1> QED
  BY <1>0, <1>1, <1>2, PutSema

\* Reopen changes sema.
LEMMA ReopenEffect ==
  ASSUME Typed, NEW t \in Threads, Reopen(t), NEW i, i = loc[t].target
  PROVE  SegPut(mem, mem', i, mem.segs[i].bucket, 0, mem.segs[i].local_depth)
<1>0. mem \in Image /\ i \in 1 .. Len(mem.segs)
  BY DEF Typed, ImagesOK, ThreadsOK, RestOK, LocalsOK, Reopen, Goto, Segments
<1>1. mem' = [mem EXCEPT !.segs[i].sema = 0]
  BY DEF Reopen
<1>2. 0 \in Int
  OBVIOUS
<1> QED
  BY <1>0, <1>1, <1>2, PutSema

\* RaiseDepth changes one local depth of mem.
LEMMA RaiseDepthEffect ==
  ASSUME Typed, NEW t \in Threads, RaiseDepth(t), NEW i, i = loc[t].target,
         mem.segs[i].local_depth < HashBits
  PROVE  SegPut(mem, mem', i, mem.segs[i].bucket, mem.segs[i].sema, mem.segs[i].local_depth + 1)
<1>0. mem \in Image /\ i \in 1 .. Len(mem.segs)
  BY DEF Typed, ImagesOK, ThreadsOK, RestOK, LocalsOK, RaiseDepth, Goto, Segments
<1>3. mem.segs[i].local_depth \in InitDepth .. HashBits
  BY <1>0, SegTypes
<1>1. mem.segs[i].local_depth + 1 \in InitDepth .. HashBits
  BY <1>3, Constants
<1>2. mem' = [mem EXCEPT !.segs[i].local_depth = mem.segs[i].local_depth + 1]
  BY DEF RaiseDepth
<1> QED
  BY <1>0, <1>1, <1>2, PutDepth

\* A flush of a header changes one segment of pm.
LEMMA FlushHeaderEffect ==
  ASSUME Typed, NEW i \in 1 .. Len(mem.segs), FlushHeader(i)
  PROVE  SegPut(pm, pm', i, pm.segs[i].bucket, mem.segs[i].sema, mem.segs[i].local_depth)
<1>0. mem \in Image /\ pm \in Image /\ i \in 1 .. Len(pm.segs)
  BY DEF Typed, ImagesOK, ThreadsOK, RestOK
<1>1. mem.segs[i].sema \in Int /\ mem.segs[i].local_depth \in InitDepth .. HashBits
  BY <1>0, SegTypes
<1>2. pm' = [pm EXCEPT !.segs[i].local_depth = mem.segs[i].local_depth, !.segs[i].sema = mem.segs[i].sema]
  BY DEF FlushHeader
<1> QED
  BY <1>0, <1>1, <1>2, PutHeader

\* The eviction of a slot changes one slot of pm.
LEMMA EvictSlotEffect ==
  ASSUME Typed, NEW i \in 1 .. Len(mem.segs), NEW j \in Slots,
         pm' = [pm EXCEPT !.segs[i].bucket[j] = mem.segs[i].bucket[j]]
  PROVE  SegPut(pm, pm', i, [pm.segs[i].bucket EXCEPT ![j] = mem.segs[i].bucket[j]],
                pm.segs[i].sema, pm.segs[i].local_depth)
<1>0. mem \in Image /\ pm \in Image /\ i \in 1 .. Len(pm.segs)
  BY DEF Typed, ImagesOK, ThreadsOK, RestOK
<1>1. mem.segs[i].bucket[j] \in KeyWords
  BY <1>0, SegTypes
<1> QED
  BY <1>0, <1>1, PutSlot

\* n is m with one more segment.
SegAdd(m, n, r) ==
  /\ n \in Image
  /\ n.dirs = m.dirs /\ n.dir = m.dir /\ Len(n.segs) = Len(m.segs) + 1
  /\ n.segs[Len(m.segs) + 1] = r
  /\ \A g \in 1 .. Len(m.segs) : n.segs[g] = m.segs[g]

\* A segment is allocated.
LEMMA AddSeg ==
  ASSUME NEW m \in Image, NEW r \in SegRec, NEW n, n = [m EXCEPT !.segs = Append(m.segs, r)]
  PROVE  SegAdd(m, n, r)
<1>1. PICK S : S = SegRec
  OBVIOUS
<1>2. PICK q : q = m.segs
  OBVIOUS
<1>3. q \in Seq(S) /\ r \in S
  BY <1>1, <1>2 DEF Image
<1>4. /\ Append(q, r) \in Seq(S) /\ Len(Append(q, r)) = Len(q) + 1
      /\ Append(q, r)[Len(q) + 1] = r /\ \A g \in 1 .. Len(q) : Append(q, r)[g] = q[g]
  BY <1>3
<1>5. n.segs = Append(q, r) /\ n.dirs = m.dirs /\ n.dir = m.dir
  BY <1>2, ImageTypes
<1>6. n = [segs |-> n.segs, dirs |-> n.dirs, dir |-> n.dir]
  BY ImageTypes
<1>7. n.segs \in Seq(SegRec) /\ n.dirs \in Seq(DirRec) /\ n.dir \in Nat
  BY <1>1, <1>4, <1>5, ImageTypes
<1>8. n \in Image
  BY <1>6, <1>7 DEF Image
<1> QED
  BY <1>2, <1>4, <1>5, <1>8 DEF SegAdd

\* n is m with one more directory, and dir = e.
DirAdd(m, n, r, e) ==
  /\ n \in Image
  /\ n.segs = m.segs /\ n.dir = e /\ Len(n.dirs) = Len(m.dirs) + 1
  /\ n.dirs[Len(m.dirs) + 1] = r
  /\ \A d \in 1 .. Len(m.dirs) : n.dirs[d] = m.dirs[d]

\* A directory is allocated.
LEMMA AddDir ==
  ASSUME NEW m \in Image, NEW r \in DirRec, NEW e \in Nat,
         NEW n, n = [segs |-> m.segs, dirs |-> Append(m.dirs, r), dir |-> e]
  PROVE  DirAdd(m, n, r, e)
<1>1. PICK S : S = DirRec
  OBVIOUS
<1>2. PICK q : q = m.dirs
  OBVIOUS
<1>3. q \in Seq(S) /\ r \in S
  BY <1>1, <1>2 DEF Image
<1>4. /\ Append(q, r) \in Seq(S) /\ Len(Append(q, r)) = Len(q) + 1
      /\ Append(q, r)[Len(q) + 1] = r /\ \A g \in 1 .. Len(q) : Append(q, r)[g] = q[g]
  BY <1>3
<1>5. n.segs = m.segs /\ n.dirs = Append(q, r) /\ n.dir = e
  BY <1>2
<1>7. n.segs \in Seq(SegRec) /\ n.dirs \in Seq(DirRec) /\ n.dir \in Nat
  BY <1>1, <1>4, <1>5, ImageTypes
<1>8. n \in Image
  BY <1>5, <1>7 DEF Image
<1> QED
  BY <1>2, <1>4, <1>5, <1>8 DEF DirAdd

\* n is m with another dir.
DirSwitch(m, n, e) ==
  n \in Image /\ n.segs = m.segs /\ n.dirs = m.dirs /\ n.dir = e

\* dir is stored.
LEMMA SwitchDir ==
  ASSUME NEW m \in Image, NEW e \in Nat, NEW n, n = [m EXCEPT !.dir = e]
  PROVE  DirSwitch(m, n, e)
<1>1. n = [segs |-> m.segs, dirs |-> m.dirs, dir |-> e]
  BY ImageTypes
<1>2. n \in Image
  BY <1>1, ImageTypes DEF Image
<1> QED
  BY <1>1, <1>2 DEF DirSwitch

\* The array of directory d is stored.
LEMMA PutSegment ==
  ASSUME NEW m \in Image, NEW d \in 1 .. Len(m.dirs), NEW v \in Arrays,
         NEW n, n = [m EXCEPT !.dirs[d].segment = v]
  PROVE  DirPut(m, n, d, m.dirs[d].depth, v)
<1>1. PICK q : q = m.dirs
  OBVIOUS
<1>2. PICK r : r = q[d]
  OBVIOUS
<1>3. r.depth \in 0 .. HashBits /\ r = [depth |-> r.depth, segment |-> r.segment]
  BY <1>1, <1>2, DirRecTypes
<1>4. m = [segs |-> m.segs, dirs |-> q, dir |-> m.dir] /\ DOMAIN q = 1 .. Len(q)
  BY <1>1, ImageTypes
<1>5. n = [m EXCEPT !.dirs = [q EXCEPT ![d] = [r EXCEPT !.segment = v]]]
  BY <1>1, <1>2, <1>4
<1>6. [r EXCEPT !.segment = v] = [depth |-> r.depth, segment |-> v]
  BY <1>3
<1>7. n = [m EXCEPT !.dirs = [m.dirs EXCEPT ![d] = [depth |-> r.depth, segment |-> v]]]
  BY <1>1, <1>5, <1>6
<1> QED
  BY <1>1, <1>2, <1>3, <1>7, PutDir

\* The depth of directory d is stored.
LEMMA PutDirDepth ==
  ASSUME NEW m \in Image, NEW d \in 1 .. Len(m.dirs), NEW v \in 0 .. HashBits,
         NEW n, n = [m EXCEPT !.dirs[d].depth = v]
  PROVE  DirPut(m, n, d, v, m.dirs[d].segment)
<1>1. PICK q : q = m.dirs
  OBVIOUS
<1>2. PICK r : r = q[d]
  OBVIOUS
<1>3. r.segment \in Arrays /\ r = [depth |-> r.depth, segment |-> r.segment]
  BY <1>1, <1>2, DirRecTypes
<1>4. m = [segs |-> m.segs, dirs |-> q, dir |-> m.dir] /\ DOMAIN q = 1 .. Len(q)
  BY <1>1, ImageTypes
<1>5. n = [m EXCEPT !.dirs = [q EXCEPT ![d] = [r EXCEPT !.depth = v]]]
  BY <1>1, <1>2, <1>4
<1>6. [r EXCEPT !.depth = v] = [depth |-> v, segment |-> r.segment]
  BY <1>3
<1>7. n = [m EXCEPT !.dirs = [m.dirs EXCEPT ![d] = [depth |-> v, segment |-> r.segment]]]
  BY <1>1, <1>5, <1>6
<1> QED
  BY <1>1, <1>2, <1>3, <1>7, PutDir

\* The local depths after a step that changes one segment, or adds one.
LEMMA LdsPut ==
  ASSUME NEW m \in Image, NEW n, NEW i \in 1 .. Len(m.segs), NEW bucket, NEW sema, NEW depth,
         SegPut(m, n, i, bucket, sema, depth)
  PROVE  Lds(n) = [Lds(m) EXCEPT ![i] = depth]
<1>1. \A g \in 1 .. Len(m.segs) : n.segs[g].local_depth = IF g = i THEN depth ELSE m.segs[g].local_depth
  BY DEF SegPut
<1>2. Len(n.segs) = Len(m.segs)
  BY DEF SegPut
<1> QED
  BY <1>1, <1>2 DEF Lds

\* A store that leaves local_depth alone leaves the depths alone.
LEMMA LdsKept ==
  ASSUME NEW m \in Image, NEW n, NEW i \in 1 .. Len(m.segs), NEW bucket, NEW sema,
         SegPut(m, n, i, bucket, sema, m.segs[i].local_depth)
  PROVE  Lds(n) = Lds(m)
<1>1. \A g \in 1 .. Len(m.segs) : n.segs[g].local_depth = m.segs[g].local_depth
  BY DEF SegPut
<1>2. Len(n.segs) = Len(m.segs)
  BY DEF SegPut
<1> QED
  BY <1>1, <1>2 DEF Lds

\* The depths are those of the segments.
LEMMA LdsSame ==
  ASSUME NEW m, NEW n, n.segs = m.segs
  PROVE  Lds(n) = Lds(m)
BY DEF Lds

\* Depths are bounded by HashBits.
LEMMA LdsTyped ==
  ASSUME NEW m \in Image
  PROVE  /\ DOMAIN Lds(m) = 1 .. Len(m.segs)
         /\ Lds(m) \in [1 .. Len(m.segs) -> InitDepth .. HashBits]
         /\ \A g \in 1 .. Len(m.segs) : Lds(m)[g] = m.segs[g].local_depth
<1>1. \A g \in 1 .. Len(m.segs) : m.segs[g].local_depth \in InitDepth .. HashBits
  BY SegTypes
<1> QED
  BY <1>1 DEF Lds

\* A new segment brings its own depth.
LEMMA LdsAdd ==
  ASSUME NEW m \in Image, NEW n, NEW r, SegAdd(m, n, r)
  PROVE  /\ DOMAIN Lds(n) = 1 .. Len(m.segs) + 1
         /\ Lds(n)[Len(m.segs) + 1] = r.local_depth
         /\ \A g \in 1 .. Len(m.segs) : Lds(n)[g] = Lds(m)[g]
<1>1. Len(m.segs) \in Nat
  BY ImageTypes
<1>2. n \in Image /\ Len(n.segs) = Len(m.segs) + 1 /\ n.segs[Len(m.segs) + 1] = r
      /\ \A g \in 1 .. Len(m.segs) : n.segs[g] = m.segs[g]
  BY DEF SegAdd
<1>3. /\ DOMAIN Lds(n) = 1 .. Len(n.segs)
      /\ \A g \in 1 .. Len(n.segs) : Lds(n)[g] = n.segs[g].local_depth
  BY <1>2, LdsTyped
<1>4. \A g \in 1 .. Len(m.segs) : Lds(m)[g] = m.segs[g].local_depth
  BY LdsTyped
<1>5. /\ Len(m.segs) + 1 \in 1 .. Len(n.segs)
      /\ \A g \in 1 .. Len(m.segs) : g \in 1 .. Len(n.segs)
  BY <1>1, <1>2
<1> QED
  BY <1>2, <1>3, <1>4, <1>5

\* What Split(t, k, i) allocates.
Half(i) ==
  [bucket |-> [j \in Slots |-> IF SplitBit(mem.segs[i].bucket[j], mem.segs[i].local_depth) = 1
                               THEN mem.segs[i].bucket[j] ELSE INVALID],
   sema |-> 0, local_depth |-> mem.segs[i].local_depth + 1]

\* Split closes the segment and allocates its upper half, durably.
LEMMA SplitEffect ==
  ASSUME mem \in Image, pm \in Image, NEW t \in Threads, NEW k, NEW i \in 1 .. Len(mem.segs),
         Split(t, k, i)
  PROVE  /\ SegAdd(pm, pm', Half(i))
         /\ \E m : /\ SegPut(mem, m, i, mem.segs[i].bucket, -1, mem.segs[i].local_depth)
                   /\ SegAdd(m, mem', Half(i))
<1>1. PICK seg : seg = mem.segs[i]
  OBVIOUS
<1>2. PICK half : half = Half(i)
  OBVIOUS
<1>3. seg.bucket \in [Slots -> KeyWords] /\ seg.local_depth \in InitDepth .. HashBits
      /\ seg.local_depth < HashBits
  BY <1>1, SegTypes DEF Split
<1>4. seg.local_depth + 1 \in InitDepth .. HashBits
  BY <1>3, Constants
<1>5. [j \in Slots |-> IF SplitBit(seg.bucket[j], seg.local_depth) = 1 THEN seg.bucket[j] ELSE INVALID]
        \in [Slots -> KeyWords]
  BY <1>3, Constants
<1>6. half \in SegRec
  BY <1>1, <1>2, <1>4, <1>5 DEF Half, SegRec
<1>7. [NewSegment(seg.local_depth + 1) EXCEPT
                 !.bucket = [j \in Slots |->
                               IF SplitBit(seg.bucket[j], seg.local_depth) = 1
                               THEN seg.bucket[j] ELSE INVALID]] = half
  BY <1>1, <1>2 DEF NewSegment, Half
<1>8. pm' = [pm EXCEPT !.segs = Append(pm.segs, half)]
  BY <1>1, <1>7 DEF Split
<1>9. mem' = [mem EXCEPT !.segs = Append([mem.segs EXCEPT ![i].sema = -1], half)]
  BY <1>1, <1>7 DEF Split
<1>10. PICK m : m = [mem EXCEPT !.segs[i].sema = -1]
  OBVIOUS
<1>11. SegPut(mem, m, i, mem.segs[i].bucket, -1, mem.segs[i].local_depth)
  <2>1. -1 \in Int
    OBVIOUS
  <2> QED
    BY <1>10, <2>1, PutSema
<1>12. m.segs = [mem.segs EXCEPT ![i].sema = -1]
  BY <1>10, ImageTypes
<1>13. mem' = [m EXCEPT !.segs = Append(m.segs, half)]
  BY <1>9, <1>10, <1>12, ImageTypes
<1>14. SegAdd(m, mem', half)
  BY <1>6, <1>11, <1>13, AddSeg DEF SegPut
<1>15. SegAdd(pm, pm', half)
  BY <1>6, <1>8, AddSeg
<1> QED
  BY <1>2, <1>11, <1>14, <1>15

-----------------------------------------------------------------------------
(* The directory in use                                                     *)

Ent == DirOf(mem).segment             \* as the processors see it
Dur == pm.dirs[mem.dir].segment       \* as the memory modules hold it
Dep == DirOf(mem).depth
ML == Lds(mem)
PL == Lds(pm)

\* The directory in use and its durable twin are of the same size.
LEMMA InUse ==
  ASSUME Typed, Intact(mem)
  PROVE  /\ mem.dir \in 1 .. Len(mem.dirs) /\ mem.dir \in 1 .. Len(pm.dirs)
         /\ Dep \in InitDepth .. HashBits /\ Dep \in Nat
         /\ Ent \in [Ix(Dep) -> Segments] /\ Dur \in [Ix(Dep) -> Segments]
         /\ pm.dirs[mem.dir].depth \in {0, Dep}
         /\ DOMAIN Ent = Ix(Dep) /\ DOMAIN Dur = Ix(Dep)
         /\ DOMAIN ML = Segments /\ DOMAIN PL = Segments
<1>1. mem.dir \in 1 .. Len(mem.dirs) /\ mem.dir \in 1 .. Len(pm.dirs)
  BY DEF Typed, ImagesOK, ThreadsOK, RestOK
<1>2. PICK n \in InitDepth .. HashBits :
         /\ Ent \in [Ix(n) -> Segments] /\ Dep \in {0, n}
         /\ Dur \in [Ix(n) -> Segments] /\ pm.dirs[mem.dir].depth \in {0, n}
  BY <1>1 DEF Typed, ImagesOK, ThreadsOK, RestOK, SizesAgree, Ent, Dur, Dep, DirOf
<1>3. Dep = n
  BY <1>2 DEF Intact, Dep
<1>4. DOMAIN ML = Segments /\ DOMAIN PL = Segments
  BY LdsTyped DEF Typed, ImagesOK, ThreadsOK, RestOK, ML, PL, Segments
<1>5. Dep \in Nat
  BY <1>2, <1>3, Constants
<1> QED
  BY <1>1, <1>2, <1>3, <1>4, <1>5

\* An array that goes with a directory of n bits.
LEMMA ArrayOf ==
  ASSUME Typed, NEW n \in InitDepth .. HashBits, NEW v \in [Ix(n) -> Segments]
  PROVE  v \in Arrays
<1>1. n \in Nat
  BY Constants
<1>2. v \in [Ix(n) -> Nat]
  BY DEF Segments
<1> QED
  BY <1>1, <1>2 DEF Arrays

\* An image with other directories.
LEMMA ExceptDirs ==
  ASSUME NEW m \in Image, NEW q
  PROVE  [m EXCEPT !.dirs = q] = [segs |-> m.segs, dirs |-> q, dir |-> m.dir]
<1>1. m = [segs |-> m.segs, dirs |-> m.dirs, dir |-> m.dir]
  BY ImageTypes
<1> QED
  BY <1>1

\* DoubleDir appends a directory with array new.
Doubles(x, s, new) ==
  /\ new \in [Ix(Dep + 1) -> Segments]
  /\ \A n \in Ix(Dep + 1) : new[n] = IF n = 2 * x + 1 THEN s ELSE Ent[n \div 2]
  /\ DirAdd(mem, mem', [depth |-> Dep + 1, segment |-> new], Len(mem.dirs) + 1)
  /\ DirAdd(pm, pm', [depth |-> 0, segment |-> new], pm.dir)

\* DoubleDir allocates a directory that is durable but for its depth.
LEMMA DoubleDirEffect ==
  ASSUME Typed, NEW t \in Threads, DoubleDir(t), NEW s, s = loc[t].s, NEW x, x = Prefix(loc[t].key, Dep),
         Dep < HashBits, Intact(mem)
  PROVE  \E new : Doubles(x, s, new)
<1>1. PICK D : D = Dep
  OBVIOUS
<1>2. D \in InitDepth .. HashBits /\ D \in Nat /\ D < HashBits /\ Ent \in [Ix(D) -> Segments]
      /\ D + 1 \in InitDepth .. HashBits /\ D + 1 \in 0 .. HashBits /\ 0 \in 0 .. HashBits
  BY <1>1, InUse, Constants
<1>3. s \in Segments
  BY DEF Typed, ImagesOK, ThreadsOK, RestOK, LocalsOK, DoubleDir, Goto, SplitPCs
<1>4. PICK new : new = [n \in 0 .. Pow2[D + 1] - 1 |-> IF n = 2 * x + 1 THEN s ELSE Ent[n \div 2]]
  OBVIOUS
<1>5. ASSUME NEW n \in Ix(D + 1)
      PROVE  Ent[n \div 2] \in Segments
  <2>1. n \in Nat
    BY DEF Ix
  <2>2. n \div 2 \in Ix(D)
    BY <1>2, <2>1, TopDouble
  <2> QED
    BY <1>2, <2>2
<1>6. new \in [Ix(D + 1) -> Segments] /\ \A n \in Ix(D + 1) : new[n] = IF n = 2 * x + 1 THEN s ELSE Ent[n \div 2]
  BY <1>3, <1>4, <1>5 DEF Ix
<1>7. new \in Arrays
  BY <1>2, <1>6, ArrayOf
<1>8. Doubled(DirOf(mem), x, s) = [depth |-> D + 1, segment |-> new]
  BY <1>1, <1>4 DEF Doubled, Dep, Ent
<1>9. PICK r : r = [depth |-> D + 1, segment |-> new]
  OBVIOUS
<1>10. PICK r0 : r0 = [depth |-> 0, segment |-> new]
  OBVIOUS
<1>11. r \in DirRec /\ r0 \in DirRec
  BY <1>2, <1>7, <1>9, <1>10 DEF DirRec
<1>12. [r EXCEPT !.depth = 0] = r0
  BY <1>9, <1>10
<1>13. mem' = [mem EXCEPT !.dirs = Append(mem.dirs, r), !.dir = Len(mem.dirs) + 1]
  BY <1>1, <1>8, <1>9 DEF DoubleDir, Dep
<1>14. pm' = [pm EXCEPT !.dirs = Append(pm.dirs, r0)]
  BY <1>1, <1>8, <1>9, <1>12 DEF DoubleDir, Dep
<1>15. mem \in Image /\ pm \in Image
  BY DEF Typed, ImagesOK, ThreadsOK, RestOK
<1>16. Len(mem.dirs) \in Nat /\ pm.dir \in Nat
  BY <1>15, ImageTypes
<1>17. Len(mem.dirs) + 1 \in Nat
  BY <1>16
<1>18. mem' = [segs |-> mem.segs, dirs |-> Append(mem.dirs, r), dir |-> Len(mem.dirs) + 1]
  <2>1. PICK m1 : m1 = [mem EXCEPT !.dirs = Append(mem.dirs, r)]
    OBVIOUS
  <2>2. m1 = [segs |-> mem.segs, dirs |-> Append(mem.dirs, r), dir |-> mem.dir]
    BY <1>15, <2>1, ExceptDirs
  <2>3. mem' = [m1 EXCEPT !.dir = Len(mem.dirs) + 1]
    BY <1>13, <2>1, Zenon
  <2> QED
    BY <2>2, <2>3
<1>19. pm' = [segs |-> pm.segs, dirs |-> Append(pm.dirs, r0), dir |-> pm.dir]
  BY <1>14, <1>15, ExceptDirs
<1>20. DirAdd(mem, mem', r, Len(mem.dirs) + 1)
  BY <1>11, <1>15, <1>17, <1>18, AddDir
<1>21. DirAdd(pm, pm', r0, pm.dir)
  BY <1>11, <1>15, <1>16, <1>19, AddDir
<1> QED
  BY <1>1, <1>6, <1>9, <1>10, <1>20, <1>21 DEF Doubles

\* StoreEntries gives the upper half of the entries to the new segment.
LEMMA StoreEntriesEffect ==
  ASSUME Typed, Intact(mem), NEW t \in Threads, StoreEntries(t), NEW s, s = loc[t].s,
         NEW upper, upper = UpperHalf(loc[t].key, Dep, ML[loc[t].target])
  PROVE  \E new \in [Ix(Dep) -> Segments] :
           /\ \A x \in Ix(Dep) : new[x] = IF x \in upper THEN s ELSE Ent[x]
           /\ DirPut(mem, mem', mem.dir, Dep, new)
<1>1. PICK D : D = Dep
  OBVIOUS
<1>2. D \in InitDepth .. HashBits /\ Ent \in [Ix(D) -> Segments] /\ DOMAIN Ent = Ix(D)
      /\ mem.dir \in 1 .. Len(mem.dirs)
  BY <1>1, InUse
<1>3. s \in Segments /\ loc[t].target \in Segments
  BY DEF Typed, ImagesOK, ThreadsOK, RestOK, LocalsOK, StoreEntries, Goto, SplitPCs
<1>4. PICK new : new = [x \in DOMAIN Ent |-> IF x \in upper THEN s ELSE Ent[x]]
  OBVIOUS
<1>5. new \in [Ix(D) -> Segments] /\ \A x \in Ix(D) : new[x] = IF x \in upper THEN s ELSE Ent[x]
  BY <1>2, <1>3, <1>4
<1>6. upper = UpperHalf(loc[t].key, DirOf(mem).depth, Target(t).local_depth)
  BY <1>3, LdsTyped DEF Dep, ML, Target, Typed, ImagesOK, ThreadsOK, RestOK, Segments
<1>7. mem' = [mem EXCEPT !.dirs[mem.dir].segment = new]
  BY <1>4, <1>6 DEF StoreEntries, Ent, DirOf
<1>8. mem \in Image
  BY DEF Typed, ImagesOK, ThreadsOK, RestOK
<1>9. DirPut(mem, mem', mem.dir, mem.dirs[mem.dir].depth, new)
  BY <1>2, <1>5, <1>7, <1>8, ArrayOf, PutSegment
<1> QED
  BY <1>1, <1>5, <1>9 DEF Dep, DirOf

\* PersistEntries copies the upper half of the entries to pm.
LEMMA PersistEntriesEffect ==
  ASSUME Typed, Intact(mem), NEW t \in Threads, PersistEntries(t),
         NEW upper, upper = UpperHalf(loc[t].key, Dep, ML[loc[t].target])
  PROVE  \E new \in [Ix(Dep) -> Segments] :
           /\ \A x \in Ix(Dep) : new[x] = IF x \in upper THEN Ent[x] ELSE Dur[x]
           /\ DirPut(pm, pm', mem.dir, pm.dirs[mem.dir].depth, new)
<1>1. PICK D : D = Dep
  OBVIOUS
<1>2. D \in InitDepth .. HashBits /\ Ent \in [Ix(D) -> Segments] /\ Dur \in [Ix(D) -> Segments]
      /\ DOMAIN Dur = Ix(D) /\ mem.dir \in 1 .. Len(pm.dirs)
  BY <1>1, InUse
<1>3. loc[t].target \in Segments
  BY DEF Typed, ImagesOK, ThreadsOK, RestOK, LocalsOK, PersistEntries, Goto, SplitPCs
<1>4. PICK new : new = [x \in DOMAIN Dur |-> IF x \in upper THEN Ent[x] ELSE Dur[x]]
  OBVIOUS
<1>5. new \in [Ix(D) -> Segments] /\ \A x \in Ix(D) : new[x] = IF x \in upper THEN Ent[x] ELSE Dur[x]
  BY <1>2, <1>4
<1>6. upper = UpperHalf(loc[t].key, DirOf(mem).depth, Target(t).local_depth)
  BY <1>3, LdsTyped DEF Dep, ML, Target, Typed, ImagesOK, ThreadsOK, RestOK, Segments
<1>7. pm' = [pm EXCEPT !.dirs[mem.dir].segment = new]
  BY <1>4, <1>6 DEF PersistEntries, Ent, Dur
<1>8. pm \in Image
  BY DEF Typed, ImagesOK, ThreadsOK, RestOK
<1> QED
  BY <1>1, <1>2, <1>5, <1>7, <1>8, ArrayOf, PutSegment

\* The eviction of an entry copies it to pm.
LEMMA EvictEntryEffect ==
  ASSUME Typed, NEW x \in DOMAIN Ent,
         pm' = [pm EXCEPT !.dirs[mem.dir].segment[x] = DirOf(mem).segment[x]]
  PROVE  \E n \in InitDepth .. HashBits : \E new \in [Ix(n) -> Segments] :
           /\ Ent \in [Ix(n) -> Segments] /\ Dur \in [Ix(n) -> Segments]
           /\ Dep \in {0, n} /\ pm.dirs[mem.dir].depth \in {0, n}
           /\ \A y \in Ix(n) : new[y] = IF y = x THEN Ent[y] ELSE Dur[y]
           /\ DirPut(pm, pm', mem.dir, pm.dirs[mem.dir].depth, new)
<1>1. mem.dir \in 1 .. Len(mem.dirs) /\ mem.dir \in 1 .. Len(pm.dirs) /\ pm \in Image
  BY DEF Typed, ImagesOK
<1>2. PICK n \in InitDepth .. HashBits :
         /\ Ent \in [Ix(n) -> Segments] /\ Dep \in {0, n}
         /\ Dur \in [Ix(n) -> Segments] /\ pm.dirs[mem.dir].depth \in {0, n}
  BY <1>1 DEF Typed, ImagesOK, SizesAgree, Ent, Dur, Dep, DirOf
<1>3. x \in Ix(n)
  BY <1>2
<1>4. PICK new : new = [Dur EXCEPT ![x] = Ent[x]]
  OBVIOUS
<1>5. new \in [Ix(n) -> Segments] /\ \A y \in Ix(n) : new[y] = IF y = x THEN Ent[y] ELSE Dur[y]
  BY <1>2, <1>3, <1>4
<1>6. pm' = [pm EXCEPT !.dirs[mem.dir].segment = new]
  BY <1>4 DEF Ent, Dur
<1>7. DirPut(pm, pm', mem.dir, pm.dirs[mem.dir].depth, new)
  BY <1>1, <1>2, <1>5, <1>6, ArrayOf, PutSegment
<1> QED
  BY <1>2, <1>5, <1>7

\* RecoverGroup sets the entries of one group back to its first segment.
LEMMA RecoverGroupEffect ==
  ASSUME Typed, Intact(mem), RecoverGroup,
         NEW last, last = ri + Pow2[Dep - ML[Ent[ri]]] - 1
  PROVE  \E new \in [Ix(Dep) -> Segments] :
           /\ \A x \in Ix(Dep) : new[x] = IF x \in ri + 1 .. last /\ ML[Ent[x]] # ML[Ent[ri]]
                                          THEN Ent[ri] ELSE Ent[x]
           /\ DirPut(mem, mem', mem.dir, Dep, new)
           /\ ri \in Ix(Dep) /\ last + 1 # Pow2[Dep] /\ ri' = last + 1
<1>1. PICK D : D = Dep
  OBVIOUS
<1>2. D \in InitDepth .. HashBits /\ Ent \in [Ix(D) -> Segments] /\ DOMAIN Ent = Ix(D)
      /\ mem.dir \in 1 .. Len(mem.dirs) /\ D \in Nat
  BY <1>1, InUse
<1>3. Capacity = Pow2[D] /\ Pow2[D] \in Nat
  BY <1>1, <1>2, Pow2Step DEF Capacity, Dep
<1>4. ri \in Ix(D)
  BY <1>3 DEF RecoverGroup, Typed, ImagesOK, ThreadsOK, RestOK, Ix
<1>5. \A x \in Ix(D) : mem.segs[Ent[x]].local_depth = ML[Ent[x]]
  BY <1>2, LdsTyped DEF ML, Typed, ImagesOK, ThreadsOK, RestOK, Segments
<1>6. last = ri + Stride(ri) - 1
  BY <1>4, <1>5 DEF Stride, Dep, Ent
<1>7. PICK new : new = [x \in DOMAIN Ent |-> IF x \in ri + 1 .. last /\ ML[Ent[x]] # ML[Ent[ri]]
                                          THEN Ent[ri] ELSE Ent[x]]
  OBVIOUS
<1>8. /\ new \in [Ix(D) -> Segments]
      /\ \A x \in Ix(D) : new[x] = IF x \in ri + 1 .. last /\ ML[Ent[x]] # ML[Ent[ri]]
                                   THEN Ent[ri] ELSE Ent[x]
  BY <1>2, <1>4, <1>7
<1>9. new = Repaired(Ent, ri, last)
  BY <1>2, <1>4, <1>5, <1>7 DEF Repaired
<1>10. mem' = [mem EXCEPT !.dirs[mem.dir].segment = new]
  BY <1>6, <1>9 DEF RecoverGroup, Ent, DirOf
<1>11. mem \in Image
  BY DEF Typed, ImagesOK, ThreadsOK, RestOK
<1>12. DirPut(mem, mem', mem.dir, mem.dirs[mem.dir].depth, new)
  BY <1>2, <1>8, <1>10, <1>11, ArrayOf, PutSegment
<1> QED
  BY <1>1, <1>3, <1>4, <1>6, <1>8, <1>12 DEF Dep, DirOf, RecoverGroup

\* EndRecovery makes the entries durable.
LEMMA EndRecoveryEffect ==
  ASSUME Typed, EndRecovery
  PROVE  \E n \in InitDepth .. HashBits : \E new \in [Ix(n) -> Segments] :
           /\ DirPut(pm, pm', mem.dir, pm.dirs[mem.dir].depth, new)
           /\ pm.dirs[mem.dir].segment \in [Ix(n) -> Segments]
           /\ Intact(mem) => new = Ent
           /\ ~Intact(mem) => new = pm.dirs[mem.dir].segment
<1>1. mem.dir \in 1 .. Len(mem.dirs) /\ mem.dir \in 1 .. Len(pm.dirs) /\ pm \in Image
  BY DEF Typed, ImagesOK, ThreadsOK, RestOK
<1>2. PICK n \in InitDepth .. HashBits :
         /\ Ent \in [Ix(n) -> Segments] /\ Dep \in {0, n}
         /\ Dur \in [Ix(n) -> Segments]
  BY <1>1 DEF Typed, ImagesOK, ThreadsOK, RestOK, SizesAgree, Ent, Dur, Dep, DirOf
<1>3. n \in Nat /\ Pow2[n] \in Nat
  BY Constants, Pow2Step
<1>4. PICK new : new = [x \in DOMAIN Dur |-> IF x < Capacity THEN Ent[x] ELSE Dur[x]]
  OBVIOUS
<1>5. new \in [Ix(n) -> Segments]
  BY <1>2, <1>4
<1>6. pm' = [pm EXCEPT !.dirs[mem.dir].segment = new]
  BY <1>4 DEF EndRecovery, Ent, Dur
<1>7. Intact(mem) => new = Ent
  <2>1. SUFFICES ASSUME Intact(mem) PROVE new = Ent
    OBVIOUS
  <2>2. Capacity = Pow2[n]
    BY <1>2, <2>1 DEF Capacity, Intact, Dep
  <2>3. \A x \in Ix(n) : x < Capacity
    BY <1>3, <2>2 DEF Ix
  <2>4. DOMAIN Dur = Ix(n)
    BY <1>2
  <2> QED
    BY <1>2, <1>4, <2>3, <2>4
<1>8. ~Intact(mem) => new = Dur
  <2>1. SUFFICES ASSUME ~Intact(mem) PROVE new = Dur
    OBVIOUS
  <2>2. Capacity = 0
    BY <2>1 DEF Capacity
  <2>3. \A x \in Ix(n) : ~(x < Capacity)
    BY <1>3, <2>2 DEF Ix
  <2>4. DOMAIN Dur = Ix(n)
    BY <1>2
  <2> QED
    BY <1>2, <1>4, <2>3, <2>4
<1>9. DirPut(pm, pm', mem.dir, pm.dirs[mem.dir].depth, new)
  BY <1>1, <1>5, <1>6, ArrayOf, PutSegment
<1> QED
  BY <1>2, <1>5, <1>7, <1>8, <1>9 DEF Dur

-----------------------------------------------------------------------------
(* Every step keeps the types                                               *)

\* Steps that leave the directories alone, but for the switch of dir in pm.
LEMMA ImagesFrame ==
  ASSUME ImagesOK, mem' \in Image, pm' \in Image,
         Len(mem'.segs) = Len(pm'.segs), Len(mem'.segs) >= Len(mem.segs),
         mem'.dirs = mem.dirs, mem'.dir = mem.dir, pm'.dirs = pm.dirs, pm'.dir \in {pm.dir, mem.dir}
  PROVE  ImagesOK'
<1>1. \A d \in 1 .. Len(mem.dirs) : SizesAgree(d)'
  <2>1. SUFFICES ASSUME NEW d \in 1 .. Len(mem.dirs) PROVE SizesAgree(d)'
    OBVIOUS
  <2>2. Len(mem.segs) \in Nat /\ Len(mem'.segs) \in Nat
    BY ImageTypes DEF ImagesOK
  <2>3. Segments \subseteq Segments'
    BY <2>2 DEF Segments
  <2> QED
    BY <2>3 DEF SizesAgree, ImagesOK
<1> QED
  BY <1>1 DEF ImagesOK

\* Steps that change the directory in use.
LEMMA ImagesPut ==
  ASSUME ImagesOK, mem' \in Image, pm' \in Image, mem'.segs = mem.segs, pm'.segs = pm.segs,
         mem'.dir = mem.dir, pm'.dir = pm.dir,
         Len(mem'.dirs) = Len(mem.dirs), Len(pm'.dirs) = Len(pm.dirs),
         \A d \in 1 .. Len(mem.dirs) : d # mem.dir => mem'.dirs[d] = mem.dirs[d] /\ pm'.dirs[d] = pm.dirs[d],
         NEW n \in InitDepth .. HashBits,
         mem'.dirs[mem.dir].segment \in [Ix(n) -> Segments], mem'.dirs[mem.dir].depth \in {0, n},
         pm'.dirs[mem.dir].segment \in [Ix(n) -> Segments], pm'.dirs[mem.dir].depth \in {0, n}
  PROVE  ImagesOK'
<1>1. Segments' = Segments
  BY DEF Segments
<1>2. ASSUME NEW d \in 1 .. Len(mem.dirs) PROVE SizesAgree(d)'
  <2>1. CASE d = mem.dir
    BY <1>1, <2>1 DEF SizesAgree
  <2>2. CASE d # mem.dir
    BY <1>1, <2>2 DEF SizesAgree, ImagesOK
  <2> QED
    BY <2>1, <2>2
<1> QED
  BY <1>2 DEF ImagesOK

\* A thread moves on, with new locals.
LEMMA ThreadsStep ==
  ASSUME ThreadsOK, Len(mem.segs) \in Nat, Len(mem'.segs) \in Nat, Len(mem'.segs) >= Len(mem.segs),
         NEW t \in Threads, NEW to \in PCs, NEW l \in Locals,
         pc' = [pc EXCEPT ![t] = to], loc' = [loc EXCEPT ![t] = l], workload' = workload,
         LocalsOK(t)'
  PROVE  ThreadsOK'
<1>1. Segments \subseteq Segments'
  BY DEF Segments
<1>2. ASSUME NEW u \in Threads, u # t PROVE LocalsOK(u)'
  <2>1. pc'[u] = pc[u] /\ loc'[u] = loc[u]
    BY <1>2 DEF ThreadsOK
  <2>2. LocalsOK(u)
    BY DEF ThreadsOK
  <2> QED
    BY <1>1, <2>1, <2>2 DEF LocalsOK
<1>3. \A u \in Threads : LocalsOK(u)'
  BY <1>2
<1>4. pc' \in [Threads -> PCs] /\ loc' \in [Threads -> Locals]
  BY DEF ThreadsOK
<1> QED
  BY <1>3, <1>4 DEF ThreadsOK

\* A thread moves on inside Insert.
LEMMA ThreadsGoto ==
  ASSUME ThreadsOK, Len(mem.segs) \in Nat, Len(mem'.segs) \in Nat, Len(mem'.segs) >= Len(mem.segs),
         NEW t \in Threads, NEW from \in PCs, NEW to \in PCs, Goto(t, from, to),
         loc' = loc, from # "idle", to # "idle",
         to \in PairPCs => from \in PairPCs, to \in SplitPCs => from \in SplitPCs
  PROVE  ThreadsOK'
<1>1. pc' = [pc EXCEPT ![t] = to] /\ workload' = workload /\ pc[t] = from
  BY DEF Goto
<1>2. loc' = [loc EXCEPT ![t] = loc[t]] /\ loc[t] \in Locals
  BY DEF ThreadsOK
<1>3. pc'[t] = to /\ loc'[t] = loc[t]
  BY <1>1 DEF ThreadsOK
<1>4. Segments \subseteq Segments'
  BY DEF Segments
<1>5. LocalsOK(t)
  BY DEF ThreadsOK
<1>6. LocalsOK(t)'
  BY <1>1, <1>3, <1>4, <1>5 DEF LocalsOK
<1> QED
  BY <1>1, <1>2, <1>6, ThreadsStep

\* A thread leaves Insert, or starts it again.
LEMMA ThreadsIdle ==
  ASSUME ThreadsOK, Len(mem.segs) \in Nat, Len(mem'.segs) \in Nat, Len(mem'.segs) >= Len(mem.segs),
         NEW t \in Threads, NEW from \in PCs, Goto(t, from, "idle"), loc' = [loc EXCEPT ![t] = NoLocals]
  PROVE  ThreadsOK'
<1>1. pc' = [pc EXCEPT ![t] = "idle"] /\ workload' = workload
  BY DEF Goto
<1>2. NoLocals \in Locals
  BY Constants DEF NoLocals, Locals
<1>3. pc'[t] = "idle" /\ loc'[t] = NoLocals
  BY <1>1 DEF ThreadsOK
<1>6. LocalsOK(t)'
  BY <1>3 DEF LocalsOK, PairPCs, SplitPCs
<1>7. "idle" \in PCs
  BY DEF PCs
<1> QED
  BY <1>1, <1>2, <1>6, <1>7, ThreadsStep

\* No thread moves.
LEMMA ThreadsSame ==
  ASSUME ThreadsOK, Len(mem'.segs) = Len(mem.segs), pc' = pc, loc' = loc, workload' = workload
  PROVE  ThreadsOK'
BY DEF ThreadsOK, LocalsOK, Segments

-----------------------------------------------------------------------------
(* The inductive invariant                                                  *)

\* No two threads are in a split at once.
OneSplit == \A t, u \in Threads : pc[t] \in SplitPCs /\ pc[u] \in SplitPCs => t = u

\* Entry x is one of those that the split of t gives to the new segment; it is
\* in the range of the segment that t splits.
Upper(t, x) ==
  Top(x, Dep, ML[loc[t].target] + 1) = 2 * Prefix(loc[t].key, ML[loc[t].target]) + 1
Grouped(t, x) == Top(x, Dep, ML[loc[t].target]) = Prefix(loc[t].key, ML[loc[t].target])

\* The directory in use has the new segment in place.
Published(t) ==
  /\ ML[loc[t].target] < Dep
  /\ \A x \in Ix(Dep) : /\ Upper(t, x) => Ent[x] = loc[t].s
                        /\ Ent[x] = loc[t].target => Grouped(t, x)

\* A directory that Recovery can repair.
Sound(seg, L, D) ==
  /\ DirOK(seg, L, D)
  /\ Together(seg, seg, L, D)
  /\ \E B : Leaders(B, seg, L, D)

OldDir == /\ pm.dirs[pm.dir].depth \in {0, mem.dirs[pm.dir].depth}
          /\ Sound(pm.dirs[pm.dir].segment, ML, mem.dirs[pm.dir].depth)

\* The split of t, by how far it is.
SplitOK(t) ==
  /\ pc[t] \in {"split", "doubled", "redirected", "published"} =>
       loc[t].s # loc[t].target /\ ML[loc[t].s] = ML[loc[t].target] + 1
  /\ pc[t] = "split" => /\ Ent[Prefix(loc[t].key, Dep)] = loc[t].target
                        /\ \A x \in Ix(Dep) : Ent[x] # loc[t].s
  /\ pc[t] \in {"doubled", "redirected", "published"} => Published(t)
  /\ pc[t] = "redirected" =>
       \A x \in Ix(Dep) : /\ ~Upper(t, x) => Dur[x] = Ent[x]
                          /\ Dur[x] = loc[t].target => Grouped(t, x)
  /\ pc[t] = "doubled" => pm.dir = mem.dir \/ OldDir
  /\ pc[t] = "raised" =>
       PL = ML \/ (/\ \A g \in Segments : g # loc[t].target => PL[g] = ML[g]
                   /\ PL[loc[t].target] + 1 = ML[loc[t].target]
                   /\ \E B : Leaders(B, Dur, PL, Dep))

RunOK ==
  /\ (\A t \in Threads : pc[t] # "redirected") => Dur = Ent
  /\ (\A t \in Threads : pc[t] # "raised") => PL = ML
  /\ (\A t \in Threads : pc[t] # "doubled") => pm.dir = mem.dir
  /\ \A t \in Threads : SplitOK(t)

RecoverOK ==
  /\ \A t \in Threads : pc[t] = "idle"
  /\ pm.dir = mem.dir /\ PL = ML /\ pm.dirs[mem.dir].depth = Dep

\* Both images of the directory have their groups at the same entries, and
\* Recovery stops at those.
SameLeaders ==
  \E B : /\ Leaders(B, Ent, ML, Dep) /\ Leaders(B, Dur, ML, Dep)
         /\ \A b \in B : Ent[b] = Dur[b]
         /\ mode = "recover" => ri \in B

Shape ==
  /\ DirOK(Ent, ML, Dep) /\ DirOK(Dur, ML, Dep)
  /\ Together(Ent, Dur, ML, Dep)
  /\ SameLeaders
  /\ mode = "run" => RunOK
  /\ mode = "recover" => RecoverOK

Live == Intact(mem) => Shape
Dead == ~Intact(mem) => /\ \A t \in Threads : pc[t] = "idle"
                        /\ pm.dir = mem.dir /\ ~Intact(pm)

Inv == Typed /\ Live /\ Dead

\* What a power failure leaves.
Durable == Intact(pm) => Sound(DirOf(pm).segment, PL, DirOf(pm).depth)

\* Local depths lie between InitDepth and HashBits.
LEMMA DepthsTyped ==
  ASSUME Typed
  PROVE  /\ ML \in [Segments -> InitDepth .. HashBits] /\ PL \in [Segments -> InitDepth .. HashBits]
         /\ \A g \in Segments : /\ ML[g] \in Nat /\ PL[g] \in Nat
                                /\ ML[g] \in InitDepth .. HashBits /\ PL[g] \in InitDepth .. HashBits
                                /\ ML[g] = mem.segs[g].local_depth /\ PL[g] = pm.segs[g].local_depth
<1>1. ML \in [Segments -> InitDepth .. HashBits] /\ PL \in [Segments -> InitDepth .. HashBits]
  BY LdsTyped DEF Typed, ImagesOK, Segments, ML, PL
<1>2. \A g \in Segments : ML[g] = mem.segs[g].local_depth /\ PL[g] = pm.segs[g].local_depth
  BY LdsTyped DEF Typed, ImagesOK, Segments, ML, PL
<1>3. \A n \in InitDepth .. HashBits : n \in Nat
  BY Constants
<1> QED
  BY <1>1, <1>2, <1>3

\* The thread in a split is alone in it.
LEMMA Alone ==
  ASSUME OneSplit, NEW t \in Threads, pc[t] \in SplitPCs
  PROVE  \A u \in Threads : u # t => pc[u] \notin SplitPCs
BY DEF OneSplit

\* A directory that is sound with the depths in use is sound with smaller ones
\* that the split of one segment has not yet made durable.
LEMMA InvDurable ==
  ASSUME Inv, OneSplit
  PROVE  Durable
<1>1. SUFFICES ASSUME Intact(pm) PROVE Sound(DirOf(pm).segment, PL, DirOf(pm).depth)
  BY DEF Durable
<1>2. Intact(mem) /\ Shape /\ Typed
  BY <1>1 DEF Inv, Live, Dead
<1>3. /\ Dep \in InitDepth .. HashBits /\ Dep \in Nat
      /\ Dur \in [Ix(Dep) -> Segments] /\ pm.dirs[mem.dir].depth \in {0, Dep}
      /\ DOMAIN ML = Segments /\ DOMAIN PL = Segments
  BY <1>2, InUse
<1>4. DirOK(Dur, ML, Dep) /\ Together(Dur, Dur, ML, Dep) /\ \E B : Leaders(B, Dur, ML, Dep)
  BY <1>2, TogetherCopy DEF Shape, SameLeaders
<1>5. Sound(Dur, ML, Dep)
  BY <1>4 DEF Sound
<1>6. ASSUME pm.dir = mem.dir, PL = ML
      PROVE  Sound(DirOf(pm).segment, PL, DirOf(pm).depth)
  BY <1>1, <1>3, <1>5, <1>6 DEF DirOf, Dur, Intact
<1>7. CASE mode = "recover"
  BY <1>2, <1>6, <1>7 DEF Shape, RecoverOK
<1>8. CASE mode = "run"
  <2>1. RunOK
    BY <1>2, <1>8 DEF Shape
  <2>2. CASE \E t \in Threads : pc[t] = "raised" /\ PL # ML
    <3>1. PICK t \in Threads : pc[t] = "raised" /\ PL # ML
      BY <2>2
    <3>2. PICK g : g = loc[t].target
      OBVIOUS
    <3>3. /\ \A h \in Segments : h # g => PL[h] = ML[h]
          /\ PL[g] + 1 = ML[g] /\ \E B : Leaders(B, Dur, PL, Dep)
      BY <2>1, <3>1, <3>2 DEF RunOK, SplitOK
    <3>4. \A h \in Segments : ML[h] \in Nat /\ PL[h] \in InitDepth .. HashBits /\ PL[h] \in Nat
      BY <1>2, DepthsTyped
    <3>5. \A h \in Segments : PL[h] \in 0 .. ML[h]
      <4>1. SUFFICES ASSUME NEW h \in Segments PROVE PL[h] \in 0 .. ML[h]
        OBVIOUS
      <4>2. CASE h = g
        BY <3>3, <3>4, <4>2
      <4>3. CASE h # g
        BY <3>3, <3>4, <4>3
      <4> QED
        BY <4>2, <4>3
    <3>6. \A x \in Ix(Dep) : Dur[x] \in Segments /\ ML[Dur[x]] \in 0 .. Dep
      BY <1>3, <1>4, DirTypes
    <3>7. Together(Dur, Dur, PL, Dep)
      BY <1>3, <1>4, <3>5, <3>6, TogetherLower
    <3>8. PL \in [Segments -> InitDepth .. HashBits]
      BY <1>2, DepthsTyped
    <3>9. ASSUME NEW x \in Ix(Dep) PROVE PL[Dur[x]] <= Dep
      <4>1. Dur[x] \in Segments /\ ML[Dur[x]] \in 0 .. Dep
        BY <3>6
      <4>2. PL[Dur[x]] \in 0 .. ML[Dur[x]]
        BY <3>5, <4>1
      <4> QED
        BY <1>3, <4>1, <4>2
    <3>10. DirOK(Dur, PL, Dep)
      BY <1>3, <3>8, <3>9 DEF DirOK
    <3>11. pm.dir = mem.dir \/ \E u \in Threads : pc[u] = "doubled"
      BY <2>1 DEF RunOK
    <3>12. CASE pm.dir = mem.dir
      BY <1>1, <1>3, <3>3, <3>7, <3>10, <3>12 DEF DirOf, Dur, Intact, Sound
    <3> QED
      BY <3>1, <3>11, <3>12 DEF OneSplit, SplitPCs
  <2>3. CASE ~ \E t \in Threads : pc[t] = "raised" /\ PL # ML
    <3>1. PL = ML
      BY <2>1, <2>3 DEF RunOK
    <3>2. CASE pm.dir = mem.dir
      BY <1>6, <3>1, <3>2
    <3>3. CASE pm.dir # mem.dir
      <4>1. PICK t \in Threads : pc[t] = "doubled"
        BY <2>1, <3>3 DEF RunOK
      <4>2. OldDir
        BY <2>1, <3>3, <4>1 DEF RunOK, SplitOK
      <4>3. pm.dirs[pm.dir].depth = mem.dirs[pm.dir].depth
        BY <1>1, <4>2 DEF OldDir, Intact, DirOf
      <4> QED
        BY <3>1, <4>2, <4>3 DEF OldDir, DirOf
    <3> QED
      BY <3>2, <3>3
  <2> QED
    BY <2>2, <2>3
<1> QED
  BY <1>2, <1>7, <1>8 DEF Typed, RestOK

-----------------------------------------------------------------------------
(* Steps that move no pointer and no depth                                  *)

Quiet ==
  /\ mem'.dirs = mem.dirs /\ mem'.dir = mem.dir /\ pm'.dirs = pm.dirs /\ pm'.dir = pm.dir
  /\ ML' = ML /\ PL' = PL /\ Len(mem'.segs) = Len(mem.segs)
  /\ mode' = mode /\ ri' = ri /\ workload' = workload

Moving == {"split", "doubled", "redirected", "published", "raised"}

\* A quiet step changes no view of the directory.
LEMMA QuietViews ==
  ASSUME Quiet
  PROVE  /\ Ent' = Ent /\ Dur' = Dur /\ Dep' = Dep /\ ML' = ML /\ PL' = PL
         /\ Segments' = Segments /\ (Intact(mem)' <=> Intact(mem)) /\ (Intact(pm)' <=> Intact(pm))
BY DEF Quiet, Ent, Dur, Dep, DirOf, Segments, Intact

\* A quiet step keeps the shape, if no thread moves within a split.
LEMMA QuietShape ==
  ASSUME Live, Dead, Quiet, ThreadsOK, ThreadsOK', (Intact(mem) /\ mode = "run") \/ pc' = pc,
         \A u \in Threads : pc[u] \in Moving \/ pc'[u] \in Moving => pc'[u] = pc[u] /\ loc'[u] = loc[u]
  PROVE  Live' /\ Dead'
<1>1. /\ Ent' = Ent /\ Dur' = Dur /\ Dep' = Dep /\ ML' = ML /\ PL' = PL
      /\ Segments' = Segments /\ (Intact(mem)' <=> Intact(mem)) /\ (Intact(pm)' <=> Intact(pm))
      /\ mode' = mode /\ ri' = ri
      /\ mem'.dirs = mem.dirs /\ mem'.dir = mem.dir /\ pm'.dirs = pm.dirs /\ pm'.dir = pm.dir
  BY QuietViews DEF Quiet
<1>2. Dead'
  <2>1. SUFFICES ASSUME ~Intact(mem) PROVE (\A t \in Threads : pc'[t] = "idle") /\ pm.dir = mem.dir /\ ~Intact(pm)
    BY <1>1 DEF Dead
  <2> QED
    BY <2>1 DEF Dead
<1>3. Live'
  <2>1. SUFFICES ASSUME Intact(mem) PROVE Shape'
    BY <1>1 DEF Live
  <2>2. Shape
    BY <2>1 DEF Live
  <2>3. DirOK(Ent, ML, Dep)' /\ DirOK(Dur, ML, Dep)' /\ Together(Ent, Dur, ML, Dep)' /\ SameLeaders'
    BY <1>1, <2>2 DEF Shape, SameLeaders
  <2>4. ASSUME mode = "recover" PROVE RecoverOK'
    <3>1. RecoverOK /\ pc' = pc
      BY <2>2, <2>4 DEF Shape
    <3> QED
      BY <1>1, <3>1 DEF RecoverOK
  <2>5. ASSUME mode = "run" PROVE RunOK'
    <3>1. RunOK
      BY <2>2, <2>5 DEF Shape
    <3>2. ASSUME NEW t \in Threads PROVE SplitOK(t)'
      <4>1. SplitOK(t)
        BY <3>1 DEF RunOK
      <4>2. CASE pc'[t] \notin Moving
        BY <4>2 DEF SplitOK, Moving
      <4>3. CASE pc'[t] \in Moving
        <5>1. pc'[t] = pc[t] /\ loc'[t] = loc[t]
          BY <4>3
        <5> QED
          BY <1>1, <4>1, <5>1 DEF SplitOK, Published, Upper, Grouped, OldDir
      <4> QED
        BY <4>2, <4>3
    <3>3. ASSUME NEW p \in {"redirected", "raised", "doubled"}, \A t \in Threads : pc'[t] # p
          PROVE  \A t \in Threads : pc[t] # p
      BY <3>3 DEF Moving
    <3>4. (\A t \in Threads : pc'[t] # "redirected") => Dur' = Ent'
      BY <1>1, <3>1, <3>3 DEF RunOK
    <3>5. (\A t \in Threads : pc'[t] # "raised") => PL' = ML'
      BY <1>1, <3>1, <3>3 DEF RunOK
    <3>6. (\A t \in Threads : pc'[t] # "doubled") => pm'.dir = mem'.dir
      BY <1>1, <3>1, <3>3 DEF RunOK
    <3> QED
      BY <3>2, <3>4, <3>5, <3>6 DEF RunOK
  <2> QED
    BY <1>1, <2>3, <2>4, <2>5 DEF Shape
<1> QED
  BY <1>2, <1>3

\* A step of a thread that neither starts, continues nor ends the part of a split
\* that moves pointers.
LEMMA QuietGoto ==
  ASSUME Live, Dead, Quiet, ThreadsOK, ThreadsOK', NEW t \in Threads, NEW from, NEW to, NEW l,
         Goto(t, from, to), loc' = [loc EXCEPT ![t] = l] \/ loc' = loc,
         from \notin Moving, to \notin Moving, from # "idle" \/ Intact(mem)
  PROVE  Live' /\ Dead'
<1>1. mode = "run" /\ pc[t] = from /\ pc' = [pc EXCEPT ![t] = to]
  BY DEF Goto
<1>2. Intact(mem)
  BY <1>1 DEF Dead
<1>3. \A u \in Threads : pc[u] \in Moving \/ pc'[u] \in Moving => pc'[u] = pc[u] /\ loc'[u] = loc[u]
  BY <1>1 DEF ThreadsOK
<1> QED
  BY <1>1, <1>2, <1>3, QuietShape

\* What the steps of Insert that touch a single word of a segment leave alone.
LEMMA MemQuiet ==
  ASSUME Typed, NEW i \in 1 .. Len(mem.segs), NEW bucket, NEW sema,
         SegPut(mem, mem', i, bucket, sema, mem.segs[i].local_depth),
         pm' = pm, mode' = mode, ri' = ri, workload' = workload
  PROVE  Quiet /\ ImagesOK' /\ Len(mem.segs) \in Nat /\ Len(mem'.segs) = Len(mem.segs)
         /\ Len(mem'.segs) \in Nat /\ Len(mem'.segs) >= Len(mem.segs)
<1>1. mem \in Image /\ pm \in Image /\ ImagesOK
  BY DEF Typed, ImagesOK
<1>2. Lds(mem') = Lds(mem)
  BY <1>1, LdsKept
<1>3. Quiet
  BY <1>2 DEF Quiet, SegPut, ML, PL
<1>4. Len(mem.segs) \in Nat
  BY <1>1, ImageTypes
<1>5. mem' \in Image /\ Len(mem'.segs) = Len(mem.segs) /\ Len(mem.segs) = Len(pm.segs)
      /\ mem'.dirs = mem.dirs /\ mem'.dir = mem.dir
  BY <1>1 DEF SegPut, ImagesOK
<1>6. ImagesOK'
  BY <1>1, <1>4, <1>5, ImagesFrame
<1> QED
  BY <1>3, <1>4, <1>5, <1>6

\* A store to pm that leaves local_depth alone is quiet.
LEMMA PmQuiet ==
  ASSUME Typed, NEW i \in 1 .. Len(mem.segs), NEW bucket, NEW sema,
         SegPut(pm, pm', i, bucket, sema, pm.segs[i].local_depth),
         mem' = mem, mode' = mode, ri' = ri, workload' = workload
  PROVE  Quiet /\ ImagesOK' /\ Len(mem.segs) \in Nat /\ Len(mem'.segs) = Len(mem.segs)
         /\ Len(mem'.segs) \in Nat /\ Len(mem'.segs) >= Len(mem.segs)
<1>1. mem \in Image /\ pm \in Image /\ ImagesOK /\ i \in 1 .. Len(pm.segs)
  BY DEF Typed, ImagesOK
<1>2. Lds(pm') = Lds(pm)
  BY <1>1, LdsKept
<1>3. Quiet
  BY <1>2 DEF Quiet, SegPut, ML, PL
<1>4. Len(mem.segs) \in Nat
  BY <1>1, ImageTypes
<1>5. pm' \in Image /\ Len(pm'.segs) = Len(pm.segs) /\ Len(mem.segs) = Len(pm.segs)
      /\ pm'.dirs = pm.dirs /\ pm'.dir = pm.dir
  BY <1>1 DEF SegPut, ImagesOK
<1>6. ImagesOK'
  BY <1>1, <1>4, <1>5, ImagesFrame
<1> QED
  BY <1>3, <1>4, <1>6

\* Claim keeps the invariant.
LEMMA ClaimInv ==
  ASSUME Inv, NEW t \in Threads, NEW k \in workload.keys, NEW i \in DOMAIN mem.segs, NEW j \in Slots,
         Claim(t, k, i, j)
  PROVE  Inv' /\ Quiet
<1>1. Typed /\ Live /\ Dead /\ ThreadsOK /\ RestOK /\ mem \in Image
  BY DEF Inv, Typed, ImagesOK
<1>2. i \in 1 .. Len(mem.segs)
  BY <1>1, ImageTypes
<1>3. SegPut(mem, mem', i, [mem.segs[i].bucket EXCEPT ![j] = SENTINEL],
                mem.segs[i].sema + 1, mem.segs[i].local_depth)
  BY <1>1, <1>2, ClaimEffect
<1>4. Goto(t, "idle", "claimed") /\ pm' = pm /\ acked' = acked /\ Intact(mem)
  BY DEF Claim, Opens
<1>5. Quiet /\ ImagesOK' /\ Len(mem.segs) \in Nat /\ Len(mem'.segs) = Len(mem.segs)
      /\ Len(mem'.segs) \in Nat /\ Len(mem'.segs) >= Len(mem.segs)
  BY <1>1, <1>2, <1>3, <1>4, MemQuiet DEF Goto
<1>6. PICK l : l = [NoLocals EXCEPT !.key = k, !.target = i, !.slot = j]
  OBVIOUS
<1>7. l = [key |-> k, target |-> i, slot |-> j, s |-> 0]
  BY <1>6 DEF NoLocals
<1>8. k \in KeyWords /\ i \in Nat /\ j \in Nat
  BY <1>1, <1>2, Constants DEF RestOK, Slots
<1>9. l \in Locals /\ loc' = [loc EXCEPT ![t] = l]
  BY <1>6, <1>7, <1>8 DEF Locals, Claim
<1>10. pc' = [pc EXCEPT ![t] = "claimed"] /\ workload' = workload /\ "claimed" \in PCs
  BY <1>4 DEF Goto, PCs, PairPCs
<1>11. LocalsOK(t)'
  BY <1>1, <1>2, <1>5, <1>7, <1>9, <1>10 DEF LocalsOK, ThreadsOK, Segments, PairPCs, SplitPCs
<1>12. ThreadsOK'
  BY <1>1, <1>5, <1>9, <1>10, <1>11, ThreadsStep
<1>13. Live' /\ Dead'
  BY <1>1, <1>4, <1>5, <1>9, <1>12, QuietGoto DEF Moving
<1>14. RestOK'
  BY <1>1, <1>4 DEF RestOK, Goto
<1> QED
  BY <1>5, <1>12, <1>13, <1>14 DEF Inv, Typed

\* StoreKey keeps the invariant.
LEMMA StoreKeyInv ==
  ASSUME Inv, NEW t \in Threads, StoreKey(t)
  PROVE  Inv' /\ Quiet
<1>1. Typed /\ Live /\ Dead /\ ThreadsOK /\ RestOK
  BY DEF Inv, Typed
<1>2. PICK i : i = loc[t].target
  OBVIOUS
<1>3. SegPut(mem, mem', i, [mem.segs[i].bucket EXCEPT ![loc[t].slot] = loc[t].key],
                mem.segs[i].sema, mem.segs[i].local_depth)
  BY <1>1, <1>2, StoreKeyEffect
<1>4. Goto(t, "claimed", "stored") /\ pm' = pm /\ acked' = acked /\ loc' = loc
  BY DEF StoreKey
<1>5. i \in 1 .. Len(mem.segs)
  BY <1>1, <1>2, <1>4 DEF ThreadsOK, LocalsOK, Goto, Segments
<1>6. Quiet /\ ImagesOK' /\ Len(mem.segs) \in Nat /\ Len(mem'.segs) = Len(mem.segs)
      /\ Len(mem'.segs) \in Nat /\ Len(mem'.segs) >= Len(mem.segs)
  BY <1>1, <1>3, <1>4, <1>5, MemQuiet DEF Goto
<1>7. ThreadsOK'
  BY <1>1, <1>4, <1>6, ThreadsGoto DEF PCs, PairPCs, SplitPCs
<1>8. Live' /\ Dead'
  BY <1>1, <1>4, <1>6, <1>7, QuietGoto DEF Moving
<1>9. RestOK'
  BY <1>1, <1>4 DEF RestOK, Goto
<1> QED
  BY <1>6, <1>7, <1>8, <1>9 DEF Inv, Typed

\* PersistPair keeps the invariant.
LEMMA PersistPairInv ==
  ASSUME Inv, NEW t \in Threads, PersistPair(t)
  PROVE  Inv' /\ Quiet
<1>1. Typed /\ Live /\ Dead /\ ThreadsOK /\ RestOK
  BY DEF Inv, Typed
<1>2. PICK i : i = loc[t].target
  OBVIOUS
<1>3. SegPut(pm, pm', i, [pm.segs[i].bucket EXCEPT ![loc[t].slot] = mem.segs[i].bucket[loc[t].slot]],
                pm.segs[i].sema, pm.segs[i].local_depth)
  BY <1>1, <1>2, PersistPairEffect
<1>4. Goto(t, "stored", "persisted") /\ mem' = mem /\ acked' = acked /\ loc' = loc
  BY DEF PersistPair
<1>5. i \in 1 .. Len(mem.segs)
  BY <1>1, <1>2, <1>4 DEF ThreadsOK, LocalsOK, Goto, Segments
<1>6. Quiet /\ ImagesOK' /\ Len(mem.segs) \in Nat /\ Len(mem'.segs) = Len(mem.segs)
      /\ Len(mem'.segs) \in Nat /\ Len(mem'.segs) >= Len(mem.segs)
  BY <1>1, <1>3, <1>4, <1>5, PmQuiet DEF Goto
<1>7. ThreadsOK'
  BY <1>1, <1>4, <1>6, ThreadsGoto DEF PCs, PairPCs, SplitPCs
<1>8. Live' /\ Dead'
  BY <1>1, <1>4, <1>6, <1>7, QuietGoto DEF Moving
<1>9. RestOK'
  BY <1>1, <1>4 DEF RestOK, Goto
<1> QED
  BY <1>6, <1>7, <1>8, <1>9 DEF Inv, Typed

\* ReturnInsert keeps the invariant.
LEMMA ReturnInsertInv ==
  ASSUME Inv, NEW t \in Threads, ReturnInsert(t)
  PROVE  Inv' /\ Quiet
<1>1. Typed /\ Live /\ Dead /\ ThreadsOK /\ RestOK
  BY DEF Inv, Typed
<1>2. PICK i : i = loc[t].target
  OBVIOUS
<1>3. SegPut(mem, mem', i, mem.segs[i].bucket, mem.segs[i].sema - 1, mem.segs[i].local_depth)
  BY <1>1, <1>2, ReturnInsertEffect
<1>4. Goto(t, "persisted", "idle") /\ pm' = pm /\ loc' = [loc EXCEPT ![t] = NoLocals]
      /\ acked' = acked \cup {loc[t].key}
  BY DEF ReturnInsert
<1>5. i \in 1 .. Len(mem.segs) /\ loc[t].key \in workload.keys
  BY <1>1, <1>2, <1>4 DEF ThreadsOK, LocalsOK, Goto, Segments
<1>6. Quiet /\ ImagesOK' /\ Len(mem.segs) \in Nat /\ Len(mem'.segs) = Len(mem.segs)
      /\ Len(mem'.segs) \in Nat /\ Len(mem'.segs) >= Len(mem.segs)
  BY <1>1, <1>3, <1>4, <1>5, MemQuiet DEF Goto
<1>7. ThreadsOK'
  BY <1>1, <1>4, <1>6, ThreadsIdle DEF PCs, PairPCs
<1>8. Live' /\ Dead'
  BY <1>1, <1>4, <1>6, <1>7, QuietGoto DEF Moving
<1>9. RestOK'
  BY <1>1, <1>4, <1>5, Constants DEF RestOK, Goto
<1> QED
  BY <1>6, <1>7, <1>8, <1>9 DEF Inv, Typed

\* Reopen keeps the invariant.
LEMMA ReopenInv ==
  ASSUME Inv, NEW t \in Threads, Reopen(t)
  PROVE  Inv' /\ Quiet
<1>1. Typed /\ Live /\ Dead /\ ThreadsOK /\ RestOK
  BY DEF Inv, Typed
<1>2. PICK i : i = loc[t].target
  OBVIOUS
<1>3. SegPut(mem, mem', i, mem.segs[i].bucket, 0, mem.segs[i].local_depth)
  BY <1>1, <1>2, ReopenEffect
<1>4. Goto(t, "reopen", "idle") /\ pm' = pm /\ loc' = [loc EXCEPT ![t] = NoLocals] /\ acked' = acked
  BY DEF Reopen
<1>5. i \in 1 .. Len(mem.segs)
  BY <1>1, <1>2, <1>4 DEF ThreadsOK, LocalsOK, Goto, Segments
<1>6. Quiet /\ ImagesOK' /\ Len(mem.segs) \in Nat /\ Len(mem'.segs) = Len(mem.segs)
      /\ Len(mem'.segs) \in Nat /\ Len(mem'.segs) >= Len(mem.segs)
  BY <1>1, <1>3, <1>4, <1>5, MemQuiet DEF Goto
<1>7. ThreadsOK'
  BY <1>1, <1>4, <1>6, ThreadsIdle DEF PCs, SplitPCs
<1>8. Live' /\ Dead'
  BY <1>1, <1>4, <1>6, <1>7, QuietGoto DEF Moving
<1>9. RestOK'
  BY <1>1, <1>4 DEF RestOK, Goto
<1> QED
  BY <1>6, <1>7, <1>8, <1>9 DEF Inv, Typed

\* The eviction of a slot keeps the invariant.
LEMMA EvictSlotInv ==
  ASSUME Inv, NEW i \in 1 .. Len(mem.segs), NEW j \in Slots,
         pm' = [pm EXCEPT !.segs[i].bucket[j] = mem.segs[i].bucket[j]],
         UNCHANGED <<mem, pc, loc, acked, mode, ri, crashes, workload>>
  PROVE  Inv' /\ Quiet
<1>1. Typed /\ Live /\ Dead /\ ThreadsOK /\ RestOK
  BY DEF Inv, Typed
<1>3. SegPut(pm, pm', i, [pm.segs[i].bucket EXCEPT ![j] = mem.segs[i].bucket[j]],
                pm.segs[i].sema, pm.segs[i].local_depth)
  BY <1>1, EvictSlotEffect
<1>6. Quiet /\ ImagesOK'
  BY <1>1, <1>3, PmQuiet
<1>7. ThreadsOK'
  BY <1>1, ThreadsSame
<1>8. Live' /\ Dead'
  BY <1>1, <1>6, <1>7, QuietShape
<1>9. RestOK'
  BY <1>1 DEF RestOK
<1> QED
  BY <1>6, <1>7, <1>8, <1>9 DEF Inv, Typed

-----------------------------------------------------------------------------
(* The steps of a split                                                     *)

\* Where the only thread in a split is says what the images may differ in.
LEMMA RunAlone ==
  ASSUME NEW t \in Threads, \A u \in Threads : u # t => pc[u] \notin SplitPCs
  PROVE  RunOK <=> /\ SplitOK(t)
                   /\ pc[t] # "redirected" => Dur = Ent
                   /\ pc[t] # "raised" => PL = ML
                   /\ pc[t] # "doubled" => pm.dir = mem.dir
<1>1. \A u \in Threads : u # t => SplitOK(u)
  BY DEF SplitOK, SplitPCs
<1>2. \A p \in {"redirected", "raised", "doubled"} : (\A u \in Threads : pc[u] # p) <=> pc[t] # p
  BY DEF SplitPCs
<1> QED
  BY <1>1, <1>2 DEF RunOK

\* Before a step of a split.
LEMMA SplitBegins ==
  ASSUME Inv, OneSplit, NEW t \in Threads, NEW from \in SplitPCs, NEW to, Goto(t, from, to)
  PROVE  /\ Typed /\ ImagesOK /\ ThreadsOK /\ RestOK /\ Intact(mem) /\ Shape /\ mode = "run"
         /\ SplitOK(t) /\ pc[t] = from
         /\ loc[t].key \in KeyWords /\ loc[t].target \in Segments /\ loc[t].s \in Segments
         /\ loc[t].key \in workload.keys
         /\ \A u \in Threads : u # t => pc[u] \notin SplitPCs /\ pc'[u] \notin SplitPCs
         /\ pc' = [pc EXCEPT ![t] = to] /\ pc'[t] = to
         /\ from # "redirected" => Dur = Ent
         /\ from # "raised" => PL = ML
         /\ from # "doubled" => pm.dir = mem.dir
         /\ Len(mem.segs) \in Nat
<1>1. Typed /\ ImagesOK /\ ThreadsOK /\ RestOK /\ mode = "run" /\ pc[t] = from
  BY DEF Inv, Typed, Goto
<1>2. Intact(mem) /\ Shape
  BY <1>1 DEF Inv, Live, Dead, SplitPCs
<1>3. loc[t].key \in workload.keys /\ loc[t].target \in Segments /\ loc[t].s \in Segments
  BY <1>1 DEF ThreadsOK, LocalsOK, SplitPCs
<1>4. loc[t].key \in KeyWords
  BY <1>1, <1>3, Constants DEF RestOK
<1>5. pc' = [pc EXCEPT ![t] = to] /\ pc'[t] = to /\ \A u \in Threads : u # t => pc'[u] = pc[u]
  BY <1>1 DEF Goto, ThreadsOK
<1>6. \A u \in Threads : u # t => pc[u] \notin SplitPCs /\ pc'[u] \notin SplitPCs
  BY <1>1, <1>5, Alone
<1>7. RunOK
  BY <1>1, <1>2 DEF Shape
<1>8. /\ SplitOK(t)
      /\ pc[t] # "redirected" => Dur = Ent
      /\ pc[t] # "raised" => PL = ML
      /\ pc[t] # "doubled" => pm.dir = mem.dir
  BY <1>6, <1>7, RunAlone
<1>9. Len(mem.segs) \in Nat
  BY <1>1, ImageTypes DEF ImagesOK
<1> QED
  BY <1>1, <1>2, <1>3, <1>4, <1>5, <1>6, <1>8, <1>9

\* After it.
LEMMA SplitEnds ==
  ASSUME NEW t \in Threads, \A u \in Threads : u # t => pc'[u] \notin SplitPCs,
         ImagesOK', ThreadsOK', RestOK', Intact(mem)', mode' = "run",
         DirOK(Ent', ML', Dep'), DirOK(Dur', ML', Dep'), Together(Ent', Dur', ML', Dep'),
         NEW B, Leaders(B, Ent', ML', Dep'), Leaders(B, Dur', ML', Dep'), \A b \in B : Ent'[b] = Dur'[b],
         SplitOK(t)', pc'[t] # "redirected" => Dur' = Ent', pc'[t] # "raised" => PL' = ML',
         pc'[t] # "doubled" => pm'.dir = mem'.dir
  PROVE  Inv'
<1>1. RunOK' <=> /\ SplitOK(t)'
                 /\ pc'[t] # "redirected" => Dur' = Ent'
                 /\ pc'[t] # "raised" => PL' = ML'
                 /\ pc'[t] # "doubled" => pm'.dir = mem'.dir
  <2>1. \A u \in Threads : u # t => SplitOK(u)'
    BY DEF SplitOK, SplitPCs
  <2>2. \A p \in {"redirected", "raised", "doubled"} : (\A u \in Threads : pc'[u] # p) <=> pc'[t] # p
    BY DEF SplitPCs
  <2> QED
    BY <2>1, <2>2 DEF RunOK
<1>2. RunOK'
  BY <1>1
<1>3. SameLeaders'
  BY DEF SameLeaders
<1>4. Shape'
  BY <1>2, <1>3 DEF Shape
<1> QED
  BY <1>4 DEF Inv, Typed, Live, Dead

\* What the steps do to the views of the directory.
SplitViews ==
  /\ Ent' = Ent /\ Dur' = Dur /\ Dep' = Dep /\ Dur = Ent /\ PL = ML
  /\ \A g \in Segments : g \in Segments' /\ ML'[g] = ML[g]

DoubleViews(t) ==
  /\ Dur = Ent /\ Dep' = Dep + 1 /\ Dur' = Ent' /\ PL = ML /\ ML' = ML
  /\ Dep < HashBits /\ ML[loc[t].target] = Dep
  /\ \A n \in Ix(Dep + 1) : Ent'[n] = IF n = 2 * Prefix(loc[t].key, Dep) + 1 THEN loc[t].s ELSE Ent[n \div 2]
  /\ pm'.dirs[pm'.dir].segment = Ent /\ mem'.dirs[pm'.dir].depth = Dep
  /\ mem'.segs = mem.segs /\ pm'.segs = pm.segs

StoreViews(t) ==
  /\ Dur = Ent /\ Dep' = Dep /\ Dur' = Dur /\ PL = ML /\ ML' = ML /\ ML[loc[t].target] < Dep
  /\ \A y \in Ix(Dep) : Ent'[y] = IF Upper(t, y) THEN loc[t].s ELSE Ent[y]
  /\ mem'.segs = mem.segs /\ pm'.segs = pm.segs

RaiseViews(t) ==
  /\ Dur = Ent /\ Ent' = Ent /\ Dur' = Dur /\ Dep' = Dep /\ PL = ML /\ PL' = ML
  /\ ML' = [ML EXCEPT ![loc[t].target] = ML[loc[t].target] + 1] /\ Segments' = Segments
  /\ pm' = pm /\ \A g \in Segments : mem'.segs[g].bucket = mem.segs[g].bucket

\* mem stays; pm may become what mem is.
EvictViews ==
  /\ Intact(mem) => \A x \in Ix(Dep) : Dur'[x] \in {Dur[x], Ent[x]}
  /\ \A g \in Segments : PL'[g] \in {PL[g], ML[g]}
  /\ pm'.dir \in {pm.dir, mem.dir}
  /\ \A d \in 1 .. Len(mem.dirs) : d # mem.dir => pm'.dirs[d] = pm.dirs[d]
  /\ \A g \in Segments : \A j \in Slots :
       pm'.segs[g].bucket[j] \in {pm.segs[g].bucket[j], mem.segs[g].bucket[j]}

RecoverViews ==
  /\ Dur' = Dur /\ Dep' = Dep /\ ML' = ML /\ Intact(mem)
  /\ mem'.segs = mem.segs /\ pm'.segs = pm.segs
  /\ ri \in Ix(Dep) /\ ri' = ri + Pow2[Dep - ML[Ent[ri]]]
  /\ \A x \in Ix(Dep) :
       Ent'[x] = IF x \in ri + 1 .. ri' - 1 /\ ML[Ent[x]] # ML[Ent[ri]] THEN Ent[ri] ELSE Ent[x]

\* Split keeps the invariant: nobody knows the new segment yet.
LEMMA SplitInv ==
  ASSUME Inv, OneSplit', NEW t \in Threads, NEW k \in workload.keys, NEW i \in DOMAIN mem.segs,
         Split(t, k, i)
  PROVE  Inv' /\ SplitViews
<1>1. Typed /\ ImagesOK /\ ThreadsOK /\ RestOK /\ mem \in Image /\ pm \in Image
      /\ Len(mem.segs) \in Nat /\ Len(mem.segs) = Len(pm.segs)
  BY ImageTypes DEF Inv, Typed, ImagesOK
<1>2. i \in 1 .. Len(mem.segs)
  BY <1>1, ImageTypes
<1>3. PICK l : l = [NoLocals EXCEPT !.key = k, !.target = i, !.s = Len(mem.segs) + 1]
  OBVIOUS
<1>4. /\ Goto(t, "idle", "split") /\ acked' = acked /\ Intact(mem) /\ i = HomeIn(mem, k)
      /\ loc' = [loc EXCEPT ![t] = l]
  BY <1>3 DEF Split, Opens
<1>5. /\ mode = "run" /\ mode' = "run" /\ pc[t] = "idle" /\ pc' = [pc EXCEPT ![t] = "split"]
      /\ workload' = workload
  BY <1>4 DEF Goto
<1>6. pc'[t] = "split" /\ loc'[t] = l /\ \A u \in Threads : u # t => pc'[u] = pc[u]
  BY <1>1, <1>4, <1>5 DEF ThreadsOK
<1>7. \A u \in Threads : u # t => pc'[u] \notin SplitPCs
  BY <1>6 DEF OneSplit, SplitPCs
<1>8. \A u \in Threads : u # t => pc[u] \notin SplitPCs
  BY <1>6, <1>7
<1>9. Shape /\ RunOK
  BY <1>4, <1>5 DEF Inv, Live, Shape
<1>10. Dur = Ent /\ PL = ML /\ pm.dir = mem.dir
  BY <1>5, <1>8, <1>9, RunAlone
<1>11. PICK m : /\ SegPut(mem, m, i, mem.segs[i].bucket, -1, mem.segs[i].local_depth)
                /\ SegAdd(m, mem', Half(i)) /\ SegAdd(pm, pm', Half(i))
  BY <1>1, <1>2, SplitEffect
<1>12. /\ m \in Image /\ Len(m.segs) = Len(mem.segs) /\ Lds(m) = Lds(mem)
       /\ m.dirs = mem.dirs /\ m.dir = mem.dir
  <2>1. Lds(m) = Lds(mem)
    BY <1>1, <1>2, <1>11, LdsKept
  <2> QED
    BY <1>11, <2>1 DEF SegPut
<1>13. /\ mem' \in Image /\ pm' \in Image /\ Len(mem'.segs) = Len(mem.segs) + 1
       /\ Len(pm'.segs) = Len(mem.segs) + 1
       /\ mem'.dirs = mem.dirs /\ mem'.dir = mem.dir /\ pm'.dirs = pm.dirs /\ pm'.dir = pm.dir
  BY <1>1, <1>11, <1>12 DEF SegAdd
<1>14. ImagesOK'
  BY <1>1, <1>13, ImagesFrame
<1>15. /\ DOMAIN ML' = 1 .. Len(mem.segs) + 1 /\ DOMAIN PL' = 1 .. Len(mem.segs) + 1
       /\ ML'[Len(mem.segs) + 1] = Half(i).local_depth /\ PL'[Len(mem.segs) + 1] = Half(i).local_depth
       /\ \A g \in 1 .. Len(mem.segs) : ML'[g] = ML[g] /\ PL'[g] = PL[g]
  BY <1>1, <1>11, <1>12, LdsAdd DEF ML, PL
<1>16. Half(i).local_depth = ML[i] + 1 /\ i \in Segments
  BY <1>1, <1>2, DepthsTyped DEF Half, Segments
<1>17. /\ ML' \in [1 .. Len(mem.segs) + 1 -> InitDepth .. HashBits]
       /\ PL' \in [1 .. Len(mem.segs) + 1 -> InitDepth .. HashBits]
  BY <1>13, LdsTyped DEF ML, PL
<1>18. PL' = ML'
  <2>1. \A g \in 1 .. Len(mem.segs) + 1 : PL'[g] = ML'[g]
    <3>1. SUFFICES ASSUME NEW g \in 1 .. Len(mem.segs) + 1 PROVE PL'[g] = ML'[g]
      OBVIOUS
    <3>2. g = Len(mem.segs) + 1 \/ g \in 1 .. Len(mem.segs)
      BY <1>1
    <3> QED
      BY <1>10, <1>15, <3>2
  <2> QED
    BY <1>17, <2>1
<1>19. Ent' = Ent /\ Dur' = Dur /\ Dep' = Dep /\ Intact(mem)'
  BY <1>4, <1>13 DEF Ent, Dur, Dep, DirOf, Intact
<1>20. /\ Dep \in InitDepth .. HashBits /\ Ent \in [Ix(Dep) -> Segments]
       /\ DOMAIN ML = Segments /\ DirOK(Ent, ML, Dep) /\ Together(Ent, Ent, ML, Dep)
  BY <1>1, <1>4, <1>9, <1>10, InUse DEF Shape
<1>21. \A x \in Ix(Dep) : Ent[x] \in 1 .. Len(mem.segs) /\ ML'[Ent[x]] = ML[Ent[x]]
  BY <1>15, <1>20 DEF Segments
<1>22. DirOK(Ent', ML', Dep')
  <2>1. \A x \in Ix(Dep) : ML'[Ent[x]] <= Dep
    BY <1>20, <1>21 DEF DirOK
  <2>2. Ent \in [Ix(Dep) -> DOMAIN ML']
    <3>1. \A g \in Segments : g \in DOMAIN ML'
      BY <1>1, <1>15 DEF Segments
    <3> QED
      BY <1>20, <3>1
  <2>3. ML' \in [DOMAIN ML' -> InitDepth .. HashBits]
    BY <1>17
  <2> QED
    BY <1>19, <1>20, <2>1, <2>2, <2>3 DEF DirOK
<1>23. Together(Ent', Dur', ML', Dep')
  BY <1>10, <1>19, <1>20, <1>21, TogetherDepths
<1>24. PICK B : Leaders(B, Ent, ML, Dep)
  BY <1>9 DEF Shape, SameLeaders
<1>25. Leaders(B, Ent', ML', Dep')
  BY <1>19, <1>21, <1>24, LeadersDepths
<1>26. l = [key |-> k, target |-> i, slot |-> 0, s |-> Len(mem.segs) + 1]
  BY <1>3 DEF NoLocals
<1>27. k \in KeyWords
  BY <1>1, Constants DEF RestOK
<1>28. SplitOK(t)'
  <2>1. loc'[t].key = k /\ loc'[t].target = i /\ loc'[t].s = Len(mem.segs) + 1
    BY <1>6, <1>26
  <2>2. Len(mem.segs) + 1 # i /\ ML'[Len(mem.segs) + 1] = ML'[i] + 1
    BY <1>1, <1>2, <1>15, <1>16
  <2>3. Ent'[Prefix(k, Dep')] = i
    BY <1>4, <1>19 DEF HomeIn, Ent, Dep
  <2>4. \A x \in Ix(Dep') : Ent'[x] # Len(mem.segs) + 1
    <3>1. \A g \in 1 .. Len(mem.segs) : g # Len(mem.segs) + 1
      BY <1>1
    <3> QED
      BY <1>19, <1>21, <3>1
  <2> QED
    BY <1>6, <2>1, <2>2, <2>3, <2>4 DEF SplitOK
<1>29. ThreadsOK'
  <2>1. l \in Locals /\ "split" \in PCs /\ Len(mem'.segs) >= Len(mem.segs) /\ Len(mem'.segs) \in Nat
    BY <1>1, <1>2, <1>13, <1>26, <1>27 DEF Locals, PCs, SplitPCs
  <2>2. i \in 1 .. Len(mem.segs) + 1 /\ Len(mem.segs) + 1 \in 1 .. Len(mem.segs) + 1
    BY <1>1, <1>2
  <2>3. LocalsOK(t)'
    BY <1>5, <1>6, <1>13, <1>26, <2>2 DEF LocalsOK, Segments, PairPCs, SplitPCs
  <2> QED
    BY <1>1, <1>4, <1>5, <2>1, <2>3, ThreadsStep
<1>30. RestOK'
  BY <1>1, <1>4 DEF RestOK, Goto
<1>31. Dur' = Ent' /\ pm'.dir = mem'.dir
  BY <1>10, <1>13, <1>19
<1>32. DirOK(Dur', ML', Dep') /\ Leaders(B, Dur', ML', Dep')
  BY <1>22, <1>25, <1>31
<1>33. Inv'
  BY <1>5, <1>7, <1>14, <1>18, <1>19, <1>22, <1>23, <1>25, <1>28, <1>29, <1>30, <1>31, <1>32, SplitEnds
<1>34. SplitViews
  <2>1. \A g \in Segments : g \in Segments' /\ ML'[g] = ML[g]
    BY <1>1, <1>13, <1>15 DEF Segments
  <2> QED
    BY <1>10, <1>19, <2>1 DEF SplitViews
<1> QED
  BY <1>33, <1>34

\* DoubleDir keeps the invariant: the old directory stays behind in pm.
LEMMA DoubleDirInv ==
  ASSUME Inv, OneSplit, NEW t \in Threads, DoubleDir(t)
  PROVE  Inv' /\ DoubleViews(t)
<1>0. /\ Goto(t, "split", "doubled") /\ Target(t).local_depth = DirOf(mem).depth
      /\ loc' = loc /\ acked' = acked
  BY DEF DoubleDir
<1>1. /\ Typed /\ ImagesOK /\ ThreadsOK /\ RestOK /\ Intact(mem) /\ Shape /\ mode = "run"
      /\ SplitOK(t) /\ pc[t] = "split"
      /\ loc[t].key \in KeyWords /\ loc[t].target \in Segments /\ loc[t].s \in Segments
      /\ \A u \in Threads : u # t => pc[u] \notin SplitPCs /\ pc'[u] \notin SplitPCs
      /\ pc'[t] = "doubled" /\ Dur = Ent /\ PL = ML /\ pm.dir = mem.dir /\ Len(mem.segs) \in Nat
  <2>1. "split" \in SplitPCs
    BY DEF SplitPCs
  <2> QED
    BY <1>0, <2>1, SplitBegins
<1>2. PICK D : D = Dep
  OBVIOUS
<1>3. PICK s : s = loc[t].s
  OBVIOUS
<1>4. PICK g : g = loc[t].target
  OBVIOUS
<1>5. PICK k : k = loc[t].key
  OBVIOUS
<1>6. PICK x : x = Prefix(k, D)
  OBVIOUS
<1>7. s # g /\ ML[s] = ML[g] + 1 /\ Ent[x] = g /\ \A y \in Ix(D) : Ent[y] # s
  BY <1>1, <1>2, <1>3, <1>4, <1>5, <1>6 DEF SplitOK
<1>8. ML[g] = D
  BY <1>0, <1>1, <1>2, <1>4, DepthsTyped DEF Target, Dep
<1>9. /\ D \in InitDepth .. HashBits /\ D \in Nat /\ D \in 0 .. HashBits /\ Ent \in [Ix(D) -> Segments]
      /\ DOMAIN ML = Segments /\ HashBits \in Nat /\ mem.dir \in 1 .. Len(mem.dirs)
  BY <1>1, <1>2, InUse, Constants
<1>10. D < HashBits
  <2>1. ML[s] \in InitDepth .. HashBits
    BY <1>1, <1>3, DepthsTyped
  <2> QED
    BY <1>7, <1>8, <1>9, <2>1, Constants
<1>11. x \in Ix(D) /\ x \in Nat
  BY <1>1, <1>5, <1>6, <1>9, PrefixIs
<1>12. PICK new \in [Ix(D + 1) -> Segments] :
         /\ \A n \in Ix(D + 1) : new[n] = IF n = 2 * x + 1 THEN s ELSE Ent[n \div 2]
         /\ DirAdd(mem, mem', [depth |-> D + 1, segment |-> new], Len(mem.dirs) + 1)
         /\ DirAdd(pm, pm', [depth |-> 0, segment |-> new], pm.dir)
  <2>1. x = Prefix(loc[t].key, Dep) /\ Dep < HashBits
    BY <1>2, <1>5, <1>6, <1>10
  <2>2. \E new : Doubles(x, s, new)
    BY <1>1, <1>3, <2>1, DoubleDirEffect
  <2> QED
    BY <1>2, <2>2 DEF Doubles
<1>13. /\ mem' \in Image /\ pm' \in Image /\ mem'.segs = mem.segs /\ pm'.segs = pm.segs
       /\ mem'.dir = Len(mem.dirs) + 1 /\ pm'.dir = pm.dir
       /\ Len(mem'.dirs) = Len(mem.dirs) + 1 /\ Len(pm'.dirs) = Len(pm.dirs) + 1
       /\ mem'.dirs[Len(mem.dirs) + 1] = [depth |-> D + 1, segment |-> new]
       /\ pm'.dirs[Len(pm.dirs) + 1] = [depth |-> 0, segment |-> new]
       /\ \A d \in 1 .. Len(mem.dirs) : mem'.dirs[d] = mem.dirs[d]
       /\ \A d \in 1 .. Len(pm.dirs) : pm'.dirs[d] = pm.dirs[d]
  BY <1>12 DEF DirAdd
<1>14. Len(mem.dirs) \in Nat /\ Len(pm.dirs) = Len(mem.dirs) /\ Len(pm.segs) = Len(mem.segs)
  BY <1>1, ImageTypes DEF ImagesOK
<1>15. Ent' = new /\ Dur' = new /\ Dep' = D + 1 /\ ML' = ML /\ PL' = PL /\ Segments' = Segments
  BY <1>13, <1>14, LdsSame DEF Ent, Dur, Dep, DirOf, ML, PL, Segments
<1>16. Intact(mem)'
  BY <1>9, <1>15 DEF Intact, Dep
<1>17. D + 1 \in InitDepth .. HashBits
  BY <1>9, <1>10, Constants
<1>18. ImagesOK'
  <2>1. ASSUME NEW d \in 1 .. Len(mem.dirs) + 1 PROVE SizesAgree(d)'
    <3>1. CASE d \in 1 .. Len(mem.dirs)
      <4>1. SizesAgree(d) /\ mem'.dirs[d] = mem.dirs[d] /\ pm'.dirs[d] = pm.dirs[d]
        BY <1>1, <1>13, <1>14, <3>1 DEF ImagesOK
      <4> QED
        BY <1>15, <4>1 DEF SizesAgree
    <3>2. CASE d = Len(mem.dirs) + 1
      <4>1. /\ mem'.dirs[d].segment = new /\ mem'.dirs[d].depth = D + 1
            /\ pm'.dirs[d].segment = new /\ pm'.dirs[d].depth = 0
        BY <1>13, <1>14, <3>2
      <4> QED
        BY <1>12, <1>15, <1>17, <4>1 DEF SizesAgree
    <3> QED
      BY <1>14, <3>1, <3>2
  <2>2. mem'.dir \in 1 .. Len(mem'.dirs) /\ pm'.dir \in 1 .. Len(mem'.dirs)
    BY <1>1, <1>13, <1>14 DEF ImagesOK
  <2> QED
    BY <1>13, <1>14, <2>1, <2>2 DEF ImagesOK
<1>19. ThreadsOK'
  <2>1. Len(mem'.segs) \in Nat /\ Len(mem'.segs) >= Len(mem.segs)
    BY <1>1, <1>13
  <2>2. "split" \in PCs /\ "doubled" \in PCs
    BY DEF PCs, SplitPCs
  <2> QED
    BY <1>0, <1>1, <2>1, <2>2, ThreadsGoto DEF PairPCs, SplitPCs
<1>20. RestOK'
  BY <1>0, <1>1 DEF RestOK, Goto
<1>21. DirOK(Ent, ML, D) /\ Together(Ent, Ent, ML, D)
  BY <1>1, <1>2 DEF Shape
<1>22. PICK B : Leaders(B, Ent, ML, D)
  BY <1>1, <1>2 DEF Shape, SameLeaders
<1>23. s \in DOMAIN ML /\ ML[s] = D + 1 /\ ML[Ent[x]] = D /\ new \in [Ix(D + 1) -> DOMAIN ML]
  BY <1>1, <1>3, <1>7, <1>8, <1>9, <1>12
<1>24. DirOK(new, ML, D + 1)
  BY <1>10, <1>11, <1>12, <1>21, <1>23, DirDouble
<1>25. Together(new, new, ML, D + 1)
  BY <1>7, <1>11, <1>12, <1>21, <1>23, TogetherDouble
<1>26. PICK C : C = {n \in Ix(D + 1) : \E b \in B : n = 2 * b}
  OBVIOUS
<1>27. Leaders(C, new, ML, D + 1)
  BY <1>10, <1>11, <1>12, <1>21, <1>22, <1>23, <1>26, LeadersDouble
<1>28. SplitOK(t)'
  <2>1. loc'[t].key = k /\ loc'[t].target = g /\ loc'[t].s = s
    BY <1>0, <1>3, <1>4, <1>5
  <2>2. ASSUME NEW n \in Ix(D + 1)
        PROVE  /\ Top(n, D + 1, D + 1) = 2 * x + 1 => new[n] = s
               /\ new[n] = g => Top(n, D + 1, D) = x
    <3>1. n \in Nat /\ n \div 2 \in Ix(D) /\ n \div 2 \in Nat /\ Top(n \div 2, D, D) = Top(n, D + 1, D)
          /\ Top(n, D + 1, D + 1) = n /\ Top(n \div 2, D, D) = n \div 2 /\ Top(x, D, D) = x
      <4>1. n \in Nat /\ D \in 0 .. D /\ D + 1 \in Nat
        BY <1>9 DEF Ix
      <4>2. n \div 2 \in Nat /\ n \div 2 \in Ix(D) /\ Top(n \div 2, D, D) = Top(n, D + 1, D)
        BY <1>9, <4>1, TopDouble
      <4> QED
        BY <1>9, <1>11, <4>1, <4>2, TopSelf
    <3>2. ASSUME new[n] = g PROVE Top(n, D + 1, D) = x
      <4>1. Ent[n \div 2] = g
        BY <1>7, <1>12, <3>2
      <4>2. Top(n \div 2, D, ML[g]) = Top(x, D, ML[g])
        BY <1>7, <1>11, <1>21, <3>1, <4>1 DEF Together
      <4> QED
        BY <1>8, <3>1, <4>2
    <3> QED
      BY <1>12, <3>1, <3>2
  <2>3. D < D + 1
    BY <1>9
  <2>4. Published(t)'
    BY <1>6, <1>8, <1>15, <2>1, <2>2, <2>3 DEF Published, Upper, Grouped
  <2>5. OldDir'
    <3>1. pm'.dir = mem.dir /\ mem.dir \in 1 .. Len(mem.dirs) /\ mem.dir \in 1 .. Len(pm.dirs)
      BY <1>1, <1>9, <1>13, <1>14
    <3>2. pm'.dirs[pm'.dir] = pm.dirs[mem.dir] /\ mem'.dirs[pm'.dir] = mem.dirs[mem.dir]
      BY <1>13, <3>1
    <3>3. pm.dirs[mem.dir].segment = Ent /\ mem.dirs[mem.dir].depth = D
      BY <1>1, <1>2 DEF Dur, Dep, DirOf
    <3>4. pm.dirs[mem.dir].depth \in {0, D}
      BY <1>1, <1>2, InUse
    <3>5. Sound(Ent, ML, D)
      BY <1>21, <1>22 DEF Sound
    <3> QED
      BY <1>15, <3>2, <3>3, <3>4, <3>5 DEF OldDir
  <2> QED
    BY <1>1, <1>7, <1>15, <2>1, <2>4, <2>5 DEF SplitOK
<1>29. Dur' = Ent' /\ PL' = ML'
  BY <1>1, <1>15
<1>30. mode' = "run"
  BY <1>0, <1>1 DEF Goto
<1>31. /\ DirOK(Ent', ML', Dep') /\ DirOK(Dur', ML', Dep') /\ Together(Ent', Dur', ML', Dep')
       /\ Leaders(C, Ent', ML', Dep') /\ Leaders(C, Dur', ML', Dep')
  BY <1>15, <1>24, <1>25, <1>27
<1>32. Inv'
  BY <1>1, <1>16, <1>18, <1>19, <1>20, <1>28, <1>29, <1>30, <1>31, SplitEnds
<1>33. DoubleViews(t)
  <2>1. pm'.dirs[pm'.dir].segment = Ent /\ mem'.dirs[pm'.dir].depth = D
    <3>1. mem.dir \in 1 .. Len(mem.dirs) /\ mem.dir \in 1 .. Len(pm.dirs)
      BY <1>9, <1>14
    <3>2. pm'.dirs[mem.dir] = pm.dirs[mem.dir] /\ mem'.dirs[mem.dir] = mem.dirs[mem.dir]
      BY <1>13, <3>1
    <3> QED
      BY <1>1, <1>2, <1>13, <3>2 DEF Dur, Dep, DirOf
  <2>2. \A n \in Ix(Dep + 1) : Ent'[n] = IF n = 2 * Prefix(loc[t].key, Dep) + 1 THEN loc[t].s ELSE Ent[n \div 2]
    BY <1>2, <1>3, <1>5, <1>6, <1>12, <1>15
  <2> QED
    BY <1>1, <1>2, <1>4, <1>8, <1>10, <1>13, <1>15, <1>29, <2>1, <2>2 DEF DoubleViews
<1> QED
  BY <1>32, <1>33

\* The images change neither directory nor depths; pm's dir may be the new one.
LEMMA PersistDirInv ==
  ASSUME Inv, OneSplit, NEW t \in Threads, PersistDir(t)
  PROVE  /\ Inv' /\ Ent' = Ent /\ Dur' = Dur /\ Dep' = Dep /\ ML' = ML /\ PL' = PL
         /\ mem'.segs = mem.segs /\ pm'.segs = pm.segs
<1>0. Goto(t, "doubled", "published") /\ mem' = mem /\ loc' = loc /\ acked' = acked
  BY DEF PersistDir
<1>1. /\ Typed /\ ImagesOK /\ ThreadsOK /\ RestOK /\ Intact(mem) /\ Shape /\ mode = "run"
      /\ SplitOK(t) /\ pc[t] = "doubled"
      /\ \A u \in Threads : u # t => pc[u] \notin SplitPCs /\ pc'[u] \notin SplitPCs
      /\ pc'[t] = "published" /\ Dur = Ent /\ PL = ML /\ Len(mem.segs) \in Nat
  <2>1. "doubled" \in SplitPCs
    BY DEF SplitPCs
  <2> QED
    BY <1>0, <2>1, SplitBegins
<1>2. DirSwitch(pm, pm', mem.dir)
  <2>1. pm \in Image /\ mem.dir \in Nat /\ pm' = [pm EXCEPT !.dir = mem.dir]
    BY <1>1, ImageTypes DEF ImagesOK, PersistDir
  <2> QED
    BY <2>1, SwitchDir
<1>3. pm' \in Image /\ pm'.segs = pm.segs /\ pm'.dirs = pm.dirs /\ pm'.dir = mem.dir
  BY <1>2 DEF DirSwitch
<1>4. ImagesOK'
  <2>1. Len(mem'.segs) = Len(pm'.segs) /\ Len(mem'.segs) >= Len(mem.segs) /\ mem' \in Image
    BY <1>0, <1>1, <1>3 DEF ImagesOK
  <2> QED
    BY <1>0, <1>1, <1>3, <2>1, ImagesFrame
<1>5. ThreadsOK'
  <2>1. Len(mem'.segs) \in Nat /\ Len(mem'.segs) >= Len(mem.segs)
    BY <1>0, <1>1
  <2>2. "doubled" \in PCs /\ "published" \in PCs
    BY DEF PCs, SplitPCs
  <2> QED
    BY <1>0, <1>1, <2>1, <2>2, ThreadsGoto DEF PairPCs, SplitPCs
<1>6. RestOK' /\ mode' = "run"
  BY <1>0, <1>1 DEF RestOK, Goto
<1>7. Ent' = Ent /\ Dur' = Dur /\ Dep' = Dep /\ ML' = ML /\ PL' = PL
  BY <1>0, <1>3, LdsSame DEF Ent, Dur, Dep, DirOf, ML, PL
<1>8. Intact(mem)' /\ pm'.dir = mem'.dir /\ Dur' = Ent' /\ PL' = ML'
  BY <1>0, <1>1, <1>3, <1>7 DEF Intact
<1>9. SplitOK(t)'
  BY <1>0, <1>1, <1>7 DEF SplitOK, Published, Upper, Grouped
<1>10. PICK B : Leaders(B, Ent, ML, Dep) /\ Leaders(B, Dur, ML, Dep) /\ \A b \in B : Ent[b] = Dur[b]
  BY <1>1 DEF Shape, SameLeaders
<1>11. /\ DirOK(Ent', ML', Dep') /\ DirOK(Dur', ML', Dep') /\ Together(Ent', Dur', ML', Dep')
       /\ Leaders(B, Ent', ML', Dep') /\ Leaders(B, Dur', ML', Dep') /\ \A b \in B : Ent'[b] = Dur'[b]
  BY <1>1, <1>7, <1>10 DEF Shape
<1>12. Inv'
  BY <1>1, <1>4, <1>5, <1>6, <1>8, <1>9, <1>11, SplitEnds
<1> QED
  BY <1>0, <1>3, <1>7, <1>12

\* StoreEntries keeps the invariant: the durable entries are still the old ones.
LEMMA StoreEntriesInv ==
  ASSUME Inv, OneSplit, NEW t \in Threads, StoreEntries(t)
  PROVE  Inv' /\ StoreViews(t)
<1>0. /\ Goto(t, "split", "redirected") /\ Target(t).local_depth # DirOf(mem).depth
      /\ pm' = pm /\ loc' = loc /\ acked' = acked
  BY DEF StoreEntries
<1>1. /\ Typed /\ ImagesOK /\ ThreadsOK /\ RestOK /\ Intact(mem) /\ Shape /\ mode = "run"
      /\ SplitOK(t) /\ pc[t] = "split"
      /\ loc[t].key \in KeyWords /\ loc[t].target \in Segments /\ loc[t].s \in Segments
      /\ \A u \in Threads : u # t => pc[u] \notin SplitPCs /\ pc'[u] \notin SplitPCs
      /\ pc'[t] = "redirected" /\ Dur = Ent /\ PL = ML /\ pm.dir = mem.dir /\ Len(mem.segs) \in Nat
  <2>1. "split" \in SplitPCs
    BY DEF SplitPCs
  <2> QED
    BY <1>0, <2>1, SplitBegins
<1>2. PICK D : D = Dep
  OBVIOUS
<1>3. PICK s : s = loc[t].s
  OBVIOUS
<1>4. PICK g : g = loc[t].target
  OBVIOUS
<1>5. PICK k : k = loc[t].key
  OBVIOUS
<1>6. PICK x0 : x0 = Prefix(k, D)
  OBVIOUS
<1>7. PICK m : m = ML[g]
  OBVIOUS
<1>8. PICK p : p = Prefix(k, m)
  OBVIOUS
<1>9. s # g /\ ML[s] = m + 1 /\ Ent[x0] = g /\ \A y \in Ix(D) : Ent[y] # s
  BY <1>1, <1>2, <1>3, <1>4, <1>5, <1>6, <1>7 DEF SplitOK
<1>10. /\ D \in InitDepth .. HashBits /\ D \in Nat /\ D \in 0 .. HashBits /\ Ent \in [Ix(D) -> Segments]
       /\ DOMAIN ML = Segments /\ HashBits \in Nat /\ InitDepth \in Nat
       /\ pm.dirs[mem.dir].depth \in {0, D} /\ mem.dir \in 1 .. Len(mem.dirs)
  BY <1>1, <1>2, InUse, Constants
<1>11. DirOK(Ent, ML, D) /\ Together(Ent, Ent, ML, D)
  BY <1>1, <1>2 DEF Shape
<1>12. x0 \in Ix(D) /\ x0 \in Nat
  BY <1>1, <1>5, <1>6, <1>10, PrefixIs
<1>13. m \in InitDepth .. D /\ m \in Nat /\ m # D
  BY <1>0, <1>1, <1>2, <1>4, <1>7, <1>9, <1>11, <1>12, DirTypes, DepthsTyped DEF Target, Dep
<1>14. m \in 0 .. D - 1 /\ m \in 0 .. D /\ m + 1 \in 0 .. D /\ m + 1 \in InitDepth .. D /\ m < D /\ m \in 0 .. HashBits
  BY <1>10, <1>13
<1>15. \A y \in Ix(D) : y \in UpperHalf(k, D, m) <=> Top(y, D, m + 1) = 2 * p + 1
  <2>1. \A y \in Ix(D) : y \in Nat
    BY DEF Ix
  <2> QED
    BY <1>1, <1>5, <1>8, <1>10, <1>14, <2>1, UpperHalfIs
<1>16. PICK new \in [Ix(D) -> Segments] :
         /\ \A y \in Ix(D) : new[y] = IF y \in UpperHalf(k, D, m) THEN s ELSE Ent[y]
         /\ DirPut(mem, mem', mem.dir, D, new)
  <2>1. PICK upper : upper = UpperHalf(k, D, m)
    OBVIOUS
  <2>2. upper = UpperHalf(loc[t].key, Dep, ML[loc[t].target])
    BY <1>2, <1>4, <1>5, <1>7, <2>1
  <2>3. \E new \in [Ix(Dep) -> Segments] :
           /\ \A x \in Ix(Dep) : new[x] = IF x \in upper THEN s ELSE Ent[x]
           /\ DirPut(mem, mem', mem.dir, Dep, new)
    BY <1>1, <1>3, <2>2, StoreEntriesEffect
  <2> QED
    BY <1>2, <2>1, <2>3
<1>17. \A y \in Ix(D) : new[y] = IF Top(y, D, m + 1) = 2 * p + 1 THEN s ELSE Ent[y]
  BY <1>15, <1>16
<1>18. /\ mem' \in Image /\ mem'.segs = mem.segs /\ mem'.dir = mem.dir /\ Len(mem'.dirs) = Len(mem.dirs)
       /\ mem'.dirs[mem.dir].depth = D /\ mem'.dirs[mem.dir].segment = new
       /\ \A e \in 1 .. Len(mem.dirs) : e # mem.dir => mem'.dirs[e] = mem.dirs[e]
  BY <1>16 DEF DirPut
<1>19. Ent' = new /\ Dur' = Ent /\ Dep' = D /\ ML' = ML /\ PL' = PL /\ Segments' = Segments /\ Intact(mem)'
       /\ pm'.dir = mem'.dir
  BY <1>0, <1>1, <1>2, <1>18, LdsSame DEF Ent, Dur, Dep, DirOf, ML, PL, Segments, Intact
<1>20. ImagesOK'
  <2>1. pm'.dirs[mem.dir].segment \in [Ix(D) -> Segments] /\ pm'.dirs[mem.dir].depth \in {0, D}
    BY <1>0, <1>1, <1>10 DEF Dur
  <2>2. mem'.dirs[mem.dir].segment \in [Ix(D) -> Segments] /\ mem'.dirs[mem.dir].depth \in {0, D}
    BY <1>16, <1>18
  <2>3. pm' \in Image
    BY <1>0, <1>1 DEF ImagesOK
  <2> QED
    BY <1>0, <1>1, <1>10, <1>18, <2>1, <2>2, <2>3, ImagesPut
<1>21. ThreadsOK'
  <2>1. Len(mem'.segs) \in Nat /\ Len(mem'.segs) >= Len(mem.segs)
    BY <1>1, <1>18
  <2>2. "split" \in PCs /\ "redirected" \in PCs
    BY DEF PCs, SplitPCs
  <2> QED
    BY <1>0, <1>1, <2>1, <2>2, ThreadsGoto DEF PairPCs, SplitPCs
<1>22. RestOK' /\ mode' = "run"
  BY <1>0, <1>1 DEF RestOK, Goto
<1>23. DirOK(new, ML, D)
  <2>1. ASSUME NEW y \in Ix(D) PROVE ML[new[y]] <= D
    <3>1. ML[Ent[y]] <= D
      BY <1>11 DEF DirOK
    <3>2. ML[s] <= D
      BY <1>9, <1>14
    <3> QED
      BY <1>17, <3>1, <3>2
  <2> QED
    BY <1>10, <1>11, <1>16, <2>1 DEF DirOK
<1>24. Top(x0, D, m) = p
  BY <1>1, <1>5, <1>6, <1>8, <1>10, <1>14, TopPrefix
<1>25. \A y \in Ix(D) : Ent[y] = g => Top(y, D, m) = p
  BY <1>7, <1>9, <1>11, <1>12, <1>24 DEF Together
<1>26. Together(new, Ent, ML, D)
  <2>1. PICK q : q = 2 * p + 1
    OBVIOUS
  <2>2. \A y \in Ix(D) : s \in {Ent[y], Ent[y]} => Top(y, D, ML[s]) = q
    BY <1>9
  <2>3. \A y \in Ix(D) : new[y] = Ent[y] \/ (new[y] = s /\ Top(y, D, ML[s]) = q)
    BY <1>9, <1>17, <2>1
  <2> QED
    BY <1>11, <2>2, <2>3, TogetherSet
<1>27. PICK B : Leaders(B, Ent, ML, D)
  BY <1>1, <1>2 DEF Shape, SameLeaders
<1>28. ASSUME NEW y \in Ix(D), Top(y, D, m + 1) = 2 * p + 1
       PROVE  Fits(B, Ent, ML, D, y, s)
  <2>1. PICK b \in B : /\ InGroup(b, x0, Ent, ML, D)
                       /\ \/ g = Ent[b]
                          \/ /\ ML[Ent[b]] < ML[g]
                             /\ Top(x0, D, ML[Ent[b]] + 1) # Top(b, D, ML[Ent[b]] + 1)
    BY <1>9, <1>12, <1>27 DEF Leaders, Fits
  <2>2. y \in Nat /\ b \in Ix(D) /\ b \in Nat
    BY <1>27 DEF Leaders, Ix
  <2>3. Top(y, D, m) = p
    <3>1. Top(y, D, m) \in Nat /\ Top(y, D, m + 1) \in {2 * Top(y, D, m), 2 * Top(y, D, m) + 1}
      BY <1>10, <1>14, <2>2, TopHalf
    <3>2. p \in Nat
      BY <1>1, <1>5, <1>8, <1>14, PrefixIs
    <3> QED
      BY <1>28, <3>1, <3>2
  <2>4. CASE g = Ent[b]
    <3>1. Top(y, D, m) = Top(b, D, m)
      BY <1>7, <1>24, <2>1, <2>3, <2>4 DEF InGroup
    <3>2. (b % Pow2[D - m]) = 0
      BY <1>7, <1>27, <2>4 DEF Leaders
    <3>3. Top(b, D, m + 1) = 2 * Top(b, D, m)
      BY <1>10, <1>14, <2>2, <3>2, TopAligned
    <3>4. Top(b, D, m) = p /\ p \in Nat
      BY <1>1, <1>5, <1>8, <1>14, <2>3, <3>1, PrefixIs
    <3>5. Top(y, D, m + 1) # Top(b, D, m + 1)
      BY <1>28, <3>3, <3>4
    <3>6. ML[Ent[b]] < ML[s]
      BY <1>7, <1>9, <1>13, <2>4
    <3> QED
      BY <1>7, <2>4, <3>1, <3>5, <3>6 DEF Fits, InGroup
  <2>5. CASE ML[Ent[b]] < ML[g] /\ Top(x0, D, ML[Ent[b]] + 1) # Top(b, D, ML[Ent[b]] + 1)
    <3>1. PICK n : n = ML[Ent[b]]
      OBVIOUS
    <3>2. n \in Nat /\ n < m /\ n \in 0 .. m /\ n + 1 \in 0 .. m
      <4>1. n \in Nat
        BY <1>11, <2>2, <3>1, DirTypes
      <4> QED
        BY <1>7, <1>13, <2>5, <3>1, <4>1
    <3>3. Top(y, D, m) = Top(x0, D, m)
      BY <1>24, <2>3
    <3>4. Top(y, D, n) = Top(x0, D, n) /\ Top(y, D, n + 1) = Top(x0, D, n + 1)
      BY <1>10, <1>12, <1>14, <2>2, <3>2, <3>3, TopCoarse
    <3>5. n < ML[s]
      BY <1>9, <1>13, <3>2
    <3> QED
      BY <2>1, <2>5, <3>1, <3>4, <3>5 DEF Fits, InGroup
  <2> QED
    BY <2>1, <2>4, <2>5
<1>29. Leaders(B, new, ML, D) /\ \A b \in B : new[b] = Ent[b]
  <2>1. \A y \in Ix(D) : new[y] = Ent[y] \/ Fits(B, Ent, ML, D, y, new[y])
    BY <1>17, <1>28
  <2> QED
    BY <1>11, <1>27, <2>1, LeadersChange
<1>30. SplitOK(t)'
  <2>1. loc'[t].key = k /\ loc'[t].target = g /\ loc'[t].s = s
    BY <1>0, <1>3, <1>4, <1>5
  <2>2. \A y \in Ix(D) : /\ Top(y, D, m + 1) = 2 * p + 1 => new[y] = s
                         /\ new[y] = g => Top(y, D, m) = p
                         /\ Top(y, D, m + 1) # 2 * p + 1 => Ent[y] = new[y]
    BY <1>9, <1>17, <1>25
  <2>3. Published(t)'
    BY <1>7, <1>8, <1>14, <1>19, <2>1, <2>2 DEF Published, Upper, Grouped
  <2>4. \A y \in Ix(Dep') : /\ ~Upper(t, y)' => Dur'[y] = Ent'[y]
                            /\ Dur'[y] = loc'[t].target => Grouped(t, y)'
    BY <1>7, <1>8, <1>19, <1>25, <2>1, <2>2 DEF Upper, Grouped
  <2>5. loc'[t].s # loc'[t].target /\ ML'[loc'[t].s] = ML'[loc'[t].target] + 1
    BY <1>7, <1>9, <1>19, <2>1
  <2> QED
    BY <1>1, <2>3, <2>4, <2>5 DEF SplitOK
<1>31. /\ DirOK(Ent', ML', Dep') /\ DirOK(Dur', ML', Dep') /\ Together(Ent', Dur', ML', Dep')
       /\ Leaders(B, Ent', ML', Dep') /\ Leaders(B, Dur', ML', Dep') /\ \A b \in B : Ent'[b] = Dur'[b]
  BY <1>11, <1>19, <1>23, <1>26, <1>27, <1>29
<1>32. PL' = ML'
  BY <1>1, <1>19
<1>33. Inv'
  BY <1>1, <1>19, <1>20, <1>21, <1>22, <1>30, <1>31, <1>32, SplitEnds
<1>34. StoreViews(t)
  <2>1. \A y \in Ix(Dep) : Ent'[y] = IF Upper(t, y) THEN loc[t].s ELSE Ent[y]
    BY <1>2, <1>3, <1>4, <1>5, <1>7, <1>8, <1>17, <1>19 DEF Upper
  <2> QED
    BY <1>0, <1>1, <1>2, <1>4, <1>7, <1>14, <1>18, <1>19, <2>1 DEF StoreViews
<1> QED
  BY <1>33, <1>34

\* PersistEntries keeps the invariant: the durable entries catch up.
LEMMA PersistEntriesInv ==
  ASSUME Inv, OneSplit, NEW t \in Threads, PersistEntries(t)
  PROVE  /\ Inv' /\ Ent' = Ent /\ Dur' = Ent /\ Dep' = Dep /\ ML' = ML /\ PL' = PL
         /\ mem'.segs = mem.segs /\ pm'.segs = pm.segs
<1>0. Goto(t, "redirected", "published") /\ mem' = mem /\ loc' = loc /\ acked' = acked
  BY DEF PersistEntries
<1>1. /\ Typed /\ ImagesOK /\ ThreadsOK /\ RestOK /\ Intact(mem) /\ Shape /\ mode = "run"
      /\ SplitOK(t) /\ pc[t] = "redirected"
      /\ loc[t].key \in KeyWords /\ loc[t].target \in Segments /\ loc[t].s \in Segments
      /\ \A u \in Threads : u # t => pc[u] \notin SplitPCs /\ pc'[u] \notin SplitPCs
      /\ pc'[t] = "published" /\ PL = ML /\ pm.dir = mem.dir /\ Len(mem.segs) \in Nat
  <2>1. "redirected" \in SplitPCs
    BY DEF SplitPCs
  <2> QED
    BY <1>0, <2>1, SplitBegins
<1>2. PICK upper : upper = UpperHalf(loc[t].key, Dep, ML[loc[t].target])
  OBVIOUS
<1>3. PICK new \in [Ix(Dep) -> Segments] :
         /\ \A x \in Ix(Dep) : new[x] = IF x \in upper THEN Ent[x] ELSE Dur[x]
         /\ DirPut(pm, pm', mem.dir, pm.dirs[mem.dir].depth, new)
  BY <1>1, <1>2, PersistEntriesEffect
<1>4. /\ Dep \in InitDepth .. HashBits /\ Dep \in Nat /\ Ent \in [Ix(Dep) -> Segments]
      /\ pm.dirs[mem.dir].depth \in {0, Dep}
  BY <1>1, InUse
<1>5. /\ pm' \in Image /\ pm'.segs = pm.segs /\ pm'.dir = pm.dir /\ Len(pm'.dirs) = Len(pm.dirs)
      /\ pm'.dirs[mem.dir].depth = pm.dirs[mem.dir].depth /\ pm'.dirs[mem.dir].segment = new
      /\ \A e \in 1 .. Len(pm.dirs) : e # mem.dir => pm'.dirs[e] = pm.dirs[e]
  BY <1>3 DEF DirPut
<1>6. new = Ent
  <2>1. ML[loc[t].target] < Dep /\ ML[loc[t].target] \in Nat
    BY <1>1, DepthsTyped DEF SplitOK, Published
  <2>2. ML[loc[t].target] \in 0 .. Dep - 1 /\ Dep \in 0 .. HashBits
    BY <1>4, <2>1, Constants
  <2>3. ASSUME NEW x \in Ix(Dep) PROVE new[x] = Ent[x]
    <3>1. x \in Nat
      BY DEF Ix
    <3>2. x \in upper <=> Upper(t, x)
      BY <1>1, <1>2, <2>2, <3>1, UpperHalfIs DEF Upper
    <3> QED
      BY <1>1, <1>3, <3>2 DEF SplitOK
  <2> QED
    BY <1>3, <1>4, <2>3
<1>7. Ent' = Ent /\ Dur' = Ent /\ Dep' = Dep /\ ML' = ML /\ PL' = PL /\ Segments' = Segments
      /\ Intact(mem)' /\ pm'.dir = mem'.dir
  BY <1>0, <1>1, <1>5, <1>6, LdsSame DEF Ent, Dur, Dep, DirOf, ML, PL, Segments, Intact
<1>8. ImagesOK'
  <2>1. mem'.dirs[mem.dir].segment \in [Ix(Dep) -> Segments] /\ mem'.dirs[mem.dir].depth \in {0, Dep}
    BY <1>0, <1>4 DEF Ent, Dep, DirOf
  <2>2. pm'.dirs[mem.dir].segment \in [Ix(Dep) -> Segments] /\ pm'.dirs[mem.dir].depth \in {0, Dep}
    BY <1>3, <1>4, <1>5
  <2>3. mem' \in Image /\ Len(pm.dirs) = Len(mem.dirs)
    BY <1>0, <1>1 DEF ImagesOK
  <2> QED
    BY <1>0, <1>1, <1>4, <1>5, <2>1, <2>2, <2>3, ImagesPut
<1>9. ThreadsOK'
  <2>1. Len(mem'.segs) \in Nat /\ Len(mem'.segs) >= Len(mem.segs)
    BY <1>0, <1>1
  <2>2. "redirected" \in PCs /\ "published" \in PCs
    BY DEF PCs, SplitPCs
  <2> QED
    BY <1>0, <1>1, <2>1, <2>2, ThreadsGoto DEF PairPCs, SplitPCs
<1>10. RestOK' /\ mode' = "run"
  BY <1>0, <1>1 DEF RestOK, Goto
<1>11. SplitOK(t)'
  BY <1>0, <1>1, <1>7 DEF SplitOK, Published, Upper, Grouped
<1>12. PICK B : Leaders(B, Ent, ML, Dep)
  BY <1>1 DEF Shape, SameLeaders
<1>13. Together(Ent, Ent, ML, Dep)
  BY <1>1, TogetherCopy DEF Shape
<1>14. /\ DirOK(Ent', ML', Dep') /\ DirOK(Dur', ML', Dep') /\ Together(Ent', Dur', ML', Dep')
       /\ Leaders(B, Ent', ML', Dep') /\ Leaders(B, Dur', ML', Dep') /\ \A b \in B : Ent'[b] = Dur'[b]
       /\ Dur' = Ent' /\ PL' = ML'
  BY <1>1, <1>7, <1>12, <1>13 DEF Shape
<1>15. Inv'
  BY <1>1, <1>7, <1>8, <1>9, <1>10, <1>11, <1>14, SplitEnds
<1> QED
  BY <1>0, <1>5, <1>7, <1>15

\* RaiseDepth keeps the invariant: the entries are durable before the depth rises.
LEMMA RaiseDepthInv ==
  ASSUME Inv, OneSplit, NEW t \in Threads, RaiseDepth(t)
  PROVE  Inv' /\ RaiseViews(t)
<1>0. Goto(t, "published", "raised") /\ pm' = pm /\ loc' = loc /\ acked' = acked
  BY DEF RaiseDepth
<1>1. /\ Typed /\ ImagesOK /\ ThreadsOK /\ RestOK /\ Intact(mem) /\ Shape /\ mode = "run"
      /\ SplitOK(t) /\ pc[t] = "published"
      /\ loc[t].key \in KeyWords /\ loc[t].target \in Segments /\ loc[t].s \in Segments
      /\ \A u \in Threads : u # t => pc[u] \notin SplitPCs /\ pc'[u] \notin SplitPCs
      /\ pc'[t] = "raised" /\ Dur = Ent /\ PL = ML /\ pm.dir = mem.dir /\ Len(mem.segs) \in Nat
  <2>1. "published" \in SplitPCs
    BY DEF SplitPCs
  <2> QED
    BY <1>0, <2>1, SplitBegins
<1>2. PICK D : D = Dep
  OBVIOUS
<1>3. PICK s : s = loc[t].s
  OBVIOUS
<1>4. PICK g : g = loc[t].target
  OBVIOUS
<1>5. PICK k : k = loc[t].key
  OBVIOUS
<1>6. PICK m : m = ML[g]
  OBVIOUS
<1>7. PICK p : p = Prefix(k, m)
  OBVIOUS
<1>8. PICK L : L = ML
  OBVIOUS
<1>9. s # g /\ L[s] = L[g] + 1 /\ m < D /\ g \in Segments /\ s \in Segments /\ m = L[g]
  BY <1>1, <1>2, <1>3, <1>4, <1>6, <1>8 DEF SplitOK, Published
<1>10. \A x \in Ix(D) : /\ Top(x, D, L[g] + 1) = 2 * p + 1 => Ent[x] = s
                        /\ Ent[x] = g => Top(x, D, L[g]) = p
  BY <1>1, <1>2, <1>3, <1>4, <1>5, <1>6, <1>7, <1>8 DEF SplitOK, Published, Upper, Grouped
<1>11. /\ D \in InitDepth .. HashBits /\ D \in Nat /\ Ent \in [Ix(D) -> Segments]
       /\ DOMAIN L = Segments /\ HashBits \in Nat /\ InitDepth \in Nat
  BY <1>1, <1>2, <1>8, InUse, Constants
<1>12. m \in Nat /\ m \in InitDepth .. HashBits /\ m + 1 \in InitDepth .. D /\ m \in 0 .. D - 1 /\ m \in 0 .. HashBits
       /\ m < HashBits /\ m + 1 \in InitDepth .. HashBits
  BY <1>1, <1>6, <1>8, <1>9, <1>11, DepthsTyped
<1>13. p \in Nat
  BY <1>1, <1>5, <1>7, <1>12, PrefixIs
<1>14. SegPut(mem, mem', g, mem.segs[g].bucket, mem.segs[g].sema, m + 1) /\ g \in 1 .. Len(mem.segs)
       /\ mem \in Image
  <2>1. mem.segs[g].local_depth = m
    BY <1>1, <1>6, <1>9, DepthsTyped
  <2>2. SegPut(mem, mem', g, mem.segs[g].bucket, mem.segs[g].sema, mem.segs[g].local_depth + 1)
    BY <1>1, <1>4, <1>12, <2>1, RaiseDepthEffect
  <2> QED
    BY <1>1, <1>9, <2>1, <2>2 DEF Segments, ImagesOK
<1>15. PICK K : K = [L EXCEPT ![g] = L[g] + 1]
  OBVIOUS
<1>16. ML' = K
  BY <1>8, <1>9, <1>14, <1>15, LdsPut DEF ML
<1>17. /\ mem' \in Image /\ Len(mem'.segs) = Len(mem.segs) /\ mem'.dirs = mem.dirs /\ mem'.dir = mem.dir
  BY <1>14 DEF SegPut
<1>18. /\ Ent' = Ent /\ Dur' = Ent /\ Dep' = D /\ PL' = L /\ Segments' = Segments
       /\ Intact(mem)' /\ pm'.dir = mem'.dir
  BY <1>0, <1>1, <1>2, <1>8, <1>17 DEF Ent, Dur, Dep, DirOf, PL, Segments, Intact
<1>19. ImagesOK'
  <2>1. Len(mem'.segs) = Len(pm'.segs) /\ Len(mem'.segs) >= Len(mem.segs) /\ pm' \in Image
    BY <1>0, <1>1, <1>17 DEF ImagesOK
  <2> QED
    BY <1>0, <1>1, <1>17, <2>1, ImagesFrame
<1>20. ThreadsOK'
  <2>1. Len(mem'.segs) \in Nat /\ Len(mem'.segs) >= Len(mem.segs)
    BY <1>1, <1>17
  <2>2. "published" \in PCs /\ "raised" \in PCs
    BY DEF PCs, SplitPCs
  <2> QED
    BY <1>0, <1>1, <2>1, <2>2, ThreadsGoto DEF PairPCs, SplitPCs
<1>21. RestOK' /\ mode' = "run"
  BY <1>0, <1>1 DEF RestOK, Goto
<1>22. DirOK(Ent, L, D) /\ Together(Ent, Ent, L, D)
  BY <1>1, <1>2, <1>8 DEF Shape
<1>23. \A x \in Ix(D) : g \in {Ent[x], Ent[x]} => Top(x, D, L[g] + 1) = 2 * p
  <2>1. SUFFICES ASSUME NEW x \in Ix(D), Ent[x] = g PROVE Top(x, D, m + 1) = 2 * p
    BY <1>9
  <2>2. Top(x, D, m) = p /\ Top(x, D, m + 1) # 2 * p + 1
    BY <1>9, <1>10, <2>1
  <2>3. x \in Nat
    BY DEF Ix
  <2>4. Top(x, D, m + 1) \in {2 * Top(x, D, m), 2 * Top(x, D, m) + 1}
    BY <1>11, <1>12, <2>3, TopHalf
  <2> QED
    BY <2>2, <2>4
<1>24. Together(Ent, Ent, K, D)
  <2>1. PICK q : q = 2 * p
    OBVIOUS
  <2>2. \A x \in Ix(D) : Ent[x] \in DOMAIN L
    BY <1>11
  <2>3. \A x \in Ix(D) : g \in {Ent[x], Ent[x]} => Top(x, D, L[g] + 1) = q
    BY <1>23, <2>1
  <2> QED
    BY <1>9, <1>11, <1>15, <1>22, <2>2, <2>3, TogetherRaise
<1>25. DirOK(Ent, K, D)
  <2>1. ASSUME NEW x \in Ix(D) PROVE K[Ent[x]] <= D
    <3>1. L[Ent[x]] <= D
      BY <1>22 DEF DirOK
    <3>2. K[g] <= D
      BY <1>9, <1>11, <1>12, <1>15
    <3>3. Ent[x] # g => K[Ent[x]] = L[Ent[x]]
      BY <1>11, <1>15
    <3> QED
      BY <3>1, <3>2, <3>3
  <2>2. L \in [DOMAIN L -> InitDepth .. HashBits]
    BY <1>22 DEF DirOK
  <2>3. K \in [DOMAIN K -> InitDepth .. HashBits] /\ DOMAIN K = DOMAIN L
    BY <1>9, <1>12, <1>15, <2>2
  <2> QED
    BY <1>11, <2>1, <2>3 DEF DirOK
<1>26. PICK B : Leaders(B, Ent, L, D)
  BY <1>1, <1>2, <1>8 DEF Shape, SameLeaders
<1>27. PICK C : Leaders(C, Ent, K, D)
  <2>1. g \in DOMAIN L /\ s \in DOMAIN L
    BY <1>9, <1>11
  <2>2. L[g] < D /\ L[s] = L[g] + 1
    BY <1>9
  <2>3. \A x \in Ix(D) : Top(x, D, L[g] + 1) = 2 * p + 1 => Ent[x] = s
    BY <1>10
  <2>4. \A x \in Ix(D) : Ent[x] = g => Top(x, D, L[g]) = p
    BY <1>10
  <2> QED
    BY <1>9, <1>13, <1>15, <1>22, <1>26, <2>1, <2>2, <2>3, <2>4, LeadersRaise
<1>28. SplitOK(t)'
  <2>1. loc'[t].target = g
    BY <1>0, <1>4
  <2>2. \A h \in Segments : h # g => L[h] = K[h]
    BY <1>11, <1>15
  <2>3. K[g] = L[g] + 1
    BY <1>9, <1>11, <1>15
  <2>4. \E E : Leaders(E, Dur', PL', Dep')
    BY <1>18, <1>26
  <2> QED
    BY <1>1, <1>16, <1>18, <2>1, <2>2, <2>3, <2>4 DEF SplitOK
<1>29. /\ DirOK(Ent', ML', Dep') /\ DirOK(Dur', ML', Dep') /\ Together(Ent', Dur', ML', Dep')
       /\ Leaders(C, Ent', ML', Dep') /\ Leaders(C, Dur', ML', Dep') /\ \A b \in C : Ent'[b] = Dur'[b]
       /\ Dur' = Ent'
  BY <1>16, <1>18, <1>24, <1>25, <1>27
<1>30. Inv'
  BY <1>1, <1>18, <1>19, <1>20, <1>21, <1>28, <1>29, SplitEnds
<1>31. RaiseViews(t)
  <2>1. \A h \in Segments : mem'.segs[h].bucket = mem.segs[h].bucket
    BY <1>14 DEF SegPut, Segments
  <2> QED
    BY <1>0, <1>1, <1>2, <1>4, <1>8, <1>15, <1>16, <1>18, <2>1 DEF RaiseViews
<1> QED
  BY <1>30, <1>31

\* The durable depths after the header of segment i is written back.
LEMMA FlushedDepths ==
  ASSUME Typed, NEW i \in 1 .. Len(mem.segs), FlushHeader(i)
  PROVE  /\ PL' = [PL EXCEPT ![i] = ML[i]]
         /\ pm' \in Image /\ Len(pm'.segs) = Len(pm.segs) /\ pm'.dirs = pm.dirs /\ pm'.dir = pm.dir
         /\ \A g \in Segments : pm'.segs[g].bucket = pm.segs[g].bucket
<1>1. SegPut(pm, pm', i, pm.segs[i].bucket, mem.segs[i].sema, mem.segs[i].local_depth)
  BY FlushHeaderEffect
<1>2. pm \in Image /\ i \in 1 .. Len(pm.segs) /\ i \in Segments
  BY DEF Typed, ImagesOK, Segments
<1>3. mem.segs[i].local_depth = ML[i]
  BY <1>2, DepthsTyped
<1>4. PL' = [PL EXCEPT ![i] = mem.segs[i].local_depth]
  BY <1>1, <1>2, LdsPut DEF PL
<1>5. \A g \in Segments : pm'.segs[g].bucket = pm.segs[g].bucket
  BY <1>1 DEF SegPut, Segments, Typed, ImagesOK
<1> QED
  BY <1>1, <1>3, <1>4, <1>5 DEF SegPut

\* PersistDepth keeps the invariant: the durable depth catches up.
LEMMA PersistDepthInv ==
  ASSUME Inv, OneSplit, NEW t \in Threads, PersistDepth(t)
  PROVE  /\ Inv' /\ Ent' = Ent /\ Dur' = Dur /\ Dep' = Dep /\ ML' = ML /\ PL' = ML /\ mem' = mem
         /\ \A g \in Segments : pm'.segs[g].bucket = pm.segs[g].bucket
<1>0. Goto(t, "raised", "reopen") /\ mem' = mem /\ loc' = loc /\ acked' = acked /\ FlushHeader(loc[t].target)
  BY DEF PersistDepth
<1>1. /\ Typed /\ ImagesOK /\ ThreadsOK /\ RestOK /\ Intact(mem) /\ Shape /\ mode = "run"
      /\ SplitOK(t) /\ pc[t] = "raised" /\ loc[t].target \in Segments
      /\ \A u \in Threads : u # t => pc[u] \notin SplitPCs /\ pc'[u] \notin SplitPCs
      /\ pc'[t] = "reopen" /\ Dur = Ent /\ pm.dir = mem.dir /\ Len(mem.segs) \in Nat
  <2>1. "raised" \in SplitPCs
    BY DEF SplitPCs
  <2> QED
    BY <1>0, <2>1, SplitBegins
<1>2. PICK g : g = loc[t].target
  OBVIOUS
<1>3. /\ PL' = [PL EXCEPT ![g] = ML[g]]
      /\ pm' \in Image /\ Len(pm'.segs) = Len(pm.segs) /\ pm'.dirs = pm.dirs /\ pm'.dir = pm.dir
      /\ \A h \in Segments : pm'.segs[h].bucket = pm.segs[h].bucket
  BY <1>0, <1>1, <1>2, FlushedDepths DEF Segments
<1>4. PL \in [Segments -> InitDepth .. HashBits] /\ ML \in [Segments -> InitDepth .. HashBits]
  BY <1>1, DepthsTyped
<1>5. \A h \in Segments : h # g => PL[h] = ML[h]
  BY <1>1, <1>2 DEF SplitOK
<1>6. PL' = ML
  BY <1>1, <1>2, <1>3, <1>4, <1>5
<1>7. /\ Ent' = Ent /\ Dur' = Dur /\ Dep' = Dep /\ ML' = ML /\ Intact(mem)' /\ pm'.dir = mem'.dir
  BY <1>0, <1>1, <1>3 DEF Ent, Dur, Dep, DirOf, ML, Intact
<1>8. ImagesOK'
  <2>1. Len(mem'.segs) = Len(pm'.segs) /\ Len(mem'.segs) >= Len(mem.segs) /\ mem' \in Image
    BY <1>0, <1>1, <1>3 DEF ImagesOK
  <2> QED
    BY <1>0, <1>1, <1>3, <2>1, ImagesFrame
<1>9. ThreadsOK'
  <2>1. Len(mem'.segs) \in Nat /\ Len(mem'.segs) >= Len(mem.segs)
    BY <1>0, <1>1
  <2>2. "raised" \in PCs /\ "reopen" \in PCs
    BY DEF PCs, SplitPCs
  <2> QED
    BY <1>0, <1>1, <2>1, <2>2, ThreadsGoto DEF PairPCs, SplitPCs
<1>10. RestOK' /\ mode' = "run"
  BY <1>0, <1>1 DEF RestOK, Goto
<1>11. SplitOK(t)'
  BY <1>1 DEF SplitOK
<1>12. PICK B : Leaders(B, Ent, ML, Dep) /\ Leaders(B, Dur, ML, Dep) /\ \A b \in B : Ent[b] = Dur[b]
  BY <1>1 DEF Shape, SameLeaders
<1>13. /\ DirOK(Ent', ML', Dep') /\ DirOK(Dur', ML', Dep') /\ Together(Ent', Dur', ML', Dep')
       /\ Leaders(B, Ent', ML', Dep') /\ Leaders(B, Dur', ML', Dep') /\ \A b \in B : Ent'[b] = Dur'[b]
       /\ Dur' = Ent' /\ PL' = ML'
  BY <1>1, <1>6, <1>7, <1>12 DEF Shape
<1>14. Inv'
  BY <1>1, <1>7, <1>8, <1>9, <1>10, <1>11, <1>13, SplitEnds
<1> QED
  BY <1>0, <1>3, <1>6, <1>7, <1>14

-----------------------------------------------------------------------------
(* Evictions, power failures and Recovery                                   *)

\* Words of mem reach pm.
LEMMA EvictShape ==
  ASSUME Inv, OneSplit, Typed', mem' = mem, pc' = pc, loc' = loc, mode' = mode, ri' = ri, workload' = workload,
         pm'.dir \in {pm.dir, mem.dir},
         \A d \in 1 .. Len(mem.dirs) : d # mem.dir => pm'.dirs[d] = pm.dirs[d],
         pm'.dirs[mem.dir].depth \in {pm.dirs[mem.dir].depth, Dep},
         Intact(mem) => /\ Dur' \in [Ix(Dep) -> Segments]
                        /\ \A x \in Ix(Dep) : Dur'[x] \in {Dur[x], Ent[x]},
         \A g \in Segments : PL'[g] \in {PL[g], ML[g]}
  PROVE  Inv'
<1>1. /\ Ent' = Ent /\ Dep' = Dep /\ ML' = ML /\ Segments' = Segments /\ (Intact(mem)' <=> Intact(mem))
  BY DEF Ent, Dep, DirOf, ML, Segments, Intact
<1>2. Typed /\ Live /\ Dead
  BY DEF Inv
<1>3. Dead'
  <2>1. SUFFICES ASSUME ~Intact(mem)
                 PROVE  (\A t \in Threads : pc'[t] = "idle") /\ pm'.dir = mem'.dir /\ ~Intact(pm)'
    BY <1>1 DEF Dead
  <2>2. (\A t \in Threads : pc[t] = "idle") /\ pm.dir = mem.dir /\ ~Intact(pm)
    BY <1>2, <2>1 DEF Dead
  <2>3. pm'.dir = mem.dir
    BY <2>2
  <2>4. pm'.dirs[mem.dir].depth = pm.dirs[mem.dir].depth \/ pm'.dirs[mem.dir].depth = mem.dirs[mem.dir].depth
    BY DEF Dep, DirOf
  <2> QED
    BY <2>1, <2>2, <2>3, <2>4 DEF Intact, DirOf
<1>4. Live'
  <2>1. SUFFICES ASSUME Intact(mem) PROVE Shape'
    BY <1>1 DEF Live
  <2>2. Shape
    BY <1>2, <2>1 DEF Live
  <2>3. /\ Dep \in InitDepth .. HashBits /\ Dep \in Nat
        /\ Ent \in [Ix(Dep) -> Segments] /\ Dur \in [Ix(Dep) -> Segments]
        /\ DOMAIN ML = Segments /\ mem.dir \in 1 .. Len(mem.dirs)
        /\ pm.dir \in 1 .. Len(mem.dirs)
    BY <1>2, <2>1, InUse DEF Typed, ImagesOK
  <2>4. Dur' \in [Ix(Dep) -> Segments]
    BY <2>1
  <2>5. \A x \in Ix(Dep) : Dur'[x] \in {Dur[x], Ent[x]}
    BY <2>1
  <2>6. DirOK(Dur', ML, Dep)
    <3>1. \A x \in Ix(Dep) : ML[Dur'[x]] <= Dep
      BY <2>2, <2>5 DEF Shape, DirOK
    <3>2. ML \in [DOMAIN ML -> InitDepth .. HashBits]
      BY <2>2 DEF Shape, DirOK
    <3> QED
      BY <2>3, <2>4, <3>1, <3>2 DEF DirOK
  <2>7. Together(Ent, Dur', ML, Dep)
    <3>1. \A x \in Ix(Dep) : Ent[x] \in {Ent[x], Dur[x]} /\ Dur'[x] \in {Ent[x], Dur[x]}
      BY <2>5
    <3> QED
      BY <2>2, <3>1, TogetherCopy DEF Shape
  <2>8. SameLeaders'
    <3>1. PICK B : /\ Leaders(B, Ent, ML, Dep) /\ Leaders(B, Dur, ML, Dep)
                   /\ \A b \in B : Ent[b] = Dur[b]
                   /\ mode = "recover" => ri \in B
      BY <2>2 DEF Shape, SameLeaders
    <3>2. \A x \in Ix(Dep) : Dur'[x] = Ent[x] \/ Fits(B, Ent, ML, Dep, x, Dur'[x])
      <4>1. SUFFICES ASSUME NEW x \in Ix(Dep) PROVE Fits(B, Ent, ML, Dep, x, Dur[x])
        BY <2>5
      <4>2. Fits(B, Dur, ML, Dep, x, Dur[x])
        BY <3>1 DEF Leaders
      <4> QED
        BY <3>1, <4>2 DEF Fits, InGroup
    <3>3. Leaders(B, Dur', ML, Dep) /\ \A b \in B : Dur'[b] = Ent[b]
      BY <2>2, <3>1, <3>2, LeadersChange DEF Shape
    <3> QED
      BY <1>1, <3>1, <3>3 DEF SameLeaders
  <2>9. PL' \in [Segments -> InitDepth .. HashBits] /\ ML \in [Segments -> InitDepth .. HashBits]
        /\ PL \in [Segments -> InitDepth .. HashBits]
    <3>1. pm' \in Image /\ Len(pm'.segs) = Len(mem.segs)
      BY DEF Typed, ImagesOK
    <3>2. PL' \in [Segments -> InitDepth .. HashBits]
      BY <3>1, LdsTyped DEF PL, Segments
    <3> QED
      BY <1>2, <3>2, DepthsTyped
  <2>10. PL = ML => PL' = ML
    BY <2>9
  <2>11. Dur = Ent => Dur' = Ent
    BY <2>3, <2>4, <2>5
  <2>12. ASSUME mode = "recover" PROVE RecoverOK'
    <3>1. RecoverOK
      BY <2>2, <2>12 DEF Shape
    <3>2. pm'.dirs[mem'.dir].depth = Dep'
      BY <1>1, <3>1 DEF RecoverOK
    <3> QED
      BY <1>1, <2>10, <3>1, <3>2 DEF RecoverOK
  <2>13. ASSUME mode = "run" PROVE RunOK'
    <3>1. RunOK
      BY <2>2, <2>13 DEF Shape
    <3>2. ASSUME NEW t \in Threads PROVE SplitOK(t)'
      <4>1. SplitOK(t)
        BY <3>1 DEF RunOK
      <4>2. \A x : (Upper(t, x)' <=> Upper(t, x)) /\ (Grouped(t, x)' <=> Grouped(t, x))
        BY <1>1 DEF Upper, Grouped
      <4>3. Published(t) => Published(t)'
        BY <1>1, <4>2 DEF Published
      <4>4. ASSUME pc[t] = "doubled" PROVE pm'.dir = mem'.dir \/ OldDir'
        <5>1. SUFFICES ASSUME pm'.dir # mem.dir PROVE OldDir'
          OBVIOUS
        <5>2. pm'.dir = pm.dir /\ pm.dir # mem.dir /\ OldDir
          BY <4>1, <4>4, <5>1 DEF SplitOK
        <5>3. pm'.dirs[pm.dir] = pm.dirs[pm.dir]
          BY <2>3, <5>2
        <5> QED
          BY <1>1, <5>2, <5>3 DEF OldDir
      <4>5. ASSUME pc[t] = "redirected"
            PROVE  \A x \in Ix(Dep) : /\ ~Upper(t, x)' => Dur'[x] = Ent[x]
                                      /\ Dur'[x] = loc[t].target => Grouped(t, x)'
        <5>1. SUFFICES ASSUME NEW x \in Ix(Dep)
                       PROVE  /\ ~Upper(t, x) => Dur'[x] = Ent[x]
                              /\ Dur'[x] = loc[t].target => Grouped(t, x)
          BY <4>2
        <5>2. ~Upper(t, x) => Dur[x] = Ent[x]
          BY <4>1, <4>5 DEF SplitOK
        <5>3. Dur[x] = loc[t].target => Grouped(t, x)
          BY <4>1, <4>5 DEF SplitOK
        <5>4. Ent[x] = loc[t].target => Grouped(t, x)
          BY <4>1, <4>5 DEF SplitOK, Published
        <5> QED
          BY <2>5, <5>2, <5>3, <5>4
      <4>6. ASSUME pc[t] = "raised", PL' # ML
            PROVE  /\ \A g \in Segments : g # loc[t].target => PL'[g] = ML[g]
                   /\ PL'[loc[t].target] + 1 = ML[loc[t].target]
                   /\ \E B : Leaders(B, Dur', PL', Dep)
        <5>1. /\ \A g \in Segments : g # loc[t].target => PL[g] = ML[g]
              /\ PL[loc[t].target] + 1 = ML[loc[t].target]
              /\ \E B : Leaders(B, Dur, PL, Dep)
          BY <2>10, <4>1, <4>6 DEF SplitOK
        <5>2. \A g \in Segments : g # loc[t].target => PL'[g] = ML[g]
          BY <5>1
        <5>3. loc[t].target \in Segments /\ PL'[loc[t].target] # ML[loc[t].target]
          BY <2>9, <4>6, <5>2
        <5>4. PL' = PL
          BY <2>9, <5>1, <5>2, <5>3
        <5>5. Dur = Ent
          BY <3>1, <4>6 DEF RunOK, OneSplit, SplitPCs
        <5> QED
          BY <2>11, <5>1, <5>4, <5>5
      <4> QED
        BY <1>1, <4>1, <4>3, <4>4, <4>5, <4>6 DEF SplitOK
    <3> QED
      BY <1>1, <2>10, <2>11, <3>1, <3>2 DEF RunOK
  <2> QED
    BY <1>1, <2>2, <2>6, <2>7, <2>8, <2>12, <2>13 DEF Shape
<1> QED
  BY <1>3, <1>4 DEF Inv

\* A header, an entry, dir or the depth of the directory is written back.
LEMMA EvictInv ==
  ASSUME Inv, OneSplit, Evict
  PROVE  Inv' /\ EvictViews
<1>1. Typed /\ ImagesOK /\ ThreadsOK /\ RestOK
  BY DEF Inv, Typed
<1>2. /\ mem' = mem /\ pc' = pc /\ loc' = loc /\ acked' = acked /\ mode' = mode /\ ri' = ri
      /\ crashes' = crashes /\ workload' = workload
  BY DEF Evict
<1>3. ThreadsOK' /\ RestOK'
  BY <1>1, <1>2, ThreadsSame DEF RestOK
<1>4. /\ mem \in Image /\ pm \in Image /\ DOMAIN mem.segs = 1 .. Len(mem.segs) /\ Len(mem.segs) \in Nat
      /\ Len(mem.segs) = Len(pm.segs) /\ Len(mem.dirs) = Len(pm.dirs)
      /\ mem.dir \in 1 .. Len(mem.dirs) /\ mem.dir \in Nat
  BY <1>1, ImageTypes DEF ImagesOK
<1>5. ASSUME NEW i \in DOMAIN mem.segs, NEW j \in Slots,
             pm' = [pm EXCEPT !.segs[i].bucket[j] = mem.segs[i].bucket[j]]
      PROVE  Inv' /\ EvictViews
  <2>1. Inv' /\ Quiet
    BY <1>2, <1>4, <1>5, EvictSlotInv
  <2>2. SegPut(pm, pm', i, [pm.segs[i].bucket EXCEPT ![j] = mem.segs[i].bucket[j]],
                pm.segs[i].sema, pm.segs[i].local_depth) /\ pm.segs[i].bucket \in [Slots -> KeyWords]
    BY <1>1, <1>4, <1>5, EvictSlotEffect, SegTypes
  <2>3. ASSUME NEW g \in Segments, NEW h \in Slots
        PROVE  pm'.segs[g].bucket[h] \in {pm.segs[g].bucket[h], mem.segs[g].bucket[h]}
    <3>1. CASE g = i
      BY <2>2, <3>1 DEF SegPut
    <3>2. CASE g # i
      BY <1>4, <2>2, <3>2 DEF SegPut, Segments
    <3> QED
      BY <3>1, <3>2
  <2>4. Dur' = Dur /\ PL' = PL /\ pm'.dirs = pm.dirs /\ pm'.dir = pm.dir
    BY <2>1, QuietViews DEF Quiet
  <2> QED
    BY <2>1, <2>3, <2>4 DEF EvictViews
<1>6. \A x \in Ix(Dep) : Dur[x] \in {Dur[x], Ent[x]}
  OBVIOUS
<1>7. ASSUME NEW i \in DOMAIN mem.segs, FlushHeader(i)
      PROVE  Inv' /\ EvictViews
  <2>1. /\ PL' = [PL EXCEPT ![i] = ML[i]]
        /\ pm' \in Image /\ Len(pm'.segs) = Len(pm.segs) /\ pm'.dirs = pm.dirs /\ pm'.dir = pm.dir
        /\ \A g \in Segments : pm'.segs[g].bucket = pm.segs[g].bucket
    BY <1>1, <1>4, <1>7, FlushedDepths
  <2>2. ImagesOK'
    <3>1. Len(mem'.segs) = Len(pm'.segs) /\ Len(mem'.segs) >= Len(mem.segs) /\ mem' \in Image
          /\ mem'.dirs = mem.dirs /\ mem'.dir = mem.dir
      BY <1>2, <1>4, <2>1
    <3> QED
      BY <1>1, <2>1, <3>1, ImagesFrame
  <2>3. Typed'
    BY <1>3, <2>2 DEF Typed
  <2>4. \A g \in Segments : PL'[g] \in {PL[g], ML[g]}
    <3>1. PL \in [Segments -> InitDepth .. HashBits]
      BY <1>1, DepthsTyped
    <3> QED
      BY <2>1, <3>1
  <2>5. Dur' = Dur /\ (Intact(mem) => Dur \in [Ix(Dep) -> Segments])
    BY <1>1, <1>2, <2>1, InUse DEF Dur
  <2>6. Inv'
    BY <1>2, <1>6, <2>1, <2>3, <2>4, <2>5, EvictShape
  <2> QED
    BY <1>2, <1>6, <2>1, <2>3, <2>4, <2>5, <2>6 DEF EvictViews
<1>8. ASSUME NEW x \in DOMAIN DirOf(mem).segment,
             pm' = [pm EXCEPT !.dirs[mem.dir].segment[x] = DirOf(mem).segment[x]]
      PROVE  Inv' /\ EvictViews
  <2>1. x \in DOMAIN Ent
    BY DEF Ent
  <2>2. PICK n \in InitDepth .. HashBits : \E new \in [Ix(n) -> Segments] :
           /\ Ent \in [Ix(n) -> Segments] /\ Dur \in [Ix(n) -> Segments]
           /\ Dep \in {0, n} /\ pm.dirs[mem.dir].depth \in {0, n}
           /\ \A y \in Ix(n) : new[y] = IF y = x THEN Ent[y] ELSE Dur[y]
           /\ DirPut(pm, pm', mem.dir, pm.dirs[mem.dir].depth, new)
    BY <1>1, <1>8, <2>1, EvictEntryEffect
  <2>3. PICK new \in [Ix(n) -> Segments] :
           /\ Ent \in [Ix(n) -> Segments] /\ Dur \in [Ix(n) -> Segments]
           /\ Dep \in {0, n} /\ pm.dirs[mem.dir].depth \in {0, n}
           /\ \A y \in Ix(n) : new[y] = IF y = x THEN Ent[y] ELSE Dur[y]
           /\ DirPut(pm, pm', mem.dir, pm.dirs[mem.dir].depth, new)
    BY <2>2
  <2>4. /\ pm' \in Image /\ pm'.segs = pm.segs /\ pm'.dir = pm.dir /\ Len(pm'.dirs) = Len(pm.dirs)
        /\ pm'.dirs[mem.dir].depth = pm.dirs[mem.dir].depth /\ pm'.dirs[mem.dir].segment = new
        /\ \A e \in 1 .. Len(pm.dirs) : e # mem.dir => pm'.dirs[e] = pm.dirs[e]
    BY <2>3 DEF DirPut
  <2>5. ImagesOK'
    <3>1. mem'.dirs[mem.dir].segment \in [Ix(n) -> Segments] /\ mem'.dirs[mem.dir].depth \in {0, n}
      BY <1>2, <2>3 DEF Ent, Dep, DirOf
    <3>2. pm'.dirs[mem.dir].segment \in [Ix(n) -> Segments] /\ pm'.dirs[mem.dir].depth \in {0, n}
      BY <2>3, <2>4
    <3>3. mem' \in Image /\ mem'.segs = mem.segs /\ mem'.dir = mem.dir /\ mem'.dirs = mem.dirs
      BY <1>2, <1>4
    <3> QED
      BY <1>1, <1>4, <2>4, <3>1, <3>2, <3>3, ImagesPut
  <2>6. Typed'
    BY <1>3, <2>5 DEF Typed
  <2>7. PL' = PL /\ Dur' = new
    BY <1>2, <2>4, LdsSame DEF PL, Dur
  <2>8. Intact(mem) => Dur' \in [Ix(Dep) -> Segments] /\ \A y \in Ix(Dep) : Dur'[y] \in {Dur[y], Ent[y]}
    <3>1. SUFFICES ASSUME Intact(mem) PROVE Dep = n
      BY <2>3, <2>7
    <3> QED
      BY <2>3, <3>1 DEF Intact, Dep
  <2>9. \A d \in 1 .. Len(mem.dirs) : d # mem.dir => pm'.dirs[d] = pm.dirs[d]
    BY <1>4, <2>4
  <2>10. pm'.dirs[mem.dir].depth \in {pm.dirs[mem.dir].depth, Dep} /\ pm'.dir \in {pm.dir, mem.dir}
         /\ \A g \in Segments : PL'[g] \in {PL[g], ML[g]}
    BY <2>4, <2>7
  <2>11. Inv'
    BY <1>2, <2>6, <2>8, <2>9, <2>10, EvictShape
  <2> QED
    BY <1>2, <2>4, <2>6, <2>8, <2>9, <2>10, <2>11 DEF EvictViews
<1>9. ASSUME pm' = [pm EXCEPT !.dir = mem.dir]
      PROVE  Inv' /\ EvictViews
  <2>1. pm' \in Image /\ pm'.segs = pm.segs /\ pm'.dirs = pm.dirs /\ pm'.dir = mem.dir
    BY <1>4, <1>9, SwitchDir DEF DirSwitch
  <2>2. ImagesOK'
    <3>1. Len(mem'.segs) = Len(pm'.segs) /\ Len(mem'.segs) >= Len(mem.segs) /\ mem' \in Image
          /\ mem'.dirs = mem.dirs /\ mem'.dir = mem.dir
      BY <1>2, <1>4, <2>1
    <3> QED
      BY <1>1, <2>1, <3>1, ImagesFrame
  <2>3. Typed'
    BY <1>3, <2>2 DEF Typed
  <2>5. Dur' = Dur /\ PL' = PL /\ (Intact(mem) => Dur \in [Ix(Dep) -> Segments])
    BY <1>1, <1>2, <2>1, InUse, LdsSame DEF Dur, PL
  <2>6. Inv'
    BY <1>2, <1>6, <2>1, <2>3, <2>5, EvictShape
  <2> QED
    BY <1>2, <1>6, <2>1, <2>3, <2>5, <2>6 DEF EvictViews
<1>10. ASSUME pm' = [pm EXCEPT !.dirs[mem.dir].depth = DirOf(mem).depth]
       PROVE  Inv' /\ EvictViews
  <2>1. PICK n \in InitDepth .. HashBits :
         /\ Ent \in [Ix(n) -> Segments] /\ Dep \in {0, n} /\ Dur \in [Ix(n) -> Segments]
    BY <1>1, <1>4 DEF ImagesOK, SizesAgree, Ent, Dur, Dep, DirOf
  <2>2. Dep \in 0 .. HashBits
    BY <2>1, Constants
  <2>3. DirPut(pm, pm', mem.dir, Dep, pm.dirs[mem.dir].segment)
    BY <1>4, <1>10, <2>2, PutDirDepth DEF Dep
  <2>4. /\ pm' \in Image /\ pm'.segs = pm.segs /\ pm'.dir = pm.dir /\ Len(pm'.dirs) = Len(pm.dirs)
        /\ pm'.dirs[mem.dir].depth = Dep /\ pm'.dirs[mem.dir].segment = Dur
        /\ \A e \in 1 .. Len(pm.dirs) : e # mem.dir => pm'.dirs[e] = pm.dirs[e]
    BY <2>3 DEF DirPut, Dur
  <2>5. ImagesOK'
    <3>1. mem'.dirs[mem.dir].segment \in [Ix(n) -> Segments] /\ mem'.dirs[mem.dir].depth \in {0, n}
      BY <1>2, <2>1 DEF Ent, Dep, DirOf
    <3>2. pm'.dirs[mem.dir].segment \in [Ix(n) -> Segments] /\ pm'.dirs[mem.dir].depth \in {0, n}
      BY <2>1, <2>4
    <3>3. mem' \in Image /\ mem'.segs = mem.segs /\ mem'.dir = mem.dir /\ mem'.dirs = mem.dirs
      BY <1>2, <1>4
    <3> QED
      BY <1>1, <1>4, <2>4, <3>1, <3>2, <3>3, ImagesPut
  <2>6. Typed'
    BY <1>3, <2>5 DEF Typed
  <2>7. PL' = PL /\ Dur' = Dur
    BY <1>2, <2>4, LdsSame DEF PL, Dur
  <2>8. Intact(mem) => Dur' \in [Ix(Dep) -> Segments] /\ \A y \in Ix(Dep) : Dur'[y] \in {Dur[y], Ent[y]}
    BY <1>1, <2>7, InUse
  <2>9. \A d \in 1 .. Len(mem.dirs) : d # mem.dir => pm'.dirs[d] = pm.dirs[d]
    BY <1>4, <2>4
  <2>10. pm'.dirs[mem.dir].depth \in {pm.dirs[mem.dir].depth, Dep} /\ pm'.dir \in {pm.dir, mem.dir}
         /\ \A g \in Segments : PL'[g] \in {PL[g], ML[g]}
    BY <2>4, <2>7
  <2>11. Inv'
    BY <1>2, <2>6, <2>8, <2>9, <2>10, EvictShape
  <2> QED
    BY <1>2, <2>4, <2>6, <2>8, <2>9, <2>10, <2>11 DEF EvictViews
<1> QED
  BY <1>5, <1>7, <1>8, <1>9, <1>10 DEF Evict

\* A power failure leaves a directory that Recovery can repair, or none.
LEMMA CrashInv ==
  ASSUME Inv, OneSplit, Crash
  PROVE  Inv'
<1>1. Typed /\ ImagesOK /\ ThreadsOK /\ RestOK /\ Durable
  BY InvDurable DEF Inv, Typed
<1>2. /\ mem' = pm /\ pm' = pm /\ pc' = [t \in Threads |-> "idle"] /\ loc' = [t \in Threads |-> NoLocals]
      /\ mode' = "recover" /\ ri' = 0 /\ workload' = workload /\ acked' = acked
      /\ crashes < workload.crashes /\ crashes' = crashes + 1
  BY DEF Crash
<1>3. ImagesOK'
  <2>1. ASSUME NEW d \in 1 .. Len(mem.dirs) PROVE SizesAgree(d)'
    <3>1. SizesAgree(d) /\ Segments' = Segments
      BY <1>1, <1>2 DEF ImagesOK, Segments
    <3> QED
      BY <1>2, <3>1 DEF SizesAgree
  <2> QED
    BY <1>1, <1>2, <2>1 DEF ImagesOK
<1>4. ThreadsOK'
  <2>1. NoLocals \in Locals
    BY Constants DEF NoLocals, Locals
  <2>2. "idle" \in PCs /\ "idle" \notin PairPCs /\ "idle" \notin SplitPCs
    BY DEF PCs, PairPCs, SplitPCs
  <2> QED
    BY <1>2, <2>1, <2>2 DEF ThreadsOK, LocalsOK
<1>5. RestOK'
  <2>1. workload.crashes \in Nat /\ crashes \in 0 .. workload.crashes
    BY <1>1, Constants DEF RestOK
  <2>2. crashes + 1 \in 0 .. workload.crashes
    BY <1>2, <2>1
  <2> QED
    BY <1>1, <1>2, <2>2 DEF RestOK
<1>6. Dead'
  BY <1>2 DEF Dead, Intact, DirOf
<1>7. Live'
  <2>1. SUFFICES ASSUME Intact(pm) PROVE Shape'
    BY <1>2 DEF Live, Intact, DirOf
  <2>2. PICK seg : seg = DirOf(pm).segment
    OBVIOUS
  <2>3. PICK D : D = DirOf(pm).depth
    OBVIOUS
  <2>4. DirOK(seg, PL, D) /\ Together(seg, seg, PL, D) /\ \E B : Leaders(B, seg, PL, D)
    BY <1>1, <2>1, <2>2, <2>3 DEF Durable, Sound
  <2>5. PICK B : Leaders(B, seg, PL, D)
    BY <2>4
  <2>6. Ent' = seg /\ Dur' = seg /\ Dep' = D /\ ML' = PL /\ PL' = PL
    BY <1>2, <2>2, <2>3 DEF Ent, Dur, Dep, ML, PL, DirOf
  <2>7. 0 \in B
    BY <2>4, <2>5, LeaderZero
  <2>8. SameLeaders'
    BY <1>2, <2>5, <2>6, <2>7 DEF SameLeaders
  <2>9. RecoverOK'
    <3>1. pm'.dirs[mem'.dir].depth = Dep'
      BY <1>2 DEF Dep, DirOf
    <3> QED
      BY <1>2, <2>6, <3>1 DEF RecoverOK
  <2> QED
    BY <1>2, <2>4, <2>6, <2>8, <2>9 DEF Shape
<1> QED
  BY <1>3, <1>4, <1>5, <1>6, <1>7 DEF Inv, Typed

\* Entries of a group are set back to its first one.
LEMMA RecoverGroupInv ==
  ASSUME Inv, RecoverGroup
  PROVE  Inv' /\ RecoverViews
<1>1. Typed /\ ImagesOK /\ ThreadsOK /\ RestOK /\ Live
  BY DEF Inv, Typed
<1>2. /\ mode = "recover" /\ mode' = mode /\ pm' = pm /\ pc' = pc /\ loc' = loc /\ acked' = acked
      /\ crashes' = crashes /\ workload' = workload /\ ri < Capacity
  BY DEF RecoverGroup
<1>3. Intact(mem)
  <2>1. SUFFICES ASSUME ~Intact(mem) PROVE FALSE
    OBVIOUS
  <2>2. Capacity = 0 /\ ri \in Nat
    BY <1>1, <2>1 DEF Capacity, RestOK
  <2> QED
    BY <1>2, <2>2
<1>4. Shape /\ RecoverOK
  BY <1>1, <1>2, <1>3 DEF Live, Shape
<1>5. PICK last : last = ri + Pow2[Dep - ML[Ent[ri]]] - 1
  OBVIOUS
<1>6. PICK new \in [Ix(Dep) -> Segments] :
           /\ \A x \in Ix(Dep) : new[x] = IF x \in ri + 1 .. last /\ ML[Ent[x]] # ML[Ent[ri]]
                                          THEN Ent[ri] ELSE Ent[x]
           /\ DirPut(mem, mem', mem.dir, Dep, new)
           /\ ri \in Ix(Dep) /\ last + 1 # Pow2[Dep] /\ ri' = last + 1
  BY <1>1, <1>3, <1>5, RecoverGroupEffect
<1>7. /\ Dep \in InitDepth .. HashBits /\ Dep \in Nat /\ Ent \in [Ix(Dep) -> Segments]
      /\ Dur \in [Ix(Dep) -> Segments] /\ DOMAIN ML = Segments
      /\ pm.dirs[mem.dir].depth \in {0, Dep} /\ mem.dir \in 1 .. Len(mem.dirs)
  BY <1>1, <1>3, InUse
<1>8. /\ mem' \in Image /\ mem'.segs = mem.segs /\ mem'.dir = mem.dir /\ Len(mem'.dirs) = Len(mem.dirs)
      /\ mem'.dirs[mem.dir].depth = Dep /\ mem'.dirs[mem.dir].segment = new
      /\ \A e \in 1 .. Len(mem.dirs) : e # mem.dir => mem'.dirs[e] = mem.dirs[e]
  BY <1>6 DEF DirPut
<1>9. Ent' = new /\ Dur' = Dur /\ Dep' = Dep /\ ML' = ML /\ PL' = PL /\ Intact(mem)'
  BY <1>2, <1>3, <1>8, LdsSame DEF Ent, Dur, Dep, DirOf, ML, PL, Intact
<1>10. ImagesOK'
  <2>1. pm'.dirs[mem.dir].segment \in [Ix(Dep) -> Segments] /\ pm'.dirs[mem.dir].depth \in {0, Dep}
    BY <1>2, <1>7 DEF Dur
  <2>2. mem'.dirs[mem.dir].segment \in [Ix(Dep) -> Segments] /\ mem'.dirs[mem.dir].depth \in {0, Dep}
    BY <1>6, <1>8
  <2>3. pm' \in Image /\ pm'.dirs = pm.dirs
    BY <1>1, <1>2 DEF ImagesOK
  <2> QED
    BY <1>1, <1>2, <1>7, <1>8, <2>1, <2>2, <2>3, ImagesPut
<1>11. ThreadsOK'
  BY <1>1, <1>2, <1>8, ThreadsSame
<1>12. PICK B : /\ Leaders(B, Ent, ML, Dep) /\ Leaders(B, Dur, ML, Dep)
                /\ (\A b \in B : Ent[b] = Dur[b]) /\ ri \in B
  BY <1>2, <1>4 DEF Shape, SameLeaders
<1>13. DirOK(Ent, ML, Dep) /\ DirOK(Dur, ML, Dep) /\ Together(Ent, Dur, ML, Dep)
  BY <1>4 DEF Shape
<1>14. PICK w : w = Pow2[Dep - ML[Ent[ri]]]
  OBVIOUS
<1>15. /\ w \in Nat \ {0} /\ (ri + w # Pow2[Dep] => ri + w \in B)
       /\ \A x \in Ix(Dep) : InGroup(ri, x, Ent, ML, Dep) <=> x \in ri .. ri + w - 1
  BY <1>12, <1>13, <1>14, LeaderNext
<1>16. ri \in Nat /\ last = ri + w - 1 /\ last + 1 = ri + w
  BY <1>1, <1>5, <1>14, <1>15 DEF RestOK
<1>17. ri' = ri + w /\ ri + w \in B /\ ri + w \in Nat
  BY <1>6, <1>15, <1>16
<1>18. \A x \in ri + 1 .. last : x \in ri .. ri + w - 1
  BY <1>15, <1>16
<1>19. \A x \in Ix(Dep) : new[x] = Ent[x] \/ (new[x] = Ent[ri] /\ InGroup(ri, x, Ent, ML, Dep))
  BY <1>6, <1>15, <1>18
<1>20. Leaders(B, new, ML, Dep) /\ \A b \in B : new[b] = Ent[b]
  <2>1. \A x \in Ix(Dep) : new[x] = Ent[x] \/ Fits(B, Ent, ML, Dep, x, new[x])
    BY <1>12, <1>19 DEF Fits
  <2> QED
    BY <1>12, <1>13, <2>1, LeadersChange
<1>21. Together(new, Dur, ML, Dep)
  <2>1. PICK g : g = Ent[ri]
    OBVIOUS
  <2>2. PICK q : q = Top(ri, Dep, ML[g])
    OBVIOUS
  <2>3. \A x \in Ix(Dep) : g \in {Ent[x], Dur[x]} => Top(x, Dep, ML[g]) = q
    BY <1>6, <1>13, <2>1, <2>2 DEF Together
  <2>4. \A x \in Ix(Dep) : new[x] = Ent[x] \/ (new[x] = g /\ Top(x, Dep, ML[g]) = q)
    BY <1>19, <2>1, <2>2 DEF InGroup
  <2> QED
    BY <1>13, <2>3, <2>4, TogetherSet
<1>22. DirOK(new, ML, Dep)
  <2>1. \A x \in Ix(Dep) : ML[new[x]] <= Dep
    BY <1>6, <1>13, <1>19 DEF DirOK
  <2> QED
    BY <1>6, <1>7, <1>13, <2>1 DEF DirOK
<1>23. SameLeaders'
  BY <1>9, <1>12, <1>17, <1>20 DEF SameLeaders
<1>24. RecoverOK'
  BY <1>2, <1>4, <1>8, <1>9 DEF RecoverOK
<1>25. Shape'
  BY <1>2, <1>9, <1>13, <1>21, <1>22, <1>23, <1>24 DEF Shape
<1>26. RestOK'
  BY <1>1, <1>2, <1>17 DEF RestOK
<1>27. Inv'
  BY <1>9, <1>10, <1>11, <1>25, <1>26 DEF Inv, Typed, Live, Dead
<1>28. RecoverViews
  <2>1. ri' - 1 = last
    BY <1>16, <1>17
  <2>2. \A x \in Ix(Dep) : Ent'[x] = IF x \in ri + 1 .. ri' - 1 /\ ML[Ent[x]] # ML[Ent[ri]] THEN Ent[ri] ELSE Ent[x]
    BY <1>6, <1>9, <2>1
  <2> QED
    BY <1>2, <1>3, <1>6, <1>8, <1>9, <1>14, <1>17, <2>2 DEF RecoverViews
<1> QED
  BY <1>27, <1>28

\* EndRecovery keeps the invariant.
LEMMA EndRecoveryInv ==
  ASSUME Inv, EndRecovery
  PROVE  /\ Inv' /\ mem' = mem /\ pm'.segs = pm.segs /\ ML' = ML /\ PL' = PL
         /\ Intact(mem) => Dur' = Ent
<1>1. Typed /\ ImagesOK /\ ThreadsOK /\ RestOK /\ Live /\ Dead
  BY DEF Inv, Typed
<1>2. /\ mode = "recover" /\ mode' = "run" /\ ri' = 0 /\ mem' = mem /\ pc' = pc /\ loc' = loc
      /\ acked' = acked /\ crashes' = crashes /\ workload' = workload
  BY DEF EndRecovery
<1>3. PICK n \in InitDepth .. HashBits : \E new \in [Ix(n) -> Segments] :
           /\ DirPut(pm, pm', mem.dir, pm.dirs[mem.dir].depth, new)
           /\ pm.dirs[mem.dir].segment \in [Ix(n) -> Segments]
           /\ Intact(mem) => new = Ent
           /\ ~Intact(mem) => new = pm.dirs[mem.dir].segment
  BY <1>1, EndRecoveryEffect
<1>4. PICK new \in [Ix(n) -> Segments] :
           /\ DirPut(pm, pm', mem.dir, pm.dirs[mem.dir].depth, new)
           /\ pm.dirs[mem.dir].segment \in [Ix(n) -> Segments]
           /\ Intact(mem) => new = Ent
           /\ ~Intact(mem) => new = pm.dirs[mem.dir].segment
  BY <1>3
<1>5. /\ pm' \in Image /\ pm'.segs = pm.segs /\ pm'.dir = pm.dir /\ Len(pm'.dirs) = Len(pm.dirs)
      /\ pm'.dirs[mem.dir].depth = pm.dirs[mem.dir].depth /\ pm'.dirs[mem.dir].segment = new
      /\ \A e \in 1 .. Len(pm.dirs) : e # mem.dir => pm'.dirs[e] = pm.dirs[e]
  BY <1>4 DEF DirPut
<1>6. /\ mem.dir \in 1 .. Len(mem.dirs) /\ Len(mem.dirs) = Len(pm.dirs) /\ mem \in Image
  BY <1>1 DEF ImagesOK
<1>7. ImagesOK'
  <2>1. PICK i \in InitDepth .. HashBits :
          /\ mem.dirs[mem.dir].segment \in [Ix(i) -> Segments] /\ mem.dirs[mem.dir].depth \in {0, i}
          /\ pm.dirs[mem.dir].segment \in [Ix(i) -> Segments] /\ pm.dirs[mem.dir].depth \in {0, i}
    BY <1>1, <1>6 DEF ImagesOK, SizesAgree
  <2>2. new \in [Ix(i) -> Segments]
    BY <1>4, <2>1 DEF Ent, DirOf
  <2>3. pm'.dirs[mem.dir].segment \in [Ix(i) -> Segments] /\ pm'.dirs[mem.dir].depth \in {0, i}
    BY <1>5, <2>1, <2>2
  <2>4. mem' \in Image /\ mem'.segs = mem.segs /\ mem'.dir = mem.dir /\ mem'.dirs = mem.dirs
    BY <1>2, <1>6
  <2> QED
    BY <1>1, <1>5, <1>6, <2>1, <2>3, <2>4, ImagesPut
<1>8. ThreadsOK'
  BY <1>1, <1>2, ThreadsSame
<1>9. RestOK'
  BY <1>1, <1>2 DEF RestOK
<1>10. Dead'
  BY <1>1, <1>2, <1>5 DEF Dead, Intact, DirOf
<1>11. Live'
  <2>1. SUFFICES ASSUME Intact(mem) PROVE Shape'
    BY <1>2 DEF Live
  <2>2. Shape /\ RecoverOK
    BY <1>1, <1>2, <2>1 DEF Live, Shape
  <2>3. Ent' = Ent /\ Dur' = Ent /\ Dep' = Dep /\ ML' = ML /\ PL' = PL
    BY <1>2, <1>4, <1>5, <2>1, LdsSame DEF Ent, Dur, Dep, DirOf, ML, PL
  <2>4. DirOK(Ent, ML, Dep) /\ Together(Ent, Ent, ML, Dep)
    BY <2>2, TogetherCopy DEF Shape
  <2>5. SameLeaders'
    BY <1>2, <2>2, <2>3 DEF Shape, SameLeaders
  <2>6. \A t \in Threads : SplitOK(t)'
    BY <1>2, <2>2 DEF SplitOK, RecoverOK
  <2>7. RunOK'
    BY <1>2, <1>5, <2>2, <2>3, <2>6 DEF RunOK, RecoverOK
  <2> QED
    BY <1>2, <2>3, <2>4, <2>5, <2>7 DEF Shape
<1>12. Inv'
  BY <1>7, <1>8, <1>9, <1>10, <1>11 DEF Inv, Typed
<1>13. Intact(mem) => Dur' = Ent
  BY <1>2, <1>4, <1>5 DEF Dur
<1> QED
  BY <1>2, <1>5, <1>12, <1>13, LdsSame DEF ML, PL

-----------------------------------------------------------------------------
(* The initial state                                                        *)

\* The initial state has the invariant.
LEMMA InitInv ==
  ASSUME Init
  PROVE  Inv
<1>1. PICK N : N = Pow2[InitDepth]
  OBVIOUS
<1>2. N \in Nat /\ N > 0 /\ Pow2[0] = 1
  BY <1>1, Constants, Pow2Step
<1>3. PICK S : S = SegRec
  OBVIOUS
<1>4. PICK seg : seg = [x \in 0 .. N - 1 |-> x + 1]
  OBVIOUS
<1>5. PICK d : d = [depth |-> InitDepth, segment |-> seg]
  OBVIOUS
<1>6. PICK q : q = [i \in 1 .. N |-> NewSegment(InitDepth)]
  OBVIOUS
<1>7. mem = [segs |-> q, dirs |-> <<d>>, dir |-> 1] /\ pm = mem
  BY <1>1, <1>4, <1>5, <1>6 DEF Init
<1>8. NewSegment(InitDepth) \in S
  BY <1>3, Constants DEF NewSegment, SegRec
<1>9. q \in Seq(S) /\ Len(q) = N
  BY <1>2, <1>6, <1>8
<1>10. seg \in [Ix(InitDepth) -> 1 .. N]
  BY <1>1, <1>2, <1>4 DEF Ix
<1>11. seg \in Arrays
  <2>1. seg \in [Ix(InitDepth) -> Nat] /\ InitDepth \in Nat
    BY <1>10, Constants
  <2> QED
    BY <2>1 DEF Arrays
<1>12. PICK R : R = DirRec
  OBVIOUS
<1>13. d \in R
  BY <1>5, <1>11, <1>12, Constants DEF DirRec
<1>14. <<d>> \in Seq(R) /\ Len(<<d>>) = 1 /\ <<d>>[1] = d
  BY <1>13
<1>15. /\ mem \in Image /\ mem.segs = q /\ mem.dirs = <<d>> /\ mem.dir = 1
       /\ Len(mem.segs) = N /\ Len(mem.dirs) = 1 /\ mem.dirs[1] = d
  BY <1>3, <1>7, <1>9, <1>12, <1>14 DEF Image
<1>16. Ent = seg /\ Dur = seg /\ Dep = InitDepth /\ Segments = 1 .. N
  BY <1>5, <1>7, <1>15 DEF Ent, Dur, Dep, DirOf, Segments
<1>17. ImagesOK
  <2>1. SizesAgree(1)
    <3>1. InitDepth \in InitDepth .. HashBits
      BY Constants
    <3> QED
      BY <1>5, <1>7, <1>10, <1>15, <1>16, <3>1 DEF SizesAgree
  <2> QED
    BY <1>7, <1>15, <2>1 DEF ImagesOK
<1>18. ThreadsOK
  <2>1. NoLocals \in Locals
    BY Constants DEF NoLocals, Locals
  <2>2. "idle" \in PCs /\ "idle" \notin PairPCs /\ "idle" \notin SplitPCs
    BY DEF PCs, PairPCs, SplitPCs
  <2> QED
    BY <2>1, <2>2 DEF ThreadsOK, LocalsOK, Init
<1>19. RestOK
  BY Constants DEF RestOK, Init
<1>20. PICK L : L = ML
  OBVIOUS
<1>21. L \in [1 .. N -> InitDepth .. HashBits] /\ DOMAIN L = 1 .. N /\ \A g \in 1 .. N : L[g] = InitDepth
  <2>1. \A g \in 1 .. N : mem.segs[g].local_depth = InitDepth
    BY <1>6, <1>15 DEF NewSegment
  <2> QED
    BY <1>15, <1>20, <2>1, LdsTyped DEF ML
<1>22. PL = L
  BY <1>7, <1>20 DEF ML, PL
<1>23. \A x \in Ix(InitDepth) : seg[x] \in 1 .. N /\ L[seg[x]] = InitDepth /\ seg[x] = x + 1
  BY <1>1, <1>4, <1>10, <1>21 DEF Ix
<1>24. DirOK(seg, L, InitDepth)
  BY <1>10, <1>21, <1>23, Constants DEF DirOK
<1>25. \A x \in Ix(InitDepth) : x \in Nat /\ Top(x, InitDepth, InitDepth) = x
  <2>1. \A x \in Ix(InitDepth) : x \in Nat
    BY DEF Ix
  <2> QED
    BY <2>1, TopSelf, Constants
<1>26. Together(seg, seg, L, InitDepth)
  <2>1. SUFFICES ASSUME NEW x \in Ix(InitDepth), NEW y \in Ix(InitDepth), seg[x] = seg[y] PROVE x = y
    BY DEF Together
  <2> QED
    BY <1>23, <1>25, <2>1
<1>27. Leaders(Ix(InitDepth), seg, L, InitDepth)
  <2>1. \A b, c \in Ix(InitDepth) : InGroup(b, c, seg, L, InitDepth) => b = c
    BY <1>23, <1>25 DEF InGroup
  <2>2. ASSUME NEW b \in Ix(InitDepth) PROVE (b % Pow2[InitDepth - L[seg[b]]]) = 0
    <3>1. InitDepth - L[seg[b]] = 0
      BY <1>23, Constants
    <3>2. Pow2[InitDepth - L[seg[b]]] = 1 /\ b \in Nat
      BY <1>2, <1>25, <3>1
    <3> QED
      BY <3>2
  <2>3. \A x \in Ix(InitDepth) : Fits(Ix(InitDepth), seg, L, InitDepth, x, seg[x])
    BY DEF Fits, InGroup
  <2> QED
    BY <2>1, <2>2, <2>3 DEF Leaders
<1>28. mode = "run" /\ \A t \in Threads : pc[t] = "idle"
  BY DEF Init
<1>29. RunOK
  BY <1>7, <1>16, <1>20, <1>22, <1>28 DEF RunOK, SplitOK
<1>30. Shape
  BY <1>16, <1>20, <1>24, <1>26, <1>27, <1>28, <1>29 DEF Shape, SameLeaders
<1>31. Intact(mem)
  BY <1>16, Constants DEF Intact, Dep
<1> QED
  BY <1>17, <1>18, <1>19, <1>30, <1>31 DEF Inv, Typed, Live, Dead

-----------------------------------------------------------------------------
(* The theorems about the shape of the directory                            *)

\* Every step keeps the invariant.
LEMMA NextInv ==
  ASSUME Inv, OneSplit, OneSplit', [Next]_vars
  PROVE  Inv'
<1>1. ASSUME NEW t \in Threads, InsertStep(t)
      PROVE  Inv'
  BY <1>1, SplitInv, ClaimInv, StoreKeyInv, PersistPairInv, ReturnInsertInv, DoubleDirInv, PersistDirInv,
     StoreEntriesInv, PersistEntriesInv, RaiseDepthInv, PersistDepthInv, ReopenInv DEF InsertStep
<1>2. ASSUME UNCHANGED vars PROVE Inv'
  <2>1. Typed /\ Live /\ Dead
    BY DEF Inv
  <2>2. Typed'
    BY <1>2, <2>1 DEF vars, Typed, ImagesOK, ThreadsOK, RestOK, SizesAgree, LocalsOK, Segments
  <2>3. Quiet
    BY <1>2 DEF vars, Quiet, ML, PL
  <2>4. pc' = pc /\ loc' = loc
    BY <1>2 DEF vars
  <2>5. Live' /\ Dead'
    BY <2>1, <2>2, <2>3, <2>4, QuietShape DEF Typed
  <2> QED
    BY <2>2, <2>5 DEF Inv
<1> QED
  BY <1>1, <1>2, EvictInv, CrashInv, RecoverGroupInv, EndRecoveryInv DEF Next

\* DepthAfterEntries follows from the invariant.
LEMMA DurableDepths ==
  ASSUME Inv, OneSplit
  PROVE  DepthAfterEntries
<1>1. SUFFICES ASSUME Intact(pm) PROVE DepthAfterEntries
  BY DEF DepthAfterEntries
<1>2. PICK seg : seg = DirOf(pm).segment
  OBVIOUS
<1>3. PICK D : D = DirOf(pm).depth
  OBVIOUS
<1>4. DirOK(seg, PL, D) /\ Together(seg, seg, PL, D)
  BY <1>1, <1>2, <1>3, InvDurable DEF Durable, Sound
<1>5. DOMAIN seg = Ix(D)
  BY <1>4 DEF DirOK
<1>6. ASSUME NEW x \in Ix(D), NEW y \in Ix(D), seg[x] = seg[y]
      PROVE  x \div Pow2[D - pm.segs[seg[x]].local_depth] = y \div Pow2[D - pm.segs[seg[x]].local_depth]
  <2>1. Top(x, D, PL[seg[x]]) = Top(y, D, PL[seg[x]])
    BY <1>4, <1>6 DEF Together
  <2>2. PL[seg[x]] = pm.segs[seg[x]].local_depth
    <3>1. pm \in Image /\ seg[x] \in DOMAIN PL
      BY <1>4 DEF DirOK, Inv, Typed, ImagesOK
    <3> QED
      BY <3>1, LdsTyped DEF PL
  <2> QED
    BY <2>1, <2>2 DEF Top
<1> QED
  BY <1>2, <1>3, <1>5, <1>6 DEF DepthAfterEntries

\* The types of the proof imply those of the model.
LEMMA TypedOK ==
  ASSUME Typed
  PROVE  TypeOK
<1>1. ImageOK(mem) /\ ImageOK(pm)
  <2>1. ASSUME NEW m, m \in {mem, pm} PROVE ImageOK(m)
    <3>1. /\ m \in Image /\ Len(m.segs) = Len(mem.segs) /\ Len(m.dirs) = Len(mem.dirs)
          /\ m.dir \in 1 .. Len(mem.dirs)
      BY <2>1 DEF Typed, ImagesOK
    <3>2. DOMAIN m.segs = Segments /\ DOMAIN m.dirs = 1 .. Len(mem.dirs)
      BY <3>1, ImageTypes DEF Segments
    <3>3. ASSUME NEW i \in DOMAIN m.segs
          PROVE  /\ m.segs[i].bucket \in [Slots -> KeyWords]
                 /\ m.segs[i].sema \in Int /\ m.segs[i].local_depth \in 1 .. HashBits
      <4>1. /\ m.segs[i].bucket \in [Slots -> KeyWords] /\ m.segs[i].sema \in Int
            /\ m.segs[i].local_depth \in InitDepth .. HashBits
        BY <3>1, <3>2, SegTypes DEF Segments
      <4> QED
        BY <4>1, Constants
    <3>4. ASSUME NEW d \in DOMAIN m.dirs
          PROVE  /\ m.dirs[d].depth \in 0 .. HashBits
                 /\ \E n \in 1 .. HashBits :
                      /\ m.dirs[d].segment \in [0 .. Pow2[n] - 1 -> DOMAIN m.segs]
                      /\ m.dirs[d].depth \in {0, n}
      <4>1. PICK n \in InitDepth .. HashBits :
              /\ mem.dirs[d].segment \in [Ix(n) -> Segments] /\ mem.dirs[d].depth \in {0, n}
              /\ pm.dirs[d].segment \in [Ix(n) -> Segments] /\ pm.dirs[d].depth \in {0, n}
        BY <3>2 DEF Typed, ImagesOK, SizesAgree
      <4>2. n \in 1 .. HashBits /\ 0 \in 0 .. HashBits /\ n \in 0 .. HashBits
        BY Constants
      <4>3. m.dirs[d].segment \in [0 .. Pow2[n] - 1 -> DOMAIN m.segs] /\ m.dirs[d].depth \in {0, n}
        BY <2>1, <3>2, <4>1 DEF Ix
      <4> QED
        BY <4>2, <4>3
    <3> QED
      BY <3>1, <3>2, <3>3, <3>4 DEF ImageOK
  <2> QED
    BY <2>1
<1> QED
  BY <1>1, Constants DEF TypeOK, Typed, ImagesOK, RestOK

\* As long as no two threads are in a split at once, the invariant holds.
THEOREM RecoveryInv == Spec /\ []OneSplit => []Inv
<1>1. Init => Inv
  BY InitInv
<1>2. Inv /\ OneSplit /\ OneSplit' /\ [Next]_vars => Inv'
  BY NextInv
<1> QED
  BY <1>1, <1>2, PTL DEF Spec

\* The durable directory keeps the promise of every durable local depth, at
\* every moment: what Split, the directory update and the persists of
\* CCEH::Insert are ordered for (CCEH.cpp, pmemobj_persist of the entries
\* before local_depth++).
THEOREM RecoveryDepthAfterEntries == Spec /\ []OneSplit => [](TypeOK /\ DepthAfterEntries)
<1>1. Inv /\ OneSplit => TypeOK /\ DepthAfterEntries
  BY TypedOK, DurableDepths DEF Inv
<1> QED
  BY <1>1, RecoveryInv, PTL

-----------------------------------------------------------------------------
(* Whole groups: the entries that a depth gives to a segment lead to it     *)

\* Entry x is in the range of the last of the first Pow2[InitDepth] segments.
\* Recovery does not repair the group that ends the directory, which lies there.
LastB(x, D) == Top(x, D, InitDepth) = Pow2[InitDepth] - 1

WholeAt(seg, L, D, y) == \A z \in Ix(D) : InGroup(y, z, seg, L, D) => seg[z] = seg[y]

\* But for the segments E, which are being split.
Wholes(seg, L, D, E) ==
  \A y \in Ix(D) : (~LastB(y, D) /\ seg[y] \notin E) => WholeAt(seg, L, D, y)

\* The lower half of the range p at the depth of g still leads to g.
Keeps(seg, L, D, g, p) ==
  \A z \in Ix(D) :
    (~LastB(z, D) /\ Top(z, D, L[g]) = p /\ Top(z, D, L[g] + 1) # 2 * p + 1) => seg[z] = g

\* Entries of one group are in the last block together.
LEMMA LastSame ==
  ASSUME NEW D \in InitDepth .. HashBits, NEW l \in InitDepth .. D, NEW x \in Ix(D), NEW y \in Ix(D),
         Top(x, D, l) = Top(y, D, l)
  PROVE  LastB(x, D) <=> LastB(y, D)
<1>1. D \in Nat /\ l \in 0 .. D /\ InitDepth \in 0 .. l /\ x \in Nat /\ y \in Nat
  BY Constants DEF Ix
<1> QED
  BY <1>1, TopCoarse DEF LastB

\* Doubling: the groups of the other segments stay whole.
LEMMA WholeDouble ==
  ASSUME NEW seg, NEW L, NEW D, DirOK(seg, L, D), D < HashBits, Wholes(seg, L, D, {}),
         NEW x \in Ix(D), L[seg[x]] = D, NEW s \in DOMAIN L, L[s] = D + 1,
         NEW new, \A n \in Ix(D + 1) : new[n] = IF n = 2 * x + 1 THEN s ELSE seg[n \div 2]
  PROVE  Wholes(new, L, D + 1, {seg[x]})
<1>1. SUFFICES ASSUME NEW y \in Ix(D + 1), ~LastB(y, D + 1), new[y] # seg[x],
                      NEW z \in Ix(D + 1), InGroup(y, z, new, L, D + 1)
               PROVE  new[z] = new[y]
  BY DEF Wholes, WholeAt
<1>2. /\ D \in Nat /\ InitDepth \in 0 .. D /\ HashBits \in Nat /\ D + 1 \in Nat
      /\ \A n \in Ix(D) : n \in Nat /\ seg[n] \in DOMAIN L /\ L[seg[n]] \in 0 .. D
  BY DirTypes, Constants DEF DirOK
<1>3. y \in Nat /\ z \in Nat
  BY DEF Ix
<1>4. /\ y \div 2 \in Ix(D) /\ Top(y \div 2, D, InitDepth) = Top(y, D + 1, InitDepth)
      /\ z \div 2 \in Ix(D)
      /\ \A l \in 0 .. D : Top(y \div 2, D, l) = Top(y, D + 1, l) /\ Top(z \div 2, D, l) = Top(z, D + 1, l)
  BY <1>2, <1>3, TopDouble
<1>5. CASE y = 2 * x + 1
  <2>1. L[new[y]] = D + 1
    BY <1>5
  <2>2. Top(y, D + 1, D + 1) = y /\ Top(z, D + 1, D + 1) = z
    BY <1>2, <1>3, TopSelf
  <2> QED
    BY <1>1, <2>1, <2>2 DEF InGroup
<1>6. CASE y # 2 * x + 1
  <2>1. PICK h : h = seg[y \div 2]
    OBVIOUS
  <2>2. new[y] = h /\ L[h] \in 0 .. D
    BY <1>2, <1>4, <1>6, <2>1
  <2>3. Top(z \div 2, D, L[h]) = Top(y \div 2, D, L[h])
    BY <1>1, <1>4, <2>2 DEF InGroup
  <2>4. ~LastB(y \div 2, D)
    BY <1>1, <1>4 DEF LastB
  <2>5. seg[z \div 2] = h
    BY <1>4, <2>1, <2>3, <2>4 DEF Wholes, WholeAt, InGroup
  <2>6. z # 2 * x + 1
    <3>1. SUFFICES ASSUME z = 2 * x + 1 PROVE FALSE
      OBVIOUS
    <3>2. z \div 2 = x
      BY <1>2, <3>1
    <3> QED
      BY <1>1, <2>2, <2>5, <3>2
  <2> QED
    BY <2>2, <2>5, <2>6
<1> QED
  BY <1>5, <1>6

\* new is seg with the upper half of the range p of g given to s.
Redirects(seg, L, D, g, s, p, new) ==
  /\ L[g] < D /\ L[s] = L[g] + 1
  /\ \A y \in Ix(D) : new[y] = IF Top(y, D, L[g] + 1) = 2 * p + 1 THEN s ELSE seg[y]

\* The upper half of the entries of a segment goes to s; the lower half stays.
LEMMA WholeStore ==
  ASSUME NEW seg, NEW L, NEW D, DirOK(seg, L, D), Wholes(seg, L, D, {}),
         NEW x \in Ix(D), NEW g, g = seg[x], NEW s,
         NEW p \in Nat, p = Top(x, D, L[g]), NEW new, Redirects(seg, L, D, g, s, p, new)
  PROVE  Wholes(new, L, D, {g}) /\ Keeps(new, L, D, g, p)
<1>0. /\ L[g] < D /\ L[s] = L[g] + 1
      /\ \A y \in Ix(D) : new[y] = IF Top(y, D, L[g] + 1) = 2 * p + 1 THEN s ELSE seg[y]
  BY DEF Redirects
<1>1. /\ D \in Nat /\ InitDepth \in Nat /\ D \in InitDepth .. HashBits
      /\ \A n \in Ix(D) : n \in Nat /\ seg[n] \in DOMAIN L /\ L[seg[n]] \in 0 .. D /\ L[seg[n]] \in InitDepth .. D
  BY DirTypes DEF DirOK
<1>2. PICK m \in Nat : m = L[g]
  BY <1>1
<1>3. m \in 0 .. D - 1 /\ m \in InitDepth .. D /\ m \in 0 .. D /\ m + 1 \in 0 .. D /\ L[s] = m + 1
      /\ p = Top(x, D, m)
  BY <1>0, <1>1, <1>2
<1>4. ASSUME NEW z \in Ix(D), ~LastB(z, D), Top(z, D, m) = p
      PROVE  seg[z] = g
  <2>1. ~LastB(x, D)
    BY <1>1, <1>3, <1>4, LastSame
  <2> QED
    BY <1>2, <1>3, <1>4, <2>1 DEF Wholes, WholeAt, InGroup
<1>5. ASSUME NEW z \in Ix(D), Top(z, D, m + 1) = 2 * p + 1
      PROVE  Top(z, D, m) = p
  <2>1. Top(z, D, m) \in Nat /\ Top(z, D, m + 1) \in {2 * Top(z, D, m), 2 * Top(z, D, m) + 1}
    BY <1>1, <1>3, TopHalf
  <2> QED
    BY <1>5, <2>1
<1>6. Keeps(new, L, D, g, p)
  BY <1>0, <1>2, <1>4 DEF Keeps
<1>7. ASSUME NEW y \in Ix(D), ~LastB(y, D), new[y] # g, NEW z \in Ix(D), InGroup(y, z, new, L, D)
      PROVE  new[z] = new[y]
  <2>1. CASE Top(y, D, m + 1) = 2 * p + 1
    <3>1. new[y] = s
      BY <1>0, <1>2, <2>1
    <3>2. Top(z, D, m + 1) = 2 * p + 1
      BY <1>3, <1>7, <2>1, <3>1 DEF InGroup
    <3> QED
      BY <1>0, <1>2, <3>1, <3>2
  <2>2. CASE Top(y, D, m + 1) # 2 * p + 1
    <3>1. PICK h : h = seg[y]
      OBVIOUS
    <3>2. new[y] = h /\ L[h] \in InitDepth .. D
      BY <1>0, <1>1, <1>2, <2>2, <3>1
    <3>3. Top(z, D, L[h]) = Top(y, D, L[h])
      BY <1>7, <3>2 DEF InGroup
    <3>4. seg[z] = h
      BY <1>7, <3>1, <3>3 DEF Wholes, WholeAt, InGroup
    <3>5. ~LastB(z, D)
      BY <1>1, <1>7, <3>2, <3>3, LastSame
    <3>6. Top(z, D, m + 1) # 2 * p + 1
      BY <1>4, <1>5, <1>7, <3>2, <3>4, <3>5
    <3> QED
      BY <1>0, <1>2, <3>2, <3>4, <3>6
  <2> QED
    BY <2>1, <2>2
<1>8. Wholes(new, L, D, {g})
  BY <1>7 DEF Wholes, WholeAt
<1> QED
  BY <1>6, <1>8

\* The depth of g is raised once its upper half leads elsewhere.
LEMMA WholeRaise ==
  ASSUME NEW seg, NEW L, NEW D, DirOK(seg, L, D), NEW g \in DOMAIN L, L[g] < D, Wholes(seg, L, D, {g}),
         NEW p \in Nat, NEW s, s # g,
         \A x \in Ix(D) : Top(x, D, L[g] + 1) = 2 * p + 1 => seg[x] = s,
         \A x \in Ix(D) : seg[x] = g => Top(x, D, L[g]) = p,
         Keeps(seg, L, D, g, p),
         NEW K, K = [L EXCEPT ![g] = L[g] + 1]
  PROVE  Wholes(seg, K, D, {})
<1>1. SUFFICES ASSUME NEW y \in Ix(D), ~LastB(y, D), NEW z \in Ix(D), InGroup(y, z, seg, K, D)
               PROVE  seg[z] = seg[y]
  BY DEF Wholes, WholeAt
<1>2. /\ D \in Nat /\ InitDepth \in Nat /\ D \in InitDepth .. HashBits
      /\ \A n \in Ix(D) : n \in Nat /\ seg[n] \in DOMAIN L /\ L[seg[n]] \in 0 .. D /\ L[seg[n]] \in InitDepth .. D
      /\ L[g] \in Nat /\ L[g] \in InitDepth .. HashBits
  BY DirTypes DEF DirOK
<1>3. CASE seg[y] # g
  <2>1. K[seg[y]] = L[seg[y]]
    BY <1>2, <1>3
  <2> QED
    BY <1>1, <1>3, <2>1 DEF Wholes, WholeAt, InGroup
<1>4. CASE seg[y] = g
  <2>1. PICK m \in Nat : m = L[g]
    BY <1>2
  <2>2. m \in 0 .. D - 1 /\ m \in 0 .. m + 1 /\ m + 1 \in 0 .. D /\ m + 1 \in InitDepth .. D /\ K[g] = m + 1
    BY <1>2, <2>1
  <2>3. Top(z, D, m + 1) = Top(y, D, m + 1)
    BY <1>1, <1>4, <2>2 DEF InGroup
  <2>4. Top(z, D, m) = Top(y, D, m)
    BY <1>2, <2>2, <2>3, TopCoarse
  <2>5. ~LastB(z, D)
    BY <1>1, <1>2, <2>2, <2>3, LastSame
  <2>6. Top(y, D, m) = p /\ Top(y, D, m + 1) # 2 * p + 1
    BY <1>4, <2>1
  <2> QED
    BY <1>4, <2>1, <2>3, <2>4, <2>5, <2>6 DEF Keeps
<1> QED
  BY <1>3, <1>4

\* Recovery makes the group of a leader whole and leaves those before it alone.
LEMMA WholeRepair ==
  ASSUME NEW seg, NEW L, NEW D, DirOK(seg, L, D), NEW B, Leaders(B, seg, L, D), NEW b \in B,
         \A y \in Ix(D) : y < b => WholeAt(seg, L, D, y), NEW w, w = Pow2[D - L[seg[b]]],
         NEW new, \A x \in Ix(D) : new[x] = IF x \in b + 1 .. b + w - 1 /\ L[seg[x]] # L[seg[b]]
                                            THEN seg[b] ELSE seg[x]
  PROVE  \A y \in Ix(D) : y < b + w => WholeAt(new, L, D, y)
<1>1. /\ D \in Nat /\ \A n \in Ix(D) : n \in Nat /\ L[seg[n]] \in 0 .. D /\ L[seg[n]] \in Nat
  BY DirTypes
<1>2. /\ w \in Nat \ {0} /\ \A x \in Ix(D) : InGroup(b, x, seg, L, D) <=> x \in b .. b + w - 1
  BY LeaderNext
<1>3. B \subseteq Ix(D) /\ b \in Ix(D) /\ b \in Nat
  BY DEF Leaders, Ix
<1>4. ASSUME NEW x \in Ix(D), x \in b .. b + w - 1
      PROVE  new[x] = seg[b]
  <2>1. InGroup(b, x, seg, L, D)
    BY <1>2, <1>4
  <2>2. PICK c \in B : /\ InGroup(c, x, seg, L, D)
                       /\ \/ seg[x] = seg[c]
                          \/ /\ L[seg[c]] < L[seg[x]]
                             /\ Top(x, D, L[seg[c]] + 1) # Top(c, D, L[seg[c]] + 1)
    BY DEF Leaders, Fits
  <2>3. c = b
    BY <2>1, <2>2, LeaderUnique
  <2>4. CASE seg[x] = seg[b]
    BY <2>4
  <2>5. CASE L[seg[b]] < L[seg[x]]
    <3>1. x # b
      BY <1>1, <1>3, <2>5
    <3>2. x \in b + 1 .. b + w - 1 /\ L[seg[x]] # L[seg[b]]
      BY <1>1, <1>3, <1>4, <2>5, <3>1
    <3> QED
      BY <3>2
  <2> QED
    BY <2>2, <2>3, <2>4, <2>5
<1>5. SUFFICES ASSUME NEW y \in Ix(D), y < b + w, NEW z \in Ix(D), InGroup(y, z, new, L, D)
               PROVE  new[z] = new[y]
  BY DEF WholeAt
<1>6. CASE y < b
  <2>1. new[y] = seg[y]
    BY <1>1, <1>3, <1>6
  <2>2. seg[z] = seg[y] /\ Top(z, D, L[seg[y]]) = Top(y, D, L[seg[y]])
    BY <1>5, <1>6, <2>1 DEF WholeAt, InGroup
  <2>3. PICK c \in B : /\ InGroup(c, y, seg, L, D)
                       /\ \/ seg[y] = seg[c]
                          \/ /\ L[seg[c]] < L[seg[y]]
                             /\ Top(y, D, L[seg[c]] + 1) # Top(c, D, L[seg[c]] + 1)
    BY DEF Leaders, Fits
  <2>4. L[seg[c]] \in 0 .. L[seg[y]] /\ c \in Ix(D) /\ c \in Nat
    BY <1>1, <1>3, <2>3
  <2>5. Top(z, D, L[seg[c]]) = Top(y, D, L[seg[c]])
    BY <1>1, <2>2, <2>4, TopCoarse
  <2>6. InGroup(c, z, seg, L, D)
    BY <2>3, <2>5 DEF InGroup
  <2>7. PICK v : v = Pow2[D - L[seg[c]]]
    OBVIOUS
  <2>8. /\ v \in Nat \ {0} /\ \A x \in Ix(D) : InGroup(c, x, seg, L, D) <=> x \in c .. c + v - 1
    BY <2>7, LeaderNext
  <2>9. c # b
    BY <1>1, <1>3, <1>6, <2>3, <2>4, <2>8
  <2>10. ~InGroup(c, b, seg, L, D)
    BY <2>9 DEF Leaders
  <2>11. z < b
    <3>1. y \in c .. c + v - 1 /\ z \in c .. c + v - 1 /\ b \notin c .. c + v - 1
      BY <1>3, <2>3, <2>6, <2>8, <2>10
    <3> QED
      BY <1>1, <1>3, <1>6, <2>4, <2>8, <3>1
  <2>12. new[z] = seg[z]
    BY <1>1, <1>3, <2>11
  <2> QED
    BY <2>1, <2>2, <2>12
<1>7. CASE ~(y < b)
  <2>1. y \in b .. b + w - 1
    BY <1>1, <1>2, <1>3, <1>5, <1>7
  <2>2. new[y] = seg[b]
    BY <1>4, <2>1
  <2>3. InGroup(b, y, seg, L, D)
    BY <1>2, <2>1
  <2>4. InGroup(b, z, seg, L, D)
    BY <1>5, <2>2, <2>3 DEF InGroup
  <2>5. new[z] = seg[b]
    BY <1>2, <1>4, <2>4
  <2> QED
    BY <2>2, <2>5
<1> QED
  BY <1>6, <1>7

\* The group that Recovery leaves as it is lies in the last block.
LEMMA LastGroup ==
  ASSUME NEW seg, NEW L, NEW D, DirOK(seg, L, D), NEW b \in Ix(D), b + Pow2[D - L[seg[b]]] = Pow2[D],
         NEW y \in Ix(D), ~LastB(y, D)
  PROVE  y < b
<1>1. /\ D \in Nat /\ InitDepth \in 0 .. D /\ L[seg[b]] \in InitDepth .. D /\ L[seg[b]] \in Nat
      /\ y \in Nat /\ b \in Nat /\ InitDepth \in Nat
  BY DirTypes, Constants DEF DirOK
<1>2. PICK a \in Nat : a = D - InitDepth
  BY <1>1
<1>3. PICK c \in Nat : c = D - L[seg[b]]
  BY <1>1
<1>4. PICK e \in Nat : e = L[seg[b]] - InitDepth
  BY <1>1
<1>5. a = c + e /\ D = InitDepth + a
  BY <1>1, <1>2, <1>3, <1>4
<1>6. Pow2[a] = Pow2[c] * Pow2[e] /\ Pow2[D] = Pow2[InitDepth] * Pow2[a]
  BY <1>1, <1>5, Pow2Sum
<1>7. Pow2[a] \in Nat \ {0} /\ Pow2[c] \in Nat \ {0} /\ Pow2[e] \in Nat \ {0} /\ Pow2[InitDepth] \in Nat \ {0}
  BY <1>1, Pow2Step
<1>8. Pow2[c] <= Pow2[a]
  <2>1. PICK u \in Nat : u = Pow2[c]
    BY <1>7
  <2>2. PICK v \in Nat : v = Pow2[e] /\ v >= 1
    BY <1>7
  <2>3. u <= u * v
    BY <2>2
  <2> QED
    BY <1>6, <2>1, <2>2, <2>3
<1>9. SUFFICES ASSUME y >= b PROVE LastB(y, D)
  BY <1>1
<1>10. PICK N \in Nat : N = Pow2[InitDepth] /\ N >= 1
  BY <1>7
<1>11. PICK u \in Nat : u = Pow2[a] /\ u >= 1
  BY <1>7
<1>12. y >= N * u - u /\ y < N * u
  <2>3. Pow2[D] \in Nat
    BY <1>1, Pow2Step
  <2>1. y < Pow2[D] /\ b + Pow2[c] = Pow2[D]
    BY <1>1, <1>3, <2>3 DEF Ix
  <2>2. Pow2[D] = N * u /\ Pow2[D] \in Nat
    BY <1>6, <1>10, <1>11
  <2> QED
    BY <1>1, <1>7, <1>8, <1>9, <1>11, <2>1, <2>2
<1>13. y = (N - 1) * u + (y - (N - 1) * u) /\ y - (N - 1) * u \in 0 .. u - 1 /\ N - 1 \in Nat
  <2>1. (N - 1) * u = N * u - u /\ N * u \in Nat
    BY <1>10, <1>11
  <2> QED
    BY <1>1, <1>10, <1>11, <1>12, <2>1
<1>14. y \div u = N - 1
  BY <1>1, <1>11, <1>13, DivModUnique
<1> QED
  BY <1>2, <1>10, <1>11, <1>14 DEF LastB, Top

\* The directory has the new segment of t, and the depth is not raised yet.
Splitting(t) == pc[t] \in {"doubled", "redirected", "published"}
Exempt == {loc[t].target : t \in {u \in Threads : Splitting(u)}}

\* The lower half of the range that t splits.
Lower(t) ==
  \A z \in Ix(Dep) : (~LastB(z, Dep) /\ Grouped(t, z) /\ ~Upper(t, z)) => Ent[z] = loc[t].target

Whole ==
  Intact(mem) =>
    /\ mode = "run" => Wholes(Ent, ML, Dep, Exempt) /\ \A t \in Threads : Splitting(t) => Lower(t)
    /\ mode = "recover" => \A y \in Ix(Dep) : y < ri => WholeAt(Ent, ML, Dep, y)

\* A step that leaves the directory in mem alone and the threads that split too.
LEMMA WholeSame ==
  ASSUME Whole, Ent' = Ent, Dep' = Dep, ML' = ML, Intact(mem)' => Intact(mem), mode' = mode, ri' = ri,
         \A u \in Threads : /\ Splitting(u)' <=> Splitting(u)
                            /\ Splitting(u) => loc'[u] = loc[u]
  PROVE  Whole'
<1>1. SUFFICES ASSUME Intact(mem)'
               PROVE  /\ mode' = "run" => Wholes(Ent, ML, Dep, Exempt)' /\ \A t \in Threads : Splitting(t)' => Lower(t)'
                      /\ mode' = "recover" => \A y \in Ix(Dep) : y < ri' => WholeAt(Ent, ML, Dep, y)'
  BY DEF Whole
<1>2. Intact(mem)
  BY <1>1
<1>3. ASSUME mode' = "run" PROVE Wholes(Ent, ML, Dep, Exempt)' /\ \A t \in Threads : Splitting(t)' => Lower(t)'
  <2>1. Exempt' = Exempt
    BY DEF Exempt
  <2>2. Wholes(Ent, ML, Dep, Exempt) /\ \A t \in Threads : Splitting(t) => Lower(t)
    BY <1>2, <1>3 DEF Whole
  <2>3. ASSUME NEW t \in Threads, Splitting(t)' PROVE Lower(t)'
    BY <2>2, <2>3 DEF Lower, Grouped, Upper
  <2> QED
    BY <2>1, <2>2, <2>3
<1>4. ASSUME mode' = "recover" PROVE \A y \in Ix(Dep) : y < ri' => WholeAt(Ent, ML, Dep, y)'
  BY <1>2, <1>4 DEF Whole
<1> QED
  BY <1>3, <1>4

\* A quiet step keeps whole groups, if no thread moves within a split.
LEMMA WholeQuiet ==
  ASSUME Whole, Quiet, ThreadsOK, NEW t \in Threads, NEW from, NEW to, NEW l,
         Goto(t, from, to), loc' = [loc EXCEPT ![t] = l] \/ loc' = loc,
         from \notin Moving, to \notin Moving
  PROVE  Whole'
<1>1. Ent' = Ent /\ Dep' = Dep /\ ML' = ML /\ (Intact(mem)' => Intact(mem)) /\ mode' = mode /\ ri' = ri
  BY QuietViews DEF Quiet
<1>2. pc[t] = from /\ pc' = [pc EXCEPT ![t] = to] /\ pc \in [Threads -> PCs] /\ loc \in [Threads -> Locals]
  BY DEF Goto, ThreadsOK
<1>3. ASSUME NEW u \in Threads
      PROVE  (Splitting(u)' <=> Splitting(u)) /\ (Splitting(u) => loc'[u] = loc[u])
  <2>1. CASE u = t
    BY <1>2, <2>1 DEF Splitting, Moving
  <2>2. CASE u # t
    BY <1>2, <2>2 DEF Splitting
  <2> QED
    BY <2>1, <2>2
<1> QED
  BY <1>1, <1>3, WholeSame

\* Nobody else is splitting: what Whole says, by where t is.
LEMMA WholeAlone ==
  ASSUME NEW t \in Threads, \A u \in Threads : u # t => pc[u] \notin SplitPCs, Intact(mem), mode = "run"
  PROVE  /\ Whole <=> (Wholes(Ent, ML, Dep, Exempt) /\ (Splitting(t) => Lower(t)))
         /\ Splitting(t) => Exempt = {loc[t].target}
         /\ ~Splitting(t) => Exempt = {}
<1>1. \A u \in Threads : u # t => ~Splitting(u)
  BY DEF Splitting, SplitPCs
<1>2. Splitting(t) => Exempt = {loc[t].target}
  BY <1>1 DEF Exempt
<1>3. ~Splitting(t) => Exempt = {}
  BY <1>1 DEF Exempt
<1>4. Whole <=> (Wholes(Ent, ML, Dep, Exempt) /\ (Splitting(t) => Lower(t)))
  BY <1>1 DEF Whole
<1> QED
  BY <1>2, <1>3, <1>4

\* The same for the next state.
LEMMA WholeAloneNext ==
  ASSUME NEW t \in Threads, \A u \in Threads : u # t => pc'[u] \notin SplitPCs, Intact(mem)', mode' = "run"
  PROVE  /\ Whole' <=> (Wholes(Ent', ML', Dep', Exempt') /\ (Splitting(t)' => Lower(t)'))
         /\ Splitting(t)' => Exempt' = {loc'[t].target}
         /\ ~Splitting(t)' => Exempt' = {}
<1>1. \A u \in Threads : u # t => ~Splitting(u)'
  BY DEF Splitting, SplitPCs
<1>2. Splitting(t)' => Exempt' = {loc'[t].target}
  BY <1>1 DEF Exempt
<1>3. ~Splitting(t)' => Exempt' = {}
  BY <1>1 DEF Exempt
<1>4. Whole' <=> (Wholes(Ent', ML', Dep', Exempt') /\ (Splitting(t)' => Lower(t)'))
  BY <1>1 DEF Whole
<1> QED
  BY <1>2, <1>3, <1>4

\* Split: the new segment is in no entry.
LEMMA SplitWhole ==
  ASSUME Inv, Whole, OneSplit', NEW t \in Threads, NEW k \in workload.keys, NEW i \in DOMAIN mem.segs,
         Split(t, k, i)
  PROVE  Whole'
<1>1. Inv' /\ SplitViews
  BY SplitInv
<1>2. /\ Goto(t, "idle", "split") /\ Intact(mem) /\ ThreadsOK /\ Typed
  BY DEF Split, Opens, Inv, Typed
<1>3. /\ mode = "run" /\ mode' = "run" /\ pc[t] = "idle" /\ pc' = [pc EXCEPT ![t] = "split"]
      /\ pc'[t] = "split" /\ \A u \in Threads : u # t => pc'[u] = pc[u]
  BY <1>2 DEF Goto, ThreadsOK
<1>4. \A u \in Threads : u # t => pc'[u] \notin SplitPCs /\ pc[u] \notin SplitPCs
  BY <1>3 DEF OneSplit, SplitPCs
<1>5. Ent' = Ent /\ Dep' = Dep /\ \A g \in Segments : ML'[g] = ML[g]
  BY <1>1 DEF SplitViews
<1>6. Intact(mem)'
  BY <1>2, <1>5 DEF Intact, Dep
<1>7. Wholes(Ent, ML, Dep, {})
  BY <1>2, <1>3, <1>4, WholeAlone DEF Splitting
<1>8. \A x \in Ix(Dep) : ML'[Ent[x]] = ML[Ent[x]]
  BY <1>2, <1>5, InUse
<1>9. Wholes(Ent', ML', Dep', {})
  BY <1>5, <1>7, <1>8 DEF Wholes, WholeAt, InGroup
<1>10. ~Splitting(t)'
  BY <1>3 DEF Splitting
<1> QED
  BY <1>3, <1>4, <1>6, <1>9, <1>10, WholeAloneNext

\* Doubling: the split segment is exempt until its depth is raised.
LEMMA DoubleDirWhole ==
  ASSUME Inv, Whole, OneSplit, NEW t \in Threads, DoubleDir(t)
  PROVE  Whole'
<1>0. Goto(t, "split", "doubled") /\ loc' = loc
  BY DEF DoubleDir
<1>1. Inv' /\ DoubleViews(t)
  BY DoubleDirInv
<1>2. /\ Typed /\ Intact(mem) /\ Shape /\ mode = "run"
      /\ SplitOK(t) /\ pc[t] = "split"
      /\ loc[t].key \in KeyWords /\ loc[t].target \in Segments /\ loc[t].s \in Segments
      /\ \A u \in Threads : u # t => pc[u] \notin SplitPCs /\ pc'[u] \notin SplitPCs
      /\ pc'[t] = "doubled"
  <2>1. "split" \in SplitPCs
    BY DEF SplitPCs
  <2> QED
    BY <1>0, <2>1, SplitBegins
<1>3. PICK D : D = Dep
  OBVIOUS
<1>4. PICK s : s = loc[t].s
  OBVIOUS
<1>5. PICK g : g = loc[t].target
  OBVIOUS
<1>6. PICK k : k = loc[t].key
  OBVIOUS
<1>7. PICK x : x = Prefix(k, D)
  OBVIOUS
<1>8. PICK L : L = ML
  OBVIOUS
<1>9. PICK new : new = Ent'
  OBVIOUS
<1>10. PICK seg : seg = Ent
  OBVIOUS
<1>11. /\ Dep' = D + 1 /\ ML' = L /\ D < HashBits /\ L[g] = D
       /\ \A n \in Ix(D + 1) : new[n] = IF n = 2 * x + 1 THEN s ELSE seg[n \div 2]
  BY <1>1, <1>3, <1>4, <1>5, <1>6, <1>7, <1>8, <1>9, <1>10 DEF DoubleViews
<1>12. L[s] = L[g] + 1 /\ seg[x] = g
  BY <1>2, <1>3, <1>4, <1>5, <1>6, <1>7, <1>8, <1>10 DEF SplitOK
<1>13. /\ D \in InitDepth .. HashBits /\ D \in Nat /\ D \in 0 .. HashBits /\ DOMAIN L = Segments
       /\ DirOK(seg, L, D)
  BY <1>2, <1>3, <1>8, <1>10, InUse, Constants DEF Shape
<1>14. x \in Ix(D) /\ x \in Nat
  BY <1>2, <1>6, <1>7, <1>13, PrefixIs
<1>15. Wholes(seg, L, D, {})
  BY <1>2, <1>3, <1>8, <1>10, WholeAlone DEF Splitting
<1>16. Wholes(new, L, D + 1, {g})
  <2>1. s \in DOMAIN L /\ L[s] = D + 1 /\ L[seg[x]] = D
    BY <1>2, <1>4, <1>11, <1>12, <1>13
  <2>2. Wholes(new, L, D + 1, {seg[x]})
    BY <1>11, <1>13, <1>14, <1>15, <2>1, WholeDouble
  <2> QED
    BY <1>12, <2>2
<1>17. Intact(mem)' /\ mode' = "run" /\ loc'[t].target = g /\ loc'[t].key = k /\ Splitting(t)'
  <2>1. Dep' > 0
    BY <1>11, <1>13
  <2> QED
    BY <1>0, <1>2, <1>5, <1>6, <2>1 DEF Intact, Dep, Goto, Splitting
<1>18. Lower(t)'
  <2>1. SUFFICES ASSUME NEW z \in Ix(D + 1), Top(z, D + 1, D) = x, Top(z, D + 1, D + 1) # 2 * x + 1
                 PROVE  new[z] = g
    BY <1>7, <1>9, <1>11, <1>17 DEF Lower, Grouped, Upper
  <2>2. z \in Nat /\ D \in 0 .. D /\ D + 1 \in Nat
    BY <1>13 DEF Ix
  <2>3. z \div 2 \in Nat /\ Top(z \div 2, D, D) = Top(z, D + 1, D)
    BY <1>13, <2>2, TopDouble
  <2>4. z \div 2 = x /\ z # 2 * x + 1
    BY <1>13, <2>1, <2>2, <2>3, TopSelf
  <2> QED
    BY <1>11, <1>12, <2>4
<1> QED
  BY <1>2, <1>9, <1>11, <1>16, <1>17, <1>18, WholeAloneNext

\* The stores of the new segment: the split segment is exempt until its depth is raised.
LEMMA StoreEntriesWhole ==
  ASSUME Inv, Whole, OneSplit, NEW t \in Threads, StoreEntries(t)
  PROVE  Whole'
<1>0. Goto(t, "split", "redirected") /\ loc' = loc
  BY DEF StoreEntries
<1>1. Inv' /\ StoreViews(t)
  BY StoreEntriesInv
<1>2. /\ Typed /\ Intact(mem) /\ Shape /\ mode = "run"
      /\ SplitOK(t) /\ pc[t] = "split"
      /\ loc[t].key \in KeyWords /\ loc[t].target \in Segments /\ loc[t].s \in Segments
      /\ \A u \in Threads : u # t => pc[u] \notin SplitPCs /\ pc'[u] \notin SplitPCs
      /\ pc'[t] = "redirected"
  <2>1. "split" \in SplitPCs
    BY DEF SplitPCs
  <2> QED
    BY <1>0, <2>1, SplitBegins
<1>3. PICK D : D = Dep
  OBVIOUS
<1>4. PICK s : s = loc[t].s
  OBVIOUS
<1>5. PICK g : g = loc[t].target
  OBVIOUS
<1>6. PICK k : k = loc[t].key
  OBVIOUS
<1>7. PICK x : x = Prefix(k, D)
  OBVIOUS
<1>8. PICK L : L = ML
  OBVIOUS
<1>9. PICK new : new = Ent'
  OBVIOUS
<1>10. PICK seg : seg = Ent
  OBVIOUS
<1>11. PICK p : p = Prefix(k, L[g])
  OBVIOUS
<1>12. /\ Dep' = D /\ ML' = L /\ L[g] < D
       /\ \A y \in Ix(D) : new[y] = IF Top(y, D, L[g] + 1) = 2 * p + 1 THEN s ELSE seg[y]
  BY <1>1, <1>3, <1>4, <1>5, <1>6, <1>8, <1>9, <1>10, <1>11 DEF StoreViews, Upper
<1>13. L[s] = L[g] + 1 /\ seg[x] = g
  BY <1>2, <1>3, <1>4, <1>5, <1>6, <1>7, <1>8, <1>10 DEF SplitOK
<1>14. /\ D \in InitDepth .. HashBits /\ D \in Nat /\ D \in 0 .. HashBits /\ DOMAIN L = Segments
       /\ DirOK(seg, L, D)
  BY <1>2, <1>3, <1>8, <1>10, InUse, Constants DEF Shape
<1>15. x \in Ix(D) /\ x \in Nat
  BY <1>2, <1>6, <1>7, <1>14, PrefixIs
<1>16. L[g] \in 0 .. D /\ L[g] \in 0 .. HashBits
  BY <1>13, <1>14, <1>15, DirTypes
<1>17. p \in Nat /\ p = Top(x, D, L[g])
  <2>1. p \in Nat
    BY <1>2, <1>6, <1>11, <1>16, PrefixIs
  <2>2. Top(Prefix(k, D), D, L[g]) = Prefix(k, L[g])
    BY <1>2, <1>6, <1>14, <1>16, TopPrefix
  <2> QED
    BY <1>7, <1>11, <2>1, <2>2
<1>18. Wholes(seg, L, D, {})
  BY <1>2, <1>3, <1>8, <1>10, WholeAlone DEF Splitting
<1>19. Wholes(new, L, D, {g}) /\ Keeps(new, L, D, g, p)
  <2>1. Redirects(seg, L, D, g, s, p, new)
    BY <1>12, <1>13 DEF Redirects
  <2>2. g = seg[x] /\ DirOK(seg, L, D)
    BY <1>13, <1>14
  <2>3. p = Top(x, D, L[g])
    BY <1>17
  <2>4. x \in Ix(D) /\ p \in Nat
    BY <1>15, <1>17
  <2> QED
    BY <1>18, <2>1, <2>2, <2>3, <2>4, WholeStore
<1>20. Intact(mem)' /\ mode' = "run" /\ loc'[t].target = g /\ loc'[t].key = k /\ Splitting(t)'
  <2>1. Dep' > 0
    BY <1>12, <1>14, Constants
  <2> QED
    BY <1>0, <1>2, <1>5, <1>6, <2>1 DEF Intact, Dep, Goto, Splitting
<1>21. Lower(t)'
  BY <1>9, <1>11, <1>12, <1>19, <1>20 DEF Lower, Grouped, Upper, Keeps
<1> QED
  BY <1>2, <1>9, <1>12, <1>19, <1>20, <1>21, WholeAloneNext

\* The depth is raised: both halves are whole.
LEMMA RaiseDepthWhole ==
  ASSUME Inv, Whole, OneSplit, NEW t \in Threads, RaiseDepth(t)
  PROVE  Whole'
<1>0. Goto(t, "published", "raised") /\ loc' = loc
  BY DEF RaiseDepth
<1>1. Inv' /\ RaiseViews(t)
  BY RaiseDepthInv
<1>2. /\ Typed /\ Intact(mem) /\ Shape /\ mode = "run"
      /\ SplitOK(t) /\ pc[t] = "published"
      /\ loc[t].key \in KeyWords /\ loc[t].target \in Segments /\ loc[t].s \in Segments
      /\ \A u \in Threads : u # t => pc[u] \notin SplitPCs /\ pc'[u] \notin SplitPCs
      /\ pc'[t] = "raised"
  <2>1. "published" \in SplitPCs
    BY DEF SplitPCs
  <2> QED
    BY <1>0, <2>1, SplitBegins
<1>3. PICK D : D = Dep
  OBVIOUS
<1>4. PICK s : s = loc[t].s
  OBVIOUS
<1>5. PICK g : g = loc[t].target
  OBVIOUS
<1>6. PICK L : L = ML
  OBVIOUS
<1>7. PICK seg : seg = Ent
  OBVIOUS
<1>8. PICK p : p = Prefix(loc[t].key, L[g])
  OBVIOUS
<1>9. PICK K : K = [L EXCEPT ![g] = L[g] + 1]
  OBVIOUS
<1>10. Ent' = seg /\ Dep' = D /\ ML' = K
  BY <1>1, <1>3, <1>5, <1>6, <1>7, <1>9 DEF RaiseViews
<1>11. /\ D \in InitDepth .. HashBits /\ D \in Nat /\ D \in 0 .. HashBits /\ DOMAIN L = Segments
       /\ DirOK(seg, L, D) /\ g \in DOMAIN L
  BY <1>2, <1>3, <1>5, <1>6, <1>7, InUse, Constants DEF Shape
<1>12. p \in Nat
  <2>1. L[g] \in InitDepth .. HashBits
    BY <1>2, <1>5, <1>6, DepthsTyped
  <2>2. L[g] \in 0 .. HashBits
    BY <2>1, Constants
  <2> QED
    BY <1>2, <1>8, <2>2, PrefixIs
<1>13. /\ s # g /\ L[g] < D
       /\ \A x \in Ix(D) : Top(x, D, L[g] + 1) = 2 * p + 1 => seg[x] = s
       /\ \A x \in Ix(D) : seg[x] = g => Top(x, D, L[g]) = p
  BY <1>2, <1>3, <1>4, <1>5, <1>6, <1>7, <1>8 DEF SplitOK, Published, Upper, Grouped
<1>14. Wholes(seg, L, D, {g}) /\ Lower(t)
  BY <1>2, <1>3, <1>5, <1>6, <1>7, WholeAlone DEF Splitting
<1>15. Keeps(seg, L, D, g, p)
  BY <1>3, <1>5, <1>6, <1>7, <1>8, <1>14 DEF Lower, Grouped, Upper, Keeps
<1>16. Wholes(seg, K, D, {})
  BY <1>9, <1>11, <1>12, <1>13, <1>14, <1>15, WholeRaise
<1>17. Intact(mem)' /\ mode' = "run" /\ ~Splitting(t)'
  BY <1>0, <1>2, <1>3, <1>10 DEF Intact, Dep, Goto, Splitting
<1> QED
  BY <1>2, <1>10, <1>16, <1>17, WholeAloneNext

\* A thread moves within a split and leaves the directory in mem alone.
LEMMA WholeWithin ==
  ASSUME Whole, ThreadsOK, Ent' = Ent, Dep' = Dep, ML' = ML, Intact(mem)' => Intact(mem),
         NEW t \in Threads, NEW from, NEW to, Goto(t, from, to), loc' = loc,
         from \in {"doubled", "redirected", "published"} <=> to \in {"doubled", "redirected", "published"}
  PROVE  Whole'
<1>1. pc[t] = from /\ pc' = [pc EXCEPT ![t] = to] /\ pc \in [Threads -> PCs] /\ mode' = mode /\ ri' = ri
  BY DEF Goto, ThreadsOK
<1>2. ASSUME NEW u \in Threads
      PROVE  (Splitting(u)' <=> Splitting(u)) /\ (Splitting(u) => loc'[u] = loc[u])
  <2>1. CASE u = t
    BY <1>1, <2>1 DEF Splitting
  <2>2. CASE u # t
    BY <1>1, <2>2 DEF Splitting
  <2> QED
    BY <2>1, <2>2
<1> QED
  BY <1>1, <1>2, WholeSame

\* The steps of Insert that store no entry and raise no depth.
LEMMA QuietStepsWhole ==
  ASSUME Inv, Whole, OneSplit, NEW t \in Threads,
         \/ \E k \in workload.keys, i \in DOMAIN mem.segs, j \in Slots : Claim(t, k, i, j)
         \/ StoreKey(t) \/ PersistPair(t) \/ ReturnInsert(t) \/ Reopen(t)
         \/ PersistDir(t) \/ PersistEntries(t) \/ PersistDepth(t)
  PROVE  Whole'
<1>1. ThreadsOK
  BY DEF Inv, Typed
<1>2. CASE \E k \in workload.keys, i \in DOMAIN mem.segs, j \in Slots : Claim(t, k, i, j)
  <2>1. PICK k \in workload.keys, i \in DOMAIN mem.segs, j \in Slots : Claim(t, k, i, j)
    BY <1>2
  <2>2. Quiet
    BY <2>1, ClaimInv
  <2>3. Goto(t, "idle", "claimed") /\ loc' = [loc EXCEPT ![t] = [NoLocals EXCEPT !.key = k, !.target = i, !.slot = j]]
    BY <2>1 DEF Claim
  <2>4. "idle" \notin Moving /\ "claimed" \notin Moving
    BY DEF Moving
  <2> QED
    BY <1>1, <2>2, <2>3, <2>4, WholeQuiet
<1>3. CASE StoreKey(t)
  <2>1. Quiet /\ Goto(t, "claimed", "stored") /\ loc' = loc /\ "claimed" \notin Moving /\ "stored" \notin Moving
    BY <1>3, StoreKeyInv DEF StoreKey, Moving
  <2> QED
    BY <1>1, <2>1, WholeQuiet
<1>4. CASE PersistPair(t)
  <2>1. Quiet /\ Goto(t, "stored", "persisted") /\ loc' = loc /\ "persisted" \notin Moving /\ "stored" \notin Moving
    BY <1>4, PersistPairInv DEF PersistPair, Moving
  <2> QED
    BY <1>1, <2>1, WholeQuiet
<1>5. CASE ReturnInsert(t)
  <2>1. /\ Quiet /\ Goto(t, "persisted", "idle") /\ loc' = [loc EXCEPT ![t] = NoLocals]
        /\ "persisted" \notin Moving /\ "idle" \notin Moving
    BY <1>5, ReturnInsertInv DEF ReturnInsert, Moving
  <2> QED
    BY <1>1, <2>1, WholeQuiet
<1>6. CASE Reopen(t)
  <2>1. /\ Quiet /\ Goto(t, "reopen", "idle") /\ loc' = [loc EXCEPT ![t] = NoLocals]
        /\ "reopen" \notin Moving /\ "idle" \notin Moving
    BY <1>6, ReopenInv DEF Reopen, Moving
  <2> QED
    BY <1>1, <2>1, WholeQuiet
<1>7. CASE PersistDir(t)
  <2>1. /\ Ent' = Ent /\ Dep' = Dep /\ ML' = ML /\ mem' = mem /\ loc' = loc /\ Goto(t, "doubled", "published")
    BY <1>7, PersistDirInv DEF PersistDir
  <2> QED
    BY <1>1, <2>1, WholeWithin
<1>8. CASE PersistEntries(t)
  <2>1. /\ Ent' = Ent /\ Dep' = Dep /\ ML' = ML /\ mem' = mem /\ loc' = loc /\ Goto(t, "redirected", "published")
    BY <1>8, PersistEntriesInv DEF PersistEntries
  <2> QED
    BY <1>1, <2>1, WholeWithin
<1>9. CASE PersistDepth(t)
  <2>1. /\ Ent' = Ent /\ Dep' = Dep /\ ML' = ML /\ mem' = mem /\ loc' = loc /\ Goto(t, "raised", "reopen")
    BY <1>9, PersistDepthInv DEF PersistDepth
  <2> QED
    BY <1>1, <2>1, WholeWithin
<1> QED
  BY <1>2, <1>3, <1>4, <1>5, <1>6, <1>7, <1>8, <1>9

\* Recovery makes the next group whole.
LEMMA RecoverGroupWhole ==
  ASSUME Inv, Whole, RecoverGroup
  PROVE  Whole'
<1>1. RecoverViews /\ Inv'
  BY RecoverGroupInv
<1>2. mode = "recover" /\ mode' = mode /\ Typed /\ Live
  BY DEF RecoverGroup, Inv
<1>3. Intact(mem) /\ Shape
  BY <1>1, <1>2 DEF RecoverViews, Live
<1>4. PICK D : D = Dep
  OBVIOUS
<1>5. PICK L : L = ML
  OBVIOUS
<1>6. PICK seg : seg = Ent
  OBVIOUS
<1>7. PICK new : new = Ent'
  OBVIOUS
<1>8. PICK b : b = ri
  OBVIOUS
<1>9. PICK w : w = Pow2[D - L[seg[b]]]
  OBVIOUS
<1>10. /\ DirOK(seg, L, D) /\ \E B : Leaders(B, seg, L, D) /\ b \in B
  BY <1>2, <1>3, <1>4, <1>5, <1>6, <1>8 DEF Shape, SameLeaders
<1>11. PICK B : Leaders(B, seg, L, D) /\ b \in B
  BY <1>10
<1>12. \A y \in Ix(D) : y < b => WholeAt(seg, L, D, y)
  BY <1>2, <1>3, <1>4, <1>5, <1>6, <1>8 DEF Whole
<1>13. /\ Dep' = D /\ ML' = L /\ ri' = b + w
       /\ \A x \in Ix(D) : new[x] = IF x \in b + 1 .. b + w - 1 /\ L[seg[x]] # L[seg[b]] THEN seg[b] ELSE seg[x]
  <2>1. Dep' = D /\ ML' = L
    BY <1>1, <1>4, <1>5 DEF RecoverViews
  <2>2. ri' = b + w
    BY <1>1, <1>4, <1>5, <1>6, <1>8, <1>9 DEF RecoverViews
  <2>3. \A x \in Ix(D) : new[x] = IF x \in b + 1 .. ri' - 1 /\ L[seg[x]] # L[seg[b]] THEN seg[b] ELSE seg[x]
    BY <1>1, <1>4, <1>5, <1>6, <1>7, <1>8 DEF RecoverViews
  <2>4. ri' - 1 = b + w - 1
    <3>1. w \in Nat
      BY <1>9, <1>10, <1>11, LeaderNext
    <3>2. b \in Nat
      BY <1>11 DEF Leaders, Ix
    <3> QED
      BY <2>2, <3>1, <3>2
  <2>5. \A x \in Ix(D) : new[x] = IF x \in b + 1 .. b + w - 1 /\ L[seg[x]] # L[seg[b]] THEN seg[b] ELSE seg[x]
    BY <2>3, <2>4, Zenon
  <2> QED
    BY <2>1, <2>2, <2>5, Zenon
<1>14. \A y \in Ix(D) : y < b + w => WholeAt(new, L, D, y)
  <2>1. \A x \in Ix(D) : new[x] = IF x \in b + 1 .. b + w - 1 /\ L[seg[x]] # L[seg[b]] THEN seg[b] ELSE seg[x]
    BY <1>13
  <2>2. DirOK(seg, L, D)
    BY <1>10
  <2> QED
    BY <1>9, <1>11, <1>12, <2>1, <2>2, WholeRepair
<1>15. \A y \in Ix(Dep') : y < ri' => WholeAt(Ent', ML', Dep', y)
  BY <1>7, <1>13, <1>14
<1> QED
  BY <1>2, <1>15 DEF Whole

\* Recovery ends with every group outside the last block whole.
LEMMA EndRecoveryWhole ==
  ASSUME Inv, Whole, EndRecovery
  PROVE  Whole'
<1>1. mem' = mem /\ ML' = ML
  BY EndRecoveryInv
<1>2. mode = "recover" /\ mode' = "run" /\ pc' = pc /\ loc' = loc /\ Typed /\ Live
  BY DEF EndRecovery, Inv
<1>3. SUFFICES ASSUME Intact(mem)
               PROVE  Wholes(Ent, ML, Dep, Exempt)' /\ \A t \in Threads : ~Splitting(t)'
  BY <1>1, <1>2 DEF Whole
<1>4. Shape
  BY <1>2, <1>3 DEF Live
<1>5. \A t \in Threads : ~Splitting(t)'
  BY <1>2, <1>4 DEF Shape, RecoverOK, Splitting
<1>6. Exempt' = {}
  BY <1>5 DEF Exempt
<1>7. Ent' = Ent /\ Dep' = Dep
  BY <1>1 DEF Ent, Dep
<1>8. DirOK(Ent, ML, Dep) /\ ri \in Ix(Dep)
  BY <1>2, <1>4 DEF Shape, SameLeaders, Leaders
<1>9. ri + Pow2[Dep - ML[Ent[ri]]] = Pow2[Dep]
  <2>1. Capacity = Pow2[Dep] /\ Pow2[Dep] \in Nat
    BY <1>3, <1>2, InUse, Pow2Step DEF Capacity, Dep
  <2>2. ri < Capacity
    BY <1>8, <2>1 DEF Ix
  <2>3. ri + Stride(ri) = Capacity
    BY <2>2 DEF EndRecovery
  <2>4. Ent[ri] \in Segments
    BY <1>2, <1>3, <1>8, InUse
  <2>5. ML[Ent[ri]] = mem.segs[Ent[ri]].local_depth
    BY <1>2, <2>4, DepthsTyped
  <2> QED
    BY <2>1, <2>3, <2>5 DEF Stride, Dep, Ent
<1>10. ASSUME NEW y \in Ix(Dep), ~LastB(y, Dep) PROVE WholeAt(Ent, ML, Dep, y)
  <2>1. y < ri
    BY <1>8, <1>9, <1>10, LastGroup
  <2> QED
    BY <1>2, <1>3, <2>1 DEF Whole
<1>11. Wholes(Ent, ML, Dep, {})
  BY <1>10 DEF Wholes
<1> QED
  BY <1>1, <1>5, <1>6, <1>7, <1>11

\* At first every segment has one entry.
LEMMA InitWhole ==
  ASSUME Init
  PROVE  Whole
<1>1. Inv
  BY InitInv
<1>2. mode = "run" /\ \A t \in Threads : ~Splitting(t)
  BY DEF Init, Splitting
<1>3. Dep = InitDepth /\ Intact(mem)
  BY Constants DEF Init, Dep, DirOf, Intact
<1>4. \A x \in Ix(Dep) : Ent[x] \in Segments
  BY <1>1, <1>3, InUse DEF Inv
<1>5. \A g \in Segments : ML[g] = InitDepth
  <2>1. mem.segs = [i \in 1 .. Pow2[InitDepth] |-> NewSegment(InitDepth)]
    BY DEF Init
  <2>2. DOMAIN mem.segs = Segments
    BY <1>1, ImageTypes DEF Inv, Typed, ImagesOK, Segments
  <2>3. ASSUME NEW g \in Segments PROVE mem.segs[g].local_depth = InitDepth
    <3>1. g \in 1 .. Pow2[InitDepth]
      BY <2>1, <2>2
    <3>2. mem.segs[g] = NewSegment(InitDepth)
      BY <2>1, <3>1
    <3> QED
      BY <3>2 DEF NewSegment
  <2> QED
    BY <1>1, <2>3, DepthsTyped DEF Inv
<1>6. ASSUME NEW y \in Ix(Dep) PROVE WholeAt(Ent, ML, Dep, y)
  <2>1. SUFFICES ASSUME NEW z \in Ix(Dep), InGroup(y, z, Ent, ML, Dep) PROVE z = y
    BY DEF WholeAt
  <2>2. Top(z, Dep, InitDepth) = Top(y, Dep, InitDepth)
    BY <1>4, <1>5, <2>1 DEF InGroup
  <2>3. y \in Nat /\ z \in Nat /\ InitDepth \in Nat
    BY Constants DEF Ix
  <2> QED
    BY <1>3, <2>2, <2>3, TopSelf
<1> QED
  BY <1>2, <1>6 DEF Whole, Wholes

\* Every step keeps the groups whole.
LEMMA NextWhole ==
  ASSUME Inv, Whole, OneSplit, OneSplit', [Next]_vars
  PROVE  Whole'
<1>1. ASSUME NEW t \in Threads, InsertStep(t)
      PROVE  Whole'
  BY <1>1, QuietStepsWhole, SplitWhole, DoubleDirWhole, StoreEntriesWhole, RaiseDepthWhole DEF InsertStep
<1>2. ASSUME UNCHANGED vars \/ Evict PROVE Whole'
  <2>1. mem' = mem /\ pc' = pc /\ loc' = loc /\ mode' = mode /\ ri' = ri
    BY <1>2 DEF vars, Evict
  <2>2. Ent' = Ent /\ Dep' = Dep /\ ML' = ML
    BY <2>1 DEF Ent, Dep, ML
  <2> QED
    BY <2>1, <2>2, WholeSame DEF Splitting
<1>3. ASSUME Crash PROVE Whole'
  <2>1. mode' = "recover" /\ ri' = 0 /\ \A y \in Ix(Dep') : ~(y < 0)
    BY <1>3 DEF Crash, Ix
  <2> QED
    BY <2>1 DEF Whole
<1> QED
  BY <1>1, <1>2, <1>3, RecoverGroupWhole, EndRecoveryWhole DEF Next

\* The groups outside the last block are whole, also after power failures.
THEOREM RecoveryWhole == Spec /\ []OneSplit => []Whole
<1>1. Init => Whole
  BY InitWhole
<1>2. Inv /\ Whole /\ OneSplit /\ OneSplit' /\ [Next]_vars => Whole'
  BY NextWhole
<1> QED
  BY <1>1, <1>2, RecoveryInv, PTL DEF Spec

-----------------------------------------------------------------------------
(* Keys outside the last block: the segment of that block is spared         *)

LastSeg == Pow2[InitDepth]

\* No key of the workload belongs to the last block.
Elsewhere == \A k \in workload.keys : Prefix(k, InitDepth) # Pow2[InitDepth] - 1

\* The last block still leads to its first segment, at its first depth.
SparedIn(seg, L, D) ==
  /\ LastSeg \in DOMAIN L /\ L[LastSeg] = InitDepth
  /\ \A x \in Ix(D) : LastB(x, D) => seg[x] = LastSeg

Spared ==
  (Elsewhere /\ Intact(mem)) =>
    /\ SparedIn(Ent, ML, Dep) /\ SparedIn(Dur, PL, Dep)
    /\ pm.dir # mem.dir => SparedIn(pm.dirs[pm.dir].segment, PL, mem.dirs[pm.dir].depth)

\* The last entry of a directory is in the last block.
LEMMA LastEntry ==
  ASSUME NEW D \in InitDepth .. HashBits
  PROVE  Pow2[D] - 1 \in Ix(D) /\ LastB(Pow2[D] - 1, D)
<1>1. D \in Nat /\ InitDepth \in Nat /\ InitDepth \in 0 .. D
  BY Constants
<1>2. PICK a \in Nat : a = D - InitDepth /\ D = InitDepth + a
  BY <1>1
<1>3. Pow2[D] = Pow2[InitDepth] * Pow2[a]
  BY <1>1, <1>2, Pow2Sum
<1>4. PICK N \in Nat : N = Pow2[InitDepth] /\ N >= 1
  BY <1>1, Pow2Step
<1>5. PICK u \in Nat : u = Pow2[a] /\ u >= 1
  BY Pow2Step
<1>6. Pow2[D] = N * u /\ N * u \in Nat /\ (N - 1) * u = N * u - u
  BY <1>3, <1>4, <1>5
<1>7. N * u >= 1
  BY <1>1, <1>6, Pow2Step
<1>8. N * u - 1 = (N - 1) * u + (u - 1) /\ u - 1 \in 0 .. u - 1 /\ N - 1 \in Nat /\ N * u - 1 \in Nat
  BY <1>4, <1>5, <1>6, <1>7
<1>9. (N * u - 1) \div u = N - 1
  BY <1>5, <1>8, DivModUnique
<1>10. LastB(Pow2[D] - 1, D)
  BY <1>2, <1>4, <1>5, <1>6, <1>9 DEF LastB, Top
<1>11. Pow2[D] - 1 \in 0 .. Pow2[D] - 1
  BY <1>6, <1>8
<1> QED
  BY <1>10, <1>11 DEF Ix

\* A key outside the last block has its entries outside the last block.
LEMMA KeyElsewhere ==
  ASSUME NEW D \in InitDepth .. HashBits, NEW l \in InitDepth .. D, NEW k \in KeyWords, NEW x \in Ix(D),
         Prefix(k, InitDepth) # Pow2[InitDepth] - 1, Top(x, D, l) = Prefix(k, l)
  PROVE  ~LastB(x, D)
<1>1. /\ D \in Nat /\ l \in 0 .. D /\ l \in 0 .. HashBits /\ D \in 0 .. HashBits /\ InitDepth \in 0 .. D
      /\ InitDepth \in 0 .. l /\ x \in Nat
  BY Constants DEF Ix
<1>2. Prefix(k, D) \in Nat
  BY <1>1, PrefixIs
<1>3. Top(Prefix(k, D), D, l) = Top(x, D, l)
  BY <1>1, TopPrefix
<1>4. Top(Prefix(k, D), D, InitDepth) = Top(x, D, InitDepth)
  BY <1>1, <1>2, <1>3, TopCoarse
<1>5. Top(Prefix(k, D), D, InitDepth) = Prefix(k, InitDepth)
  BY <1>1, TopPrefix
<1> QED
  BY <1>4, <1>5 DEF LastB

\* A step after which both images agree.
LEMMA SparedSettled ==
  ASSUME Elsewhere' /\ Intact(mem)' => /\ SparedIn(Ent', ML', Dep') /\ Dur' = Ent' /\ PL' = ML'
                                       /\ pm'.dir = mem'.dir
  PROVE  Spared'
BY DEF Spared

\* A quiet step.
LEMMA SparedQuiet ==
  ASSUME Spared, Quiet
  PROVE  Spared'
<1>1. /\ Ent' = Ent /\ Dur' = Dur /\ Dep' = Dep /\ ML' = ML /\ PL' = PL
      /\ Intact(mem)' <=> Intact(mem)
  BY QuietViews
<1>2. /\ mem'.dirs = mem.dirs /\ mem'.dir = mem.dir /\ pm'.dirs = pm.dirs /\ pm'.dir = pm.dir
      /\ workload' = workload
  BY DEF Quiet
<1>3. Elsewhere' <=> Elsewhere
  BY <1>2 DEF Elsewhere
<1> QED
  BY <1>1, <1>2, <1>3 DEF Spared

\* Who splits does not split the segment of the last block.
LEMMA TargetElsewhere ==
  ASSUME Inv, Spared, Elsewhere, OneSplit, NEW t \in Threads, pc[t] \in {"split", "published"},
         Intact(mem), mode = "run"
  PROVE  loc[t].target # LastSeg /\ loc[t].key \in KeyWords /\ Prefix(loc[t].key, InitDepth) # Pow2[InitDepth] - 1
<1>1. Typed /\ Shape /\ RunOK /\ SplitOK(t) /\ SparedIn(Ent, ML, Dep)
  BY DEF Inv, Live, Shape, RunOK, Spared
<1>2. loc[t].key \in workload.keys /\ loc[t].target \in Segments
  BY <1>1 DEF Typed, ThreadsOK, LocalsOK
<1>3. loc[t].key \in KeyWords
  BY <1>1, <1>2, Constants DEF Typed, RestOK
<1>4. Prefix(loc[t].key, InitDepth) # Pow2[InitDepth] - 1
  BY <1>2 DEF Elsewhere
<1>5. PICK D : D = Dep
  OBVIOUS
<1>6. PICK k : k = loc[t].key
  OBVIOUS
<1>7. PICK g : g = loc[t].target
  OBVIOUS
<1>8. D \in InitDepth .. HashBits /\ D \in Nat /\ D \in 0 .. HashBits
  BY <1>1, <1>5, InUse, Constants
<1>9. PICK z \in Ix(D) : LastB(z, D)
  BY <1>8, LastEntry
<1>10. Ent[z] = LastSeg /\ ML[LastSeg] = InitDepth
  BY <1>1, <1>5, <1>9 DEF SparedIn
<1>11. SUFFICES ASSUME g = LastSeg PROVE FALSE
  BY <1>3, <1>4, <1>7
<1>12. CASE pc[t] = "split"
  <2>1. Ent[Prefix(k, D)] = g
    BY <1>1, <1>5, <1>6, <1>7, <1>12 DEF SplitOK
  <2>2. Prefix(k, D) \in Ix(D)
    BY <1>3, <1>6, <1>8, PrefixIs
  <2>3. Top(Prefix(k, D), D, InitDepth) = Top(z, D, InitDepth)
    BY <1>1, <1>5, <1>10, <1>11, <2>1, <2>2 DEF Shape, Together
  <2>4. Top(Prefix(k, D), D, InitDepth) = Prefix(k, InitDepth)
    BY <1>3, <1>6, <1>8, Constants, TopPrefix
  <2> QED
    BY <1>4, <1>6, <1>9, <2>3, <2>4 DEF LastB
<1>13. CASE pc[t] = "published"
  <2>1. Grouped(t, z)
    BY <1>1, <1>5, <1>7, <1>10, <1>11, <1>13 DEF SplitOK, Published
  <2>2. Top(z, D, InitDepth) = Prefix(k, InitDepth)
    BY <1>5, <1>6, <1>7, <1>10, <1>11, <2>1 DEF Grouped
  <2> QED
    BY <1>4, <1>6, <1>9, <2>2 DEF LastB
<1> QED
  BY <1>12, <1>13

\* After a step of the only thread in a split, by where it is.
LEMMA SparedEnds ==
  ASSUME Inv', NEW t \in Threads, \A u \in Threads : u # t => pc'[u] \notin SplitPCs, mode' = "run",
         pc'[t] \notin {"redirected", "raised", "doubled"},
         Elsewhere' /\ Intact(mem)' => SparedIn(Ent', ML', Dep')
  PROVE  Spared'
<1>1. ASSUME Intact(mem)' PROVE Dur' = Ent' /\ PL' = ML' /\ pm'.dir = mem'.dir
  <2>1. RunOK'
    BY <1>1 DEF Inv, Live, Shape
  <2>2. \A u \in Threads : pc'[u] \notin {"redirected", "raised", "doubled"}
    BY DEF SplitPCs
  <2> QED
    BY <2>1, <2>2 DEF RunOK
<1> QED
  BY <1>1, SparedSettled

\* Split adds a segment that no entry leads to.
LEMMA SplitSpared ==
  ASSUME Inv, Spared, OneSplit', NEW t \in Threads, NEW k \in workload.keys, NEW i \in DOMAIN mem.segs,
         Split(t, k, i)
  PROVE  Spared'
<1>1. Inv' /\ SplitViews
  BY SplitInv
<1>2. Goto(t, "idle", "split") /\ Intact(mem) /\ ThreadsOK /\ Typed
  BY DEF Split, Opens, Inv, Typed
<1>3. mode' = "run" /\ workload' = workload /\ pc' = [pc EXCEPT ![t] = "split"] /\ pc'[t] = "split"
  BY <1>2 DEF Goto, ThreadsOK
<1>4. \A u \in Threads : u # t => pc'[u] \notin SplitPCs
  BY <1>3 DEF OneSplit, SplitPCs
<1>5. ASSUME Elsewhere', Intact(mem)' PROVE SparedIn(Ent', ML', Dep')
  <2>1. SparedIn(Ent, ML, Dep) /\ DOMAIN ML = Segments
    BY <1>2, <1>3, <1>5, InUse DEF Spared, Elsewhere
  <2>2. DOMAIN ML' = Segments'
    BY <1>1, LdsTyped DEF Inv, Typed, ImagesOK, Segments, ML
  <2> QED
    BY <1>1, <2>1, <2>2 DEF SparedIn, SplitViews
<1> QED
  BY <1>1, <1>3, <1>4, <1>5, SparedEnds

\* Doubling: the new segment is not in the last block.
LEMMA DoubleDirSpared ==
  ASSUME Inv, Spared, OneSplit, NEW t \in Threads, DoubleDir(t)
  PROVE  Spared'
<1>0. Goto(t, "split", "doubled") /\ loc' = loc
  BY DEF DoubleDir
<1>1. Inv' /\ DoubleViews(t)
  BY DoubleDirInv
<1>2. /\ Typed /\ Intact(mem) /\ Shape /\ mode = "run" /\ pc[t] = "split"
      /\ \A u \in Threads : u # t => pc'[u] \notin SplitPCs
      /\ pc'[t] = "doubled" /\ mode' = "run" /\ workload' = workload
  <2>1. "split" \in SplitPCs
    BY DEF SplitPCs
  <2> QED
    BY <1>0, <2>1, SplitBegins DEF Goto
<1>3. SUFFICES ASSUME Elsewhere, Intact(mem)'
               PROVE  /\ SparedIn(Ent', ML', Dep') /\ SparedIn(Dur', PL', Dep')
                      /\ SparedIn(pm'.dirs[pm'.dir].segment, PL', mem'.dirs[pm'.dir].depth)
  BY <1>2 DEF Spared, Elsewhere
<1>4. PL' = ML' /\ Dur' = Ent'
  <2>1. RunOK'
    BY <1>1, <1>2, <1>3 DEF Inv, Live, Shape
  <2>2. \A u \in Threads : pc'[u] \notin {"redirected", "raised"}
    BY <1>2 DEF SplitPCs
  <2> QED
    BY <2>1, <2>2 DEF RunOK
<1>5. SparedIn(Ent, ML, Dep)
  BY <1>2, <1>3 DEF Spared
<1>6. ML' = ML /\ pm'.dirs[pm'.dir].segment = Ent /\ mem'.dirs[pm'.dir].depth = Dep /\ Dep' = Dep + 1
  BY <1>1 DEF DoubleViews
<1>7. PICK D : D = Dep
  OBVIOUS
<1>8. PICK k : k = loc[t].key
  OBVIOUS
<1>9. /\ D \in InitDepth .. HashBits /\ D \in Nat /\ D \in 0 .. HashBits /\ InitDepth \in 0 .. D /\ D < HashBits
      /\ D + 1 \in InitDepth .. HashBits /\ D \in InitDepth .. D + 1
  BY <1>1, <1>2, <1>7, InUse, Constants DEF DoubleViews
<1>10. k \in KeyWords /\ Prefix(k, InitDepth) # Pow2[InitDepth] - 1
  BY <1>2, <1>3, <1>8, TargetElsewhere
<1>11. ASSUME NEW n \in Ix(D + 1), LastB(n, D + 1) PROVE Ent'[n] = LastSeg
  <2>1. n \in Nat /\ n \div 2 \in Ix(D) /\ Top(n \div 2, D, InitDepth) = Top(n, D + 1, InitDepth)
    <3>1. n \in Nat
      BY DEF Ix
    <3> QED
      BY <1>9, <3>1, TopDouble
  <2>2. LastB(n \div 2, D)
    BY <1>11, <2>1 DEF LastB
  <2>3. Ent[n \div 2] = LastSeg
    BY <1>5, <1>7, <2>1, <2>2 DEF SparedIn
  <2>4. n # 2 * Prefix(k, D) + 1
    <3>1. SUFFICES ASSUME n = 2 * Prefix(k, D) + 1 PROVE FALSE
      OBVIOUS
    <3>2. Prefix(k, D) \in Nat
      BY <1>9, <1>10, PrefixIs
    <3>3. n \div 2 = Prefix(k, D)
      BY <3>1, <3>2
    <3>4. Top(n \div 2, D, InitDepth) = Prefix(k, InitDepth)
      BY <1>9, <1>10, <3>3, TopPrefix
    <3> QED
      BY <1>10, <2>2, <3>4 DEF LastB
  <2> QED
    BY <1>1, <1>7, <1>8, <2>3, <2>4 DEF DoubleViews
<1>12. SparedIn(Ent', ML', Dep')
  BY <1>5, <1>6, <1>7, <1>11 DEF SparedIn
<1>13. SparedIn(pm'.dirs[pm'.dir].segment, PL', mem'.dirs[pm'.dir].depth)
  BY <1>4, <1>5, <1>6
<1> QED
  BY <1>4, <1>12, <1>13

\* The stores of the new segment are outside the last block.
LEMMA StoreEntriesSpared ==
  ASSUME Inv, Spared, OneSplit, NEW t \in Threads, StoreEntries(t)
  PROVE  Spared'
<1>0. Goto(t, "split", "redirected") /\ loc' = loc
  BY DEF StoreEntries
<1>1. Inv' /\ StoreViews(t)
  BY StoreEntriesInv
<1>2. /\ Typed /\ Intact(mem) /\ Shape /\ mode = "run" /\ pc[t] = "split" /\ SplitOK(t)
      /\ loc[t].target \in Segments
      /\ \A u \in Threads : u # t => pc'[u] \notin SplitPCs
      /\ pc'[t] = "redirected" /\ mode' = "run" /\ workload' = workload
  <2>1. "split" \in SplitPCs
    BY DEF SplitPCs
  <2> QED
    BY <1>0, <2>1, SplitBegins DEF Goto
<1>3. SUFFICES ASSUME Elsewhere, Intact(mem)'
               PROVE  SparedIn(Ent', ML', Dep') /\ SparedIn(Dur', PL', Dep') /\ pm'.dir = mem'.dir
  BY <1>2 DEF Spared, Elsewhere
<1>4. PL' = ML' /\ pm'.dir = mem'.dir
  <2>1. RunOK'
    BY <1>1, <1>2, <1>3 DEF Inv, Live, Shape
  <2>2. \A u \in Threads : pc'[u] \notin {"doubled", "raised"}
    BY <1>2 DEF SplitPCs
  <2> QED
    BY <2>1, <2>2 DEF RunOK
<1>5. SparedIn(Ent, ML, Dep)
  BY <1>2, <1>3 DEF Spared
<1>6. ML' = ML /\ Dep' = Dep /\ Dur' = Ent /\ ML[loc[t].target] < Dep
  BY <1>1 DEF StoreViews
<1>7. PICK D : D = Dep
  OBVIOUS
<1>8. PICK k : k = loc[t].key
  OBVIOUS
<1>9. PICK m : m = ML[loc[t].target]
  OBVIOUS
<1>10. /\ D \in InitDepth .. HashBits /\ m \in InitDepth .. HashBits /\ m < D /\ D \in Nat /\ m \in Nat
  BY <1>2, <1>6, <1>7, <1>9, InUse, DepthsTyped
<1>11. m \in InitDepth .. D /\ m \in 0 .. D - 1 /\ m \in 0 .. HashBits
  BY <1>10, Constants
<1>12. k \in KeyWords /\ Prefix(k, InitDepth) # Pow2[InitDepth] - 1
  BY <1>2, <1>3, <1>8, TargetElsewhere
<1>13. ASSUME NEW y \in Ix(D), LastB(y, D) PROVE Ent'[y] = LastSeg
  <2>1. ~Upper(t, y)
    <3>1. SUFFICES ASSUME Top(y, D, m + 1) = 2 * Prefix(k, m) + 1 PROVE FALSE
      BY <1>7, <1>8, <1>9 DEF Upper
    <3>2. y \in Nat
      BY DEF Ix
    <3>3. Top(y, D, m) \in Nat /\ Top(y, D, m + 1) \in {2 * Top(y, D, m), 2 * Top(y, D, m) + 1}
      BY <1>10, <1>11, <3>2, TopHalf
    <3>4. Prefix(k, m) \in Nat
      BY <1>11, <1>12, PrefixIs
    <3>5. Top(y, D, m) = Prefix(k, m)
      BY <3>1, <3>3, <3>4
    <3> QED
      BY <1>10, <1>11, <1>12, <1>13, <3>5, KeyElsewhere
  <2>2. Ent'[y] = Ent[y]
    BY <1>1, <1>7, <2>1 DEF StoreViews
  <2> QED
    BY <1>5, <1>7, <1>13, <2>2 DEF SparedIn
<1>14. SparedIn(Ent', ML', Dep')
  BY <1>5, <1>6, <1>7, <1>13 DEF SparedIn
<1> QED
  BY <1>4, <1>5, <1>6, <1>14

\* The later steps of a split.
LEMMA LateSplitSpared ==
  ASSUME Inv, Spared, OneSplit, NEW t \in Threads,
         PersistDir(t) \/ PersistEntries(t) \/ RaiseDepth(t) \/ PersistDepth(t)
  PROVE  Spared'
<1>1. CASE PersistDir(t) \/ PersistEntries(t) \/ PersistDepth(t)
  <2>1. Inv' /\ Ent' = Ent /\ Dep' = Dep /\ ML' = ML /\ mem' = mem
    BY <1>1, PersistDirInv, PersistEntriesInv, PersistDepthInv DEF PersistDir, PersistEntries
  <2>2. PICK from \in SplitPCs, to \in {"published", "reopen"} : Goto(t, from, to)
    BY <1>1 DEF PersistDir, PersistEntries, PersistDepth, SplitPCs
  <2>3. /\ \A u \in Threads : u # t => pc'[u] \notin SplitPCs
        /\ pc'[t] = to /\ mode' = "run" /\ workload' = workload
    BY <2>2, SplitBegins DEF Goto
  <2>4. ASSUME Elsewhere', Intact(mem)' PROVE SparedIn(Ent', ML', Dep')
    BY <2>1, <2>3, <2>4 DEF Spared, Elsewhere
  <2> QED
    BY <2>1, <2>3, <2>4, SparedEnds
<1>2. CASE RaiseDepth(t)
  <2>0. Goto(t, "published", "raised")
    BY <1>2 DEF RaiseDepth
  <2>1. Inv' /\ RaiseViews(t)
    BY <1>2, RaiseDepthInv
  <2>2. /\ Typed /\ Intact(mem) /\ mode = "run" /\ pc[t] = "published" /\ loc[t].target \in Segments
        /\ \A u \in Threads : u # t => pc'[u] \notin SplitPCs
        /\ pc'[t] = "raised" /\ mode' = "run" /\ workload' = workload
    <3>1. "published" \in SplitPCs
      BY DEF SplitPCs
    <3> QED
      BY <2>0, <3>1, SplitBegins DEF Goto
  <2>3. SUFFICES ASSUME Elsewhere, Intact(mem)'
                 PROVE  SparedIn(Ent', ML', Dep') /\ SparedIn(Dur', PL', Dep') /\ pm'.dir = mem'.dir
    BY <2>2 DEF Spared, Elsewhere
  <2>4. SparedIn(Ent, ML, Dep)
    BY <2>2, <2>3 DEF Spared
  <2>5. loc[t].target # LastSeg
    BY <2>2, <2>3, TargetElsewhere
  <2>6. pm'.dir = mem'.dir
    <3>1. RunOK'
      BY <2>1, <2>2, <2>3 DEF Inv, Live, Shape
    <3>2. \A u \in Threads : pc'[u] # "doubled"
      BY <2>2 DEF SplitPCs
    <3> QED
      BY <3>1, <3>2 DEF RunOK
  <2>7. /\ Ent' = Ent /\ Dep' = Dep /\ Dur' = Ent /\ PL' = ML
        /\ ML' = [ML EXCEPT ![loc[t].target] = ML[loc[t].target] + 1]
    BY <2>1 DEF RaiseViews
  <2>8. DOMAIN ML' = DOMAIN ML /\ (LastSeg \in DOMAIN ML => ML'[LastSeg] = ML[LastSeg])
    BY <2>5, <2>7
  <2> QED
    BY <2>4, <2>6, <2>7, <2>8 DEF SparedIn
<1> QED
  BY <1>1, <1>2

\* An eviction copies entries and depths from mem to pm.
LEMMA EvictSpared ==
  ASSUME Inv, Spared, OneSplit, Evict
  PROVE  Spared'
<1>1. EvictViews /\ Inv' /\ mem' = mem /\ workload' = workload /\ Typed
  BY EvictInv DEF Evict, Inv
<1>2. SUFFICES ASSUME Elsewhere, Intact(mem)
               PROVE  /\ SparedIn(Ent, ML, Dep)' /\ SparedIn(Dur, PL, Dep)'
                      /\ pm'.dir # mem'.dir => SparedIn(pm.dirs[pm.dir].segment, PL, mem.dirs[pm.dir].depth)'
  BY <1>1 DEF Spared, Elsewhere, Intact
<1>3. SparedIn(Ent, ML, Dep) /\ SparedIn(Dur, PL, Dep)
  BY <1>2 DEF Spared
<1>4. Ent' = Ent /\ ML' = ML /\ Dep' = Dep
  BY <1>1 DEF Ent, ML, Dep
<1>5. LastSeg \in Segments /\ DOMAIN PL' = Segments
  <2>1. DOMAIN ML = Segments
    BY <1>1, <1>2, InUse
  <2>2. DOMAIN PL' = 1 .. Len(pm'.segs) /\ Len(pm'.segs) = Len(mem'.segs)
    BY <1>1, LdsTyped DEF Inv, Typed, ImagesOK, PL
  <2> QED
    BY <1>1, <1>3, <2>1, <2>2 DEF SparedIn, Segments
<1>6. LastSeg \in DOMAIN PL' /\ PL'[LastSeg] = InitDepth
  BY <1>1, <1>3, <1>5 DEF EvictViews, SparedIn
<1>7. SparedIn(Dur', PL', Dep')
  BY <1>1, <1>2, <1>3, <1>4, <1>6 DEF EvictViews, SparedIn
<1>8. ASSUME pm'.dir # mem'.dir
      PROVE  SparedIn(pm'.dirs[pm'.dir].segment, PL', mem'.dirs[pm'.dir].depth)
  <2>1. pm'.dir = pm.dir /\ pm.dir # mem.dir /\ pm.dir \in 1 .. Len(mem.dirs)
    BY <1>1, <1>8 DEF EvictViews, Typed, ImagesOK
  <2>2. pm'.dirs[pm.dir] = pm.dirs[pm.dir]
    BY <1>1, <2>1 DEF EvictViews
  <2>3. SparedIn(pm.dirs[pm.dir].segment, PL, mem.dirs[pm.dir].depth)
    BY <1>2, <2>1 DEF Spared
  <2> QED
    BY <1>1, <1>6, <2>1, <2>2, <2>3 DEF SparedIn
<1> QED
  BY <1>3, <1>4, <1>7, <1>8

\* A power failure leaves a directory that is spared.
LEMMA CrashSpared ==
  ASSUME Inv, Spared, OneSplit, Crash
  PROVE  Spared'
<1>1. mem' = pm /\ pm' = pm /\ workload' = workload
  BY DEF Crash
<1>2. SUFFICES ASSUME Elsewhere, Intact(pm)
               PROVE  SparedIn(DirOf(pm).segment, PL, DirOf(pm).depth)
  <2>1. Ent' = DirOf(pm).segment /\ Dur' = DirOf(pm).segment /\ Dep' = DirOf(pm).depth /\ ML' = PL /\ PL' = PL
    BY <1>1 DEF Ent, Dur, Dep, ML, PL, DirOf
  <2>2. Intact(mem)' <=> Intact(pm)
    BY <1>1 DEF Intact, DirOf
  <2> QED
    BY <1>1, <2>1, <2>2 DEF Spared, Elsewhere
<1>3. Intact(mem) /\ Typed /\ Shape
  BY <1>2 DEF Inv, Dead, Live
<1>4. Spared /\ DirOf(pm).depth > 0
  BY <1>2 DEF Intact
<1>5. CASE pm.dir = mem.dir
  <2>1. pm.dirs[mem.dir].depth \in {0, Dep}
    BY <1>3, InUse
  <2>2. DirOf(pm).depth = Dep /\ DirOf(pm).segment = Dur
    BY <1>4, <1>5, <2>1 DEF DirOf, Dur
  <2> QED
    BY <1>2, <1>3, <2>2 DEF Spared
<1>6. CASE pm.dir # mem.dir
  <2>1. mode = "run" /\ RunOK
    BY <1>3, <1>6 DEF Shape, RecoverOK, Typed, RestOK
  <2>2. OldDir
    BY <1>6, <2>1 DEF RunOK, SplitOK
  <2>3. DirOf(pm).depth = mem.dirs[pm.dir].depth
    BY <1>4, <2>2 DEF OldDir, DirOf
  <2> QED
    BY <1>2, <1>3, <1>6, <2>3 DEF Spared, DirOf
<1> QED
  BY <1>5, <1>6

\* Recovery leaves the last block alone.
LEMMA RecoverGroupSpared ==
  ASSUME Inv, Spared, RecoverGroup
  PROVE  Spared'
<1>1. RecoverViews /\ Typed
  BY RecoverGroupInv DEF Inv
<1>2. pm' = pm /\ workload' = workload /\ mem'.dir = mem.dir /\ mode = "recover"
  BY <1>1, ImageTypes DEF RecoverGroup, Typed, ImagesOK
<1>3. /\ Dur' = Dur /\ Dep' = Dep /\ ML' = ML /\ PL' = PL /\ Intact(mem)
      /\ ri \in Ix(Dep) /\ ri' = ri + Pow2[Dep - ML[Ent[ri]]]
      /\ \A x \in Ix(Dep) :
           Ent'[x] = IF x \in ri + 1 .. ri' - 1 /\ ML[Ent[x]] # ML[Ent[ri]] THEN Ent[ri] ELSE Ent[x]
  BY <1>1, <1>2 DEF RecoverViews, PL
<1>4. Shape /\ RecoverOK
  BY <1>2, <1>3 DEF Inv, Live, Shape
<1>5. SUFFICES ASSUME Elsewhere
               PROVE  SparedIn(Ent', ML, Dep) /\ SparedIn(Dur, PL, Dep) /\ pm'.dir = mem'.dir
  BY <1>2, <1>3 DEF Spared, Elsewhere
<1>6. SparedIn(Ent, ML, Dep) /\ SparedIn(Dur, PL, Dep)
  BY <1>3, <1>5 DEF Spared
<1>7. DirOK(Ent, ML, Dep) /\ \E B : Leaders(B, Ent, ML, Dep) /\ ri \in B
  BY <1>2, <1>4 DEF Shape, SameLeaders
<1>8. PICK B : Leaders(B, Ent, ML, Dep) /\ ri \in B
  BY <1>7
<1>9. PICK w : w = Pow2[Dep - ML[Ent[ri]]]
  OBVIOUS
<1>10. /\ w \in Nat \ {0}
       /\ \A x \in Ix(Dep) : InGroup(ri, x, Ent, ML, Dep) <=> x \in ri .. ri + w - 1
  BY <1>7, <1>8, <1>9, LeaderNext
<1>11. ASSUME NEW x \in Ix(Dep), LastB(x, Dep) PROVE Ent'[x] = LastSeg
  <2>1. CASE x \in ri + 1 .. ri' - 1
    <3>1. ri' = ri + w /\ ri \in Nat
      BY <1>3, <1>9 DEF Ix
    <3>2. x \in ri .. ri + w - 1
      BY <1>10, <2>1, <3>1
    <3>3. Top(x, Dep, ML[Ent[ri]]) = Top(ri, Dep, ML[Ent[ri]])
      BY <1>10, <3>2 DEF InGroup
    <3>4. ML[Ent[ri]] \in InitDepth .. Dep /\ Dep \in InitDepth .. HashBits
      BY <1>3, <1>7, DirTypes DEF DirOK
    <3>5. LastB(ri, Dep)
      BY <1>3, <1>11, <3>3, <3>4, LastSame
    <3>6. Ent[ri] = LastSeg /\ Ent[x] = LastSeg
      BY <1>3, <1>6, <1>11, <3>5 DEF SparedIn
    <3> QED
      BY <1>3, <3>6
  <2>2. CASE x \notin ri + 1 .. ri' - 1
    <3>1. Ent'[x] = Ent[x]
      BY <1>3, <2>2
    <3> QED
      BY <1>6, <1>11, <3>1 DEF SparedIn
  <2> QED
    BY <2>1, <2>2
<1>12. SparedIn(Ent', ML, Dep)
  BY <1>6, <1>11 DEF SparedIn
<1> QED
  BY <1>2, <1>4, <1>6, <1>12 DEF RecoverOK

\* The end of Recovery makes the repaired array durable.
LEMMA EndRecoverySpared ==
  ASSUME Inv, Spared, EndRecovery
  PROVE  Spared'
<1>1. Inv' /\ mem' = mem /\ ML' = ML /\ PL' = PL /\ (Intact(mem) => Dur' = Ent)
  BY EndRecoveryInv
<1>2. mode' = "run" /\ mode = "recover" /\ workload' = workload
  BY DEF EndRecovery
<1>3. Ent' = Ent /\ Dep' = Dep
  BY <1>1 DEF Ent, Dep
<1>4. ASSUME Elsewhere', Intact(mem)'
      PROVE  SparedIn(Ent', ML', Dep') /\ Dur' = Ent' /\ PL' = ML' /\ pm'.dir = mem'.dir
  <2>1. Intact(mem) /\ Elsewhere
    BY <1>1, <1>2, <1>4 DEF Elsewhere
  <2>2. RecoverOK /\ Typed
    BY <1>2, <2>1 DEF Inv, Live, Shape
  <2>3. pm'.dir = pm.dir
    BY <2>2, ImageTypes DEF EndRecovery, Typed, ImagesOK
  <2>4. pm.dir = mem.dir /\ PL = ML
    BY <2>2 DEF RecoverOK
  <2> QED
    BY <1>1, <1>3, <2>1, <2>3, <2>4 DEF Spared
<1> QED
  BY <1>4, SparedSettled

\* At first the last segment has the last entry.
LEMMA InitSpared ==
  ASSUME Init
  PROVE  Spared
<1>1. PICK N : N = Pow2[InitDepth]
  OBVIOUS
<1>2. N \in Nat /\ N > 0
  BY <1>1, Constants, Pow2Step
<1>3. /\ mem.segs = [i \in 1 .. N |-> NewSegment(InitDepth)]
      /\ mem.dirs = <<[depth |-> InitDepth, segment |-> [x \in 0 .. N - 1 |-> x + 1]]>> /\ mem.dir = 1
      /\ pm = mem
  BY <1>1 DEF Init
<1>4. Dep = InitDepth /\ Ent = [x \in 0 .. N - 1 |-> x + 1] /\ Dur = Ent
  <2>1. PICK r : r = [depth |-> InitDepth, segment |-> [x \in 0 .. N - 1 |-> x + 1]]
    OBVIOUS
  <2>2. mem.dirs[1] = r /\ r.depth = InitDepth /\ r.segment = [x \in 0 .. N - 1 |-> x + 1]
    BY <1>3, <2>1
  <2> QED
    BY <1>3, <2>2 DEF Dep, Ent, Dur, DirOf
<1>5. PL = ML
  BY <1>3 DEF ML, PL
<1>6. LastSeg \in DOMAIN ML /\ ML[LastSeg] = InitDepth
  <2>1. Typed /\ Intact(mem)
    BY <1>4, InitInv, Constants DEF Inv, Intact, Dep
  <2>2. DOMAIN mem.segs = Segments
    BY <2>1, ImageTypes DEF Typed, ImagesOK, Segments
  <2>3. LastSeg \in 1 .. N
    BY <1>1, <1>2 DEF LastSeg
  <2>4. mem.segs[LastSeg] = NewSegment(InitDepth) /\ LastSeg \in Segments
    BY <1>3, <2>2, <2>3
  <2>5. DOMAIN ML = Segments /\ ML[LastSeg] = mem.segs[LastSeg].local_depth
    BY <2>1, <2>4, InUse, DepthsTyped
  <2> QED
    BY <2>4, <2>5 DEF NewSegment
<1>7. ASSUME NEW x \in Ix(InitDepth), LastB(x, InitDepth) PROVE Ent[x] = LastSeg
  <2>1. x \in Nat /\ x \in 0 .. N - 1 /\ InitDepth \in Nat
    BY <1>1, Constants DEF Ix
  <2>2. x = N - 1
    BY <1>1, <1>7, <2>1, TopSelf DEF LastB
  <2>3. Ent[x] = x + 1
    BY <1>4, <2>1
  <2> QED
    BY <1>1, <1>2, <2>2, <2>3 DEF LastSeg
<1>8. SparedIn(Ent, ML, Dep)
  BY <1>4, <1>6, <1>7 DEF SparedIn
<1> QED
  BY <1>3, <1>4, <1>5, <1>8 DEF Spared

\* Every step spares the last block, if no key belongs to it.
LEMMA NextSpared ==
  ASSUME Inv, Spared, OneSplit, OneSplit', [Next]_vars
  PROVE  Spared'
<1>1. ASSUME NEW t \in Threads, InsertStep(t)
      PROVE  Spared'
  <2>1. ASSUME \/ \E k \in workload.keys, i \in DOMAIN mem.segs, j \in Slots : Claim(t, k, i, j)
               \/ StoreKey(t) \/ PersistPair(t) \/ ReturnInsert(t) \/ Reopen(t)
        PROVE  Quiet
    BY <2>1, ClaimInv, StoreKeyInv, PersistPairInv, ReturnInsertInv, ReopenInv
  <2> QED
    BY <1>1, <2>1, SparedQuiet, SplitSpared, DoubleDirSpared, StoreEntriesSpared, LateSplitSpared
       DEF InsertStep
<1>2. ASSUME UNCHANGED vars PROVE Spared'
  <2>1. Quiet
    BY <1>2 DEF vars, Quiet, ML, PL
  <2> QED
    BY <2>1, SparedQuiet
<1> QED
  BY <1>1, <1>2, EvictSpared, CrashSpared, RecoverGroupSpared, EndRecoverySpared DEF Next

-----------------------------------------------------------------------------
(* The theorems about the repaired directory                                *)

\* ShapeRestored, at one entry.
SharesAt(x) ==
  LET d == DirOf(mem)
      range == Pow2[d.depth - mem.segs[d.segment[x]].local_depth]
  IN  \A y \in DOMAIN d.segment : (x \div range = y \div range) <=> d.segment[x] = d.segment[y]

\* The directory is in use, and no Insert is in a split.
Settled ==
  mode = "run" /\ Intact(mem) /\ \A t \in Threads : pc[t] \in {"idle", "claimed", "stored", "persisted"}

\* Entries share a segment exactly when its depth says, but for the last block.
ShapeElsewhere ==
  Settled => \A x \in DOMAIN DirOf(mem).segment : LastB(x, DirOf(mem).depth) \/ SharesAt(x)

\* SharesAt(x) in terms of the proof.
LEMMA SharesIs ==
  ASSUME Typed, Intact(mem), NEW x \in Ix(Dep), Together(Ent, Dur, ML, Dep), WholeAt(Ent, ML, Dep, x)
  PROVE  SharesAt(x)
<1>1. Ent[x] \in Segments /\ DOMAIN Ent = Ix(Dep)
  BY InUse
<1>2. mem.segs[Ent[x]].local_depth = ML[Ent[x]]
  BY <1>1, DepthsTyped
<1>3. ASSUME NEW y \in Ix(Dep)
      PROVE  Top(x, Dep, ML[Ent[x]]) = Top(y, Dep, ML[Ent[x]]) <=> Ent[x] = Ent[y]
  <2>1. ASSUME Top(x, Dep, ML[Ent[x]]) = Top(y, Dep, ML[Ent[x]]) PROVE Ent[x] = Ent[y]
    BY <2>1 DEF WholeAt, InGroup
  <2>2. ASSUME Ent[x] = Ent[y] PROVE Top(x, Dep, ML[Ent[x]]) = Top(y, Dep, ML[Ent[x]])
    BY <2>2 DEF Together
  <2> QED
    BY <2>1, <2>2
<1> QED
  BY <1>1, <1>2, <1>3 DEF SharesAt, Ent, Dep, Top

\* What the invariants say of a settled directory.
LEMMA SettledWhole ==
  ASSUME Inv, Whole, Settled
  PROVE  /\ Typed /\ Intact(mem) /\ Shape /\ DOMAIN DirOf(mem).segment = Ix(Dep)
         /\ Dep = DirOf(mem).depth /\ Dep \in InitDepth .. HashBits
         /\ \A x \in Ix(Dep) : ~LastB(x, Dep) => WholeAt(Ent, ML, Dep, x)
<1>1. Typed /\ Intact(mem) /\ Shape /\ mode = "run"
  BY DEF Inv, Live, Settled
<1>2. DOMAIN DirOf(mem).segment = Ix(Dep) /\ Dep \in InitDepth .. HashBits
  BY <1>1, InUse DEF Ent
<1>3. Exempt = {}
  BY DEF Exempt, Splitting, Settled
<1> QED
  BY <1>1, <1>2, <1>3 DEF Whole, Wholes, Dep

\* Outside the last block.
LEMMA SettledElsewhere ==
  ASSUME Inv, Whole
  PROVE  ShapeElsewhere
<1>1. SUFFICES ASSUME Settled, NEW x \in DOMAIN DirOf(mem).segment, ~LastB(x, DirOf(mem).depth)
               PROVE  SharesAt(x)
  BY DEF ShapeElsewhere
<1>2. /\ Typed /\ Intact(mem) /\ Together(Ent, Dur, ML, Dep)
      /\ x \in Ix(Dep) /\ WholeAt(Ent, ML, Dep, x)
  BY <1>1, SettledWhole DEF Shape
<1> QED
  BY <1>2, SharesIs

\* Everywhere, if no key belongs to the last block.
LEMMA SettledEverywhere ==
  ASSUME Inv, Whole, Spared, Elsewhere
  PROVE  ShapeRestored
<1>1. TypeOK
  BY TypedOK DEF Inv
<1>2. ASSUME Settled, NEW x \in DOMAIN DirOf(mem).segment
      PROVE  SharesAt(x)
  <2>1. /\ Typed /\ Intact(mem) /\ Together(Ent, Dur, ML, Dep) /\ x \in Ix(Dep)
        /\ Dep \in InitDepth .. HashBits
    BY <1>2, SettledWhole DEF Shape
  <2>2. CASE ~LastB(x, Dep)
    <3>1. WholeAt(Ent, ML, Dep, x)
      BY <1>2, <2>1, <2>2, SettledWhole
    <3> QED
      BY <2>1, <3>1, SharesIs
  <2>3. CASE LastB(x, Dep)
    <3>1. SparedIn(Ent, ML, Dep)
      BY <2>1 DEF Spared
    <3>2. Ent[x] = LastSeg /\ ML[Ent[x]] = InitDepth
      BY <2>1, <2>3, <3>1 DEF SparedIn
    <3>3. WholeAt(Ent, ML, Dep, x)
      BY <2>1, <2>3, <3>1, <3>2 DEF WholeAt, InGroup, LastB, SparedIn
    <3> QED
      BY <2>1, <3>3, SharesIs
  <2> QED
    BY <2>2, <2>3
<1> QED
  BY <1>1, <1>2 DEF ShapeRestored, Settled, SharesAt

\* The segment of the last block is spared if no key belongs to that block.
THEOREM RecoverySpared == Spec /\ []OneSplit => []Spared
<1>1. Init => Spared
  BY InitSpared
<1>2. Inv /\ Spared /\ OneSplit /\ OneSplit' /\ [Next]_vars => Spared'
  BY NextSpared
<1> QED
  BY <1>1, <1>2, RecoveryInv, PTL DEF Spec

\* With no Insert in a split, and after any number of power failures at any
\* point, CCEH::Recovery has made the directory regular again everywhere but
\* in the block that ends it, whose last group its loop never repairs.
THEOREM RecoveryShapeElsewhere == Spec /\ []OneSplit => []ShapeElsewhere
<1>1. Inv /\ Whole => ShapeElsewhere
  BY SettledElsewhere
<1> QED
  BY <1>1, RecoveryInv, RecoveryWhole, PTL

\* It is regular everywhere if no key of the workload belongs to that block:
\* the property of the run, for every number of threads, slots and bits.
THEOREM RecoveryShapeRestored == Spec /\ []OneSplit => [](Elsewhere => ShapeRestored)
<1>1. Inv /\ Whole /\ Spared => (Elsewhere => ShapeRestored)
  BY SettledEverywhere
<1> QED
  BY <1>1, RecoveryInv, RecoveryWhole, RecoverySpared, PTL

-----------------------------------------------------------------------------
(* Acknowledged keys: in both images, wherever a lookup may end             *)

\* One Insert at a time.
Serial == \A t, u \in Threads : (pc[t] # "idle" /\ pc[u] # "idle") => t = u

\* The acknowledged keys that Recovery keeps: those outside the last block.
Safe == {k \in acked : Prefix(k, InitDepth) # Pow2[InitDepth] - 1}

\* A slot of segment g has k in the images m and p.
HasIn(m, p, g, k) == \E j \in Slots : m.segs[g].bucket[j] = k /\ p.segs[g].bucket[j] = k

\* Each segment has the keys S of the range that an entry and its depth give it.
HeldIn(seg, L, D, S, m, p) ==
  \A k \in S : \A y \in Ix(D) :
    Prefix(k, L[seg[y]]) = Top(y, D, L[seg[y]]) => HasIn(m, p, seg[y], k)

\* What the step of an Insert relies on.
ThreadHeld(t) ==
  /\ pc[t] \in PairPCs => loc[t].target = Ent[Prefix(loc[t].key, Dep)]
  /\ pc[t] = "claimed" => mem.segs[loc[t].target].bucket[loc[t].slot] = SENTINEL
  /\ pc[t] \in {"stored", "persisted"} => mem.segs[loc[t].target].bucket[loc[t].slot] = loc[t].key
  /\ pc[t] = "persisted" => pm.segs[loc[t].target].bucket[loc[t].slot] = loc[t].key
  /\ pc[t] = "split" =>
       \A k \in Safe :
         Prefix(k, ML[loc[t].target] + 1) = 2 * Prefix(loc[t].key, ML[loc[t].target]) + 1
           => HasIn(mem, pm, loc[t].s, k)
  /\ pc[t] = "doubled" =>
       pm.dir = mem.dir
         \/ HeldIn(pm.dirs[pm.dir].segment, ML, mem.dirs[pm.dir].depth, Safe, mem, pm)
  /\ pc[t] = "raised" => PL = ML \/ HeldIn(Dur, PL, Dep, Safe, mem, pm)

HeldOK ==
  Intact(mem) => /\ HeldIn(Ent, ML, Dep, Safe, mem, pm) /\ HeldIn(Dur, ML, Dep, Safe, mem, pm)
                 /\ \A t \in Threads : ThreadHeld(t)

\* Safe keys are keys.
LEMMA SafeKeys ==
  ASSUME RestOK
  PROVE  \A k \in Safe : /\ k \in KeyWords /\ k # SENTINEL /\ k # INVALID /\ k \in acked
                         /\ Prefix(k, InitDepth) # Pow2[InitDepth] - 1
BY Constants DEF RestOK, Safe

\* With one Insert at a time, one thread splits at most.
LEMMA SerialSplit ==
  ASSUME Serial
  PROVE  OneSplit
BY DEF Serial, OneSplit, SplitPCs

\* The same for the next state.
LEMMA SerialSplitNext ==
  ASSUME Serial'
  PROVE  OneSplit'
BY DEF Serial, OneSplit, SplitPCs

\* The other threads are idle when t steps.
LEMMA SerialStep ==
  ASSUME Serial, Serial', ThreadsOK, NEW t \in Threads, NEW from, NEW to, Goto(t, from, to),
         from # "idle" \/ to # "idle"
  PROVE  /\ pc[t] = from /\ pc'[t] = to /\ mode = "run" /\ mode' = "run"
         /\ \A u \in Threads : u # t => pc[u] = "idle" /\ pc'[u] = "idle"
<1>1. pc[t] = from /\ pc' = [pc EXCEPT ![t] = to] /\ mode = "run" /\ mode' = mode
  BY DEF Goto
<1>2. pc'[t] = to /\ \A u \in Threads : u # t => pc'[u] = pc[u]
  BY <1>1 DEF ThreadsOK
<1> QED
  BY <1>1, <1>2 DEF Serial

\* After the step of the only thread inside Insert.
LEMMA HeldNext ==
  ASSUME NEW t \in Threads, \A u \in Threads : u # t => pc'[u] = "idle",
         Intact(mem)' => /\ HeldIn(Ent', ML', Dep', Safe', mem', pm')
                         /\ HeldIn(Dur', ML', Dep', Safe', mem', pm')
                         /\ ThreadHeld(t)'
  PROVE  HeldOK'
<1>1. \A u \in Threads : u # t => ThreadHeld(u)'
  BY DEF ThreadHeld, PairPCs
<1> QED
  BY <1>1 DEF HeldOK

\* A segment that keeps its keys and its depth goes on holding them.
LEMMA HeldKeep ==
  ASSUME NEW seg, NEW L, NEW D, NEW S, NEW m, NEW p, HeldIn(seg, L, D, S, m, p),
         NEW new, NEW K, NEW n, NEW q,
         \A y \in Ix(D) : new[y] = seg[y] /\ K[seg[y]] = L[seg[y]],
         \A y \in Ix(D) : \A k \in S : HasIn(m, p, seg[y], k) => HasIn(n, q, seg[y], k)
  PROVE  HeldIn(new, K, D, S, n, q)
BY DEF HeldIn

\* The buckets stay, or their words in pm become those in mem.
LEMMA HasKept ==
  ASSUME NEW m, NEW p, NEW n, NEW q, NEW g, NEW k,
         \A j \in Slots : /\ n.segs[g].bucket[j] = m.segs[g].bucket[j]
                          /\ q.segs[g].bucket[j] \in {p.segs[g].bucket[j], m.segs[g].bucket[j]},
         HasIn(m, p, g, k)
  PROVE  HasIn(n, q, g, k)
BY DEF HasIn

\* The entry of a key, outside the last block.
LEMMA KeyEntry ==
  ASSUME NEW D \in InitDepth .. HashBits, NEW k \in KeyWords
  PROVE  /\ Prefix(k, D) \in Ix(D) /\ Prefix(k, D) \in Nat
         /\ \A l \in 0 .. D : Top(Prefix(k, D), D, l) = Prefix(k, l)
<1>1. D \in 0 .. HashBits
  BY Constants
<1> QED
  BY <1>1, PrefixIs, TopPrefix

\* One bit more of a key.
LEMMA PrefixDrop ==
  ASSUME NEW D \in Nat, D <= HashBits, NEW l \in 0 .. D - 1, NEW k \in KeyWords, NEW y \in Nat,
         Prefix(k, l + 1) = Top(y, D, l + 1)
  PROVE  Prefix(k, l) = Top(y, D, l)
<1>1. l \in 0 .. HashBits - 1 /\ HashBits \in Nat
  BY Constants
<1>2. /\ Prefix(k, l) \in Nat /\ Prefix(k, l + 1) \in {2 * Prefix(k, l), 2 * Prefix(k, l) + 1}
  BY <1>1, PrefixHalf
<1>3. /\ Top(y, D, l) \in Nat /\ Top(y, D, l + 1) \in {2 * Top(y, D, l), 2 * Top(y, D, l) + 1}
  BY TopHalf
<1> QED
  BY <1>2, <1>3

\* A step that leaves the directory alone and drops no key.
LEMMA HeldSame ==
  ASSUME Typed, HeldOK, Intact(mem), Ent' = Ent, Dur' = Dur, Dep' = Dep, ML' = ML, Safe' = Safe,
         \A g \in Segments : \A k \in Safe : HasIn(mem, pm, g, k) => HasIn(mem', pm', g, k)
  PROVE  HeldIn(Ent', ML', Dep', Safe', mem', pm') /\ HeldIn(Dur', ML', Dep', Safe', mem', pm')
<1>1. \A y \in Ix(Dep) : Ent[y] \in Segments /\ Dur[y] \in Segments
  BY InUse
<1>2. HeldIn(Ent, ML, Dep, Safe, mem, pm) /\ HeldIn(Dur, ML, Dep, Safe, mem, pm)
  BY DEF HeldOK
<1>3. \A y \in Ix(Dep) : \A k \in Safe : HasIn(mem, pm, Ent[y], k) => HasIn(mem', pm', Ent[y], k)
  BY <1>1
<1>4. \A y \in Ix(Dep) : \A k \in Safe : HasIn(mem, pm, Dur[y], k) => HasIn(mem', pm', Dur[y], k)
  BY <1>1
<1>5. HeldIn(Ent, ML, Dep, Safe, mem', pm')
  BY <1>2, <1>3, HeldKeep
<1>6. HeldIn(Dur, ML, Dep, Safe, mem', pm')
  BY <1>2, <1>4, HeldKeep
<1> QED
  BY <1>5, <1>6

\* The locals of a thread in Insert.
LEMMA PairLocals ==
  ASSUME Typed, NEW t \in Threads, pc[t] \in PairPCs
  PROVE  /\ loc[t].key \in workload.keys /\ loc[t].key \in KeyWords /\ loc[t].key # SENTINEL
         /\ loc[t].target \in Segments /\ loc[t].target \in 1 .. Len(mem.segs)
         /\ loc[t].target \in 1 .. Len(pm.segs) /\ loc[t].slot \in Slots
<1>1. pc[t] # "idle" /\ LocalsOK(t) /\ RestOK /\ Len(pm.segs) = Len(mem.segs)
  BY DEF PairPCs, Typed, ThreadsOK, ImagesOK
<1>2. loc[t].key \in workload.keys /\ loc[t].target \in Segments /\ loc[t].slot \in Slots
  BY <1>1 DEF LocalsOK
<1>3. loc[t].key \in KeyWords /\ loc[t].key # SENTINEL
  BY <1>1, <1>2, Constants DEF RestOK
<1> QED
  BY <1>1, <1>2, <1>3 DEF Segments

\* n is m with the word w in slot j of segment i.
SlotPut(m, n, i, j, w) ==
  /\ n.segs[i].bucket[j] = w
  /\ \A h \in Slots : h # j => n.segs[i].bucket[h] = m.segs[i].bucket[h]
  /\ \A g \in 1 .. Len(m.segs) : g # i => n.segs[g] = m.segs[g]

\* A slot of an image is stored.
LEMMA SlotStored ==
  ASSUME NEW m \in Image, NEW n, NEW i \in 1 .. Len(m.segs), NEW j \in Slots, NEW w, NEW sema, NEW depth,
         SegPut(m, n, i, [m.segs[i].bucket EXCEPT ![j] = w], sema, depth)
  PROVE  SlotPut(m, n, i, j, w)
<1>1. m.segs[i].bucket \in [Slots -> KeyWords]
  BY SegTypes
<1>2. n.segs[i].bucket = [m.segs[i].bucket EXCEPT ![j] = w]
  BY DEF SegPut
<1> QED
  BY <1>1, <1>2 DEF SegPut, SlotPut

\* The claimed slot was free, so it has no key of the range of its segment.
LEMMA ClaimHeld ==
  ASSUME Inv, HeldOK, Serial, Serial', NEW t \in Threads, NEW k \in workload.keys,
         NEW i \in DOMAIN mem.segs, NEW j \in Slots, Claim(t, k, i, j)
  PROVE  HeldOK'
<1>1. Goto(t, "idle", "claimed") /\ Opens(k, i) /\ j \in FreeSlots(mem.segs[i], k) /\ pm' = pm /\ acked' = acked
      /\ loc' = [loc EXCEPT ![t] = [NoLocals EXCEPT !.key = k, !.target = i, !.slot = j]]
  BY DEF Claim
<1>2. Inv' /\ Quiet
  BY ClaimInv
<1>3. Typed /\ ThreadsOK /\ RestOK /\ Intact(mem) /\ Shape /\ mem \in Image
  BY <1>1 DEF Inv, Typed, Live, Opens, ImagesOK
<1>4. /\ pc[t] = "idle" /\ pc'[t] = "claimed" /\ mode = "run"
      /\ \A u \in Threads : u # t => pc[u] = "idle" /\ pc'[u] = "idle"
  BY <1>1, <1>3, SerialStep
<1>5. i \in 1 .. Len(mem.segs) /\ i \in Segments
  BY <1>3, ImageTypes DEF Segments
<1>6. SegPut(mem, mem', i, [mem.segs[i].bucket EXCEPT ![j] = SENTINEL],
                mem.segs[i].sema + 1, mem.segs[i].local_depth)
  BY <1>3, <1>5, ClaimEffect
<1>7. /\ mem'.segs[i].bucket[j] = SENTINEL
      /\ \A h \in Slots : h # j => mem'.segs[i].bucket[h] = mem.segs[i].bucket[h]
      /\ \A g \in 1 .. Len(mem.segs) : g # i => mem'.segs[g] = mem.segs[g]
  <2>1. SlotPut(mem, mem', i, j, SENTINEL)
    BY <1>3, <1>5, <1>6, SlotStored
  <2> QED
    BY <2>1 DEF SlotPut
<1>8. Ent' = Ent /\ Dur' = Dur /\ Dep' = Dep /\ ML' = ML
  BY <1>2, QuietViews
<1>9. Dur = Ent
  BY <1>3, <1>4 DEF Shape, RunOK
<1>10. Safe' = Safe
  BY <1>1 DEF Safe
<1>11. /\ Dep \in InitDepth .. HashBits /\ k \in KeyWords /\ Ent[Prefix(k, Dep)] = i
       /\ ML[i] = mem.segs[i].local_depth
  BY <1>1, <1>3, <1>5, InUse, Constants, DepthsTyped DEF Opens, HomeIn, Ent, Dep, RestOK
<1>12. ASSUME NEW a \in Safe, NEW y \in Ix(Dep), Prefix(a, ML[Ent[y]]) = Top(y, Dep, ML[Ent[y]])
       PROVE  HasIn(mem', pm', Ent[y], a)
  <2>1. HasIn(mem, pm, Ent[y], a) /\ Ent[y] \in Segments
    BY <1>3, <1>12, InUse DEF HeldOK, HeldIn
  <2>2. PICK h \in Slots : mem.segs[Ent[y]].bucket[h] = a /\ pm.segs[Ent[y]].bucket[h] = a
    BY <2>1 DEF HasIn
  <2>3. CASE Ent[y] # i \/ h # j
    BY <1>1, <1>7, <2>1, <2>2, <2>3 DEF HasIn, Segments
  <2>4. CASE Ent[y] = i /\ h = j
    <3>1. a # SENTINEL /\ a # INVALID
      BY <1>3, SafeKeys
    <3>2. Prefix(a, ML[i]) # Prefix(k, ML[i])
      BY <1>1, <1>11, <2>2, <2>4, <3>1 DEF FreeSlots
    <3>3. Prefix(k, Dep) \in Ix(Dep) /\ ML[i] \in 0 .. Dep
      BY <1>3, <1>11, KeyEntry, DirTypes DEF Shape
    <3>4. Top(Prefix(k, Dep), Dep, ML[i]) = Prefix(k, ML[i])
      BY <1>11, <3>3, KeyEntry
    <3>5. Top(y, Dep, ML[i]) = Top(Prefix(k, Dep), Dep, ML[i])
      BY <1>3, <1>11, <2>4, <3>3 DEF Shape, Together
    <3> QED
      BY <1>12, <2>4, <3>2, <3>4, <3>5
  <2> QED
    BY <2>3, <2>4
<1>13. HeldIn(Ent', ML', Dep', Safe', mem', pm') /\ HeldIn(Dur', ML', Dep', Safe', mem', pm')
  BY <1>8, <1>9, <1>10, <1>12 DEF HeldIn
<1>14. ThreadHeld(t)'
  <2>1. loc'[t].key = k /\ loc'[t].target = i /\ loc'[t].slot = j
    BY <1>1, <1>3 DEF NoLocals, ThreadsOK
  <2> QED
    BY <1>4, <1>7, <1>8, <1>11, <2>1 DEF ThreadHeld
<1> QED
  BY <1>4, <1>13, <1>14, HeldNext

\* The stored key replaces SENTINEL, which is no key.
LEMMA StoreKeyHeld ==
  ASSUME Inv, HeldOK, Serial, Serial', NEW t \in Threads, StoreKey(t)
  PROVE  HeldOK'
<1>1. Goto(t, "claimed", "stored") /\ pm' = pm /\ acked' = acked /\ loc' = loc
  BY DEF StoreKey
<1>2. Inv' /\ Quiet
  BY StoreKeyInv
<1>3. Typed /\ ThreadsOK /\ RestOK /\ mem \in Image
  BY DEF Inv, Typed, ImagesOK
<1>4. /\ pc[t] = "claimed" /\ pc'[t] = "stored" /\ mode = "run"
      /\ \A u \in Threads : u # t => pc[u] = "idle" /\ pc'[u] = "idle"
  BY <1>1, <1>3, SerialStep
<1>5. Intact(mem) /\ ThreadHeld(t)
  BY <1>4 DEF Inv, Dead, HeldOK
<1>6. PICK i : i = loc[t].target
  OBVIOUS
<1>7. PICK j : j = loc[t].slot
  OBVIOUS
<1>8. i \in 1 .. Len(mem.segs) /\ i \in Segments /\ j \in Slots
  BY <1>3, <1>4, <1>6, <1>7, PairLocals DEF PairPCs
<1>9. SegPut(mem, mem', i, [mem.segs[i].bucket EXCEPT ![j] = loc[t].key],
                mem.segs[i].sema, mem.segs[i].local_depth)
  BY <1>3, <1>6, <1>7, StoreKeyEffect
<1>10. /\ mem'.segs[i].bucket[j] = loc[t].key
       /\ \A h \in Slots : h # j => mem'.segs[i].bucket[h] = mem.segs[i].bucket[h]
       /\ \A g \in 1 .. Len(mem.segs) : g # i => mem'.segs[g] = mem.segs[g]
  <2>1. SlotPut(mem, mem', i, j, loc[t].key)
    BY <1>3, <1>8, <1>9, SlotStored
  <2> QED
    BY <2>1 DEF SlotPut
<1>11. Ent' = Ent /\ Dur' = Dur /\ Dep' = Dep /\ ML' = ML
  BY <1>2, QuietViews
<1>12. Safe' = Safe
  BY <1>1 DEF Safe
<1>13. ASSUME NEW g \in Segments, NEW a \in Safe, HasIn(mem, pm, g, a) PROVE HasIn(mem', pm', g, a)
  <2>1. PICK h \in Slots : mem.segs[g].bucket[h] = a /\ pm.segs[g].bucket[h] = a
    BY <1>13 DEF HasIn
  <2>2. mem.segs[i].bucket[j] = SENTINEL /\ a # SENTINEL
    BY <1>3, <1>4, <1>5, <1>6, <1>7, SafeKeys DEF ThreadHeld
  <2>3. mem'.segs[g].bucket[h] = a
    BY <1>10, <2>1, <2>2 DEF Segments
  <2> QED
    BY <1>1, <2>1, <2>3 DEF HasIn
<1>14. HeldIn(Ent', ML', Dep', Safe', mem', pm') /\ HeldIn(Dur', ML', Dep', Safe', mem', pm')
  BY <1>3, <1>5, <1>11, <1>12, <1>13, HeldSame
<1>15. ThreadHeld(t)'
  BY <1>1, <1>4, <1>5, <1>6, <1>7, <1>10, <1>11 DEF ThreadHeld, PairPCs
<1> QED
  BY <1>4, <1>14, <1>15, HeldNext

\* The pair becomes durable.
LEMMA PersistPairHeld ==
  ASSUME Inv, HeldOK, Serial, Serial', NEW t \in Threads, PersistPair(t)
  PROVE  HeldOK'
<1>1. Goto(t, "stored", "persisted") /\ mem' = mem /\ acked' = acked /\ loc' = loc
  BY DEF PersistPair
<1>2. Inv' /\ Quiet
  BY PersistPairInv
<1>3. Typed /\ ThreadsOK /\ RestOK /\ pm \in Image
  BY DEF Inv, Typed, ImagesOK
<1>4. /\ pc[t] = "stored" /\ pc'[t] = "persisted" /\ mode = "run"
      /\ \A u \in Threads : u # t => pc[u] = "idle" /\ pc'[u] = "idle"
  BY <1>1, <1>3, SerialStep
<1>5. Intact(mem) /\ ThreadHeld(t)
  BY <1>4 DEF Inv, Dead, HeldOK
<1>6. PICK i : i = loc[t].target
  OBVIOUS
<1>7. PICK j : j = loc[t].slot
  OBVIOUS
<1>8. i \in 1 .. Len(pm.segs) /\ i \in Segments /\ j \in Slots
  BY <1>3, <1>4, <1>6, <1>7, PairLocals DEF PairPCs
<1>9. SegPut(pm, pm', i, [pm.segs[i].bucket EXCEPT ![j] = mem.segs[i].bucket[j]],
                pm.segs[i].sema, pm.segs[i].local_depth)
  BY <1>3, <1>6, <1>7, PersistPairEffect
<1>10. /\ pm'.segs[i].bucket[j] = mem.segs[i].bucket[j]
       /\ \A h \in Slots : h # j => pm'.segs[i].bucket[h] = pm.segs[i].bucket[h]
       /\ \A g \in 1 .. Len(pm.segs) : g # i => pm'.segs[g] = pm.segs[g]
  <2>1. SlotPut(pm, pm', i, j, mem.segs[i].bucket[j])
    BY <1>3, <1>8, <1>9, SlotStored
  <2> QED
    BY <2>1 DEF SlotPut
<1>11. Ent' = Ent /\ Dur' = Dur /\ Dep' = Dep /\ ML' = ML
  BY <1>2, QuietViews
<1>12. Safe' = Safe
  BY <1>1 DEF Safe
<1>13. ASSUME NEW g \in Segments, NEW a \in Safe, HasIn(mem, pm, g, a) PROVE HasIn(mem', pm', g, a)
  <2>1. PICK h \in Slots : mem.segs[g].bucket[h] = a /\ pm.segs[g].bucket[h] = a
    BY <1>13 DEF HasIn
  <2>2. g \in 1 .. Len(pm.segs)
    BY <1>3 DEF Typed, ImagesOK, Segments
  <2>3. pm'.segs[g].bucket[h] = a
    BY <1>10, <2>1, <2>2
  <2> QED
    BY <1>1, <2>1, <2>3 DEF HasIn
<1>14. HeldIn(Ent', ML', Dep', Safe', mem', pm') /\ HeldIn(Dur', ML', Dep', Safe', mem', pm')
  BY <1>3, <1>5, <1>11, <1>12, <1>13, HeldSame
<1>15. ThreadHeld(t)'
  BY <1>1, <1>4, <1>5, <1>6, <1>7, <1>10, <1>11 DEF ThreadHeld, PairPCs
<1> QED
  BY <1>4, <1>14, <1>15, HeldNext

\* The key is acknowledged: its segment is where every lookup of it may end.
LEMMA ReturnInsertHeld ==
  ASSUME Inv, Whole, HeldOK, Serial, Serial', NEW t \in Threads, ReturnInsert(t)
  PROVE  HeldOK'
<1>1. /\ Goto(t, "persisted", "idle") /\ pm' = pm /\ acked' = acked \cup {loc[t].key}
      /\ loc' = [loc EXCEPT ![t] = NoLocals]
  BY DEF ReturnInsert
<1>2. Inv' /\ Quiet
  BY ReturnInsertInv
<1>3. Typed /\ ThreadsOK /\ RestOK /\ mem \in Image
  BY DEF Inv, Typed, ImagesOK
<1>4. /\ pc[t] = "persisted" /\ pc'[t] = "idle" /\ mode = "run"
      /\ \A u \in Threads : u # t => pc[u] = "idle" /\ pc'[u] = "idle"
  BY <1>1, <1>3, SerialStep
<1>5. Intact(mem) /\ ThreadHeld(t) /\ Shape
  BY <1>4 DEF Inv, Dead, Live, HeldOK
<1>6. PICK i : i = loc[t].target
  OBVIOUS
<1>7. PICK k : k = loc[t].key
  OBVIOUS
<1>8. i \in 1 .. Len(mem.segs) /\ i \in Segments /\ loc[t].slot \in Slots /\ k \in KeyWords
  BY <1>3, <1>4, <1>6, <1>7, PairLocals DEF PairPCs
<1>9. SegPut(mem, mem', i, mem.segs[i].bucket, mem.segs[i].sema - 1, mem.segs[i].local_depth)
  BY <1>3, <1>6, ReturnInsertEffect
<1>10. \A g \in Segments : mem'.segs[g].bucket = mem.segs[g].bucket
  BY <1>9 DEF SegPut, Segments
<1>11. Ent' = Ent /\ Dur' = Dur /\ Dep' = Dep /\ ML' = ML
  BY <1>2, QuietViews
<1>12. Dur = Ent
  BY <1>4, <1>5 DEF Shape, RunOK
<1>13. \A y \in Ix(Dep) : ~LastB(y, Dep) => WholeAt(Ent, ML, Dep, y)
  <2>1. Exempt = {}
    BY <1>4 DEF Exempt, Splitting
  <2> QED
    BY <1>4, <1>5, <2>1 DEF Whole, Wholes
<1>14. ASSUME NEW a \in Safe', NEW y \in Ix(Dep), Prefix(a, ML[Ent[y]]) = Top(y, Dep, ML[Ent[y]])
       PROVE  HasIn(mem', pm', Ent[y], a)
  <2>1. Ent[y] \in Segments
    BY <1>3, <1>5, InUse
  <2>2. CASE a \in acked
    <3>1. a \in Safe
      BY <1>14, <2>2 DEF Safe
    <3>2. HasIn(mem, pm, Ent[y], a)
      BY <1>5, <1>14, <3>1 DEF HeldOK, HeldIn
    <3> QED
      BY <1>1, <1>10, <2>1, <3>2 DEF HasIn
  <2>3. CASE a \notin acked
    <3>1. a = k /\ Prefix(k, InitDepth) # Pow2[InitDepth] - 1
      BY <1>1, <1>7, <1>14, <2>3 DEF Safe
    <3>2. /\ Dep \in InitDepth .. HashBits /\ ML[Ent[y]] \in InitDepth .. Dep /\ ML[Ent[y]] \in 0 .. Dep
      BY <1>3, <1>5, InUse, DirTypes DEF Shape
    <3>3. ~LastB(y, Dep)
      BY <1>8, <1>14, <3>1, <3>2, KeyElsewhere
    <3>4. Prefix(k, Dep) \in Ix(Dep) /\ Top(Prefix(k, Dep), Dep, ML[Ent[y]]) = Prefix(k, ML[Ent[y]])
      BY <1>8, <3>2, KeyEntry
    <3>5. Ent[Prefix(k, Dep)] = Ent[y]
      BY <1>13, <1>14, <3>1, <3>3, <3>4 DEF WholeAt, InGroup
    <3>6. Ent[y] = i
      BY <1>4, <1>5, <1>6, <1>7, <3>5 DEF ThreadHeld, PairPCs
    <3>7. mem.segs[i].bucket[loc[t].slot] = k /\ pm.segs[i].bucket[loc[t].slot] = k
      BY <1>4, <1>5, <1>6, <1>7 DEF ThreadHeld
    <3> QED
      BY <1>1, <1>8, <1>10, <3>1, <3>6, <3>7 DEF HasIn
  <2> QED
    BY <2>2, <2>3
<1>15. HeldIn(Ent', ML', Dep', Safe', mem', pm') /\ HeldIn(Dur', ML', Dep', Safe', mem', pm')
  BY <1>11, <1>12, <1>14 DEF HeldIn
<1>16. ThreadHeld(t)'
  BY <1>4 DEF ThreadHeld, PairPCs
<1> QED
  BY <1>4, <1>15, <1>16, HeldNext

\* The new segment gets the keys of its half, in both images.
LEMMA SplitHeld ==
  ASSUME Inv, HeldOK, Serial, Serial', NEW t \in Threads, NEW k \in workload.keys,
         NEW i \in DOMAIN mem.segs, Split(t, k, i)
  PROVE  HeldOK'
<1>1. /\ Goto(t, "idle", "split") /\ Opens(k, i) /\ acked' = acked /\ mem.segs[i].local_depth < HashBits
      /\ loc' = [loc EXCEPT ![t] = [NoLocals EXCEPT !.key = k, !.target = i, !.s = Len(mem.segs) + 1]]
  BY DEF Split
<1>2. Inv' /\ SplitViews
  BY SplitInv, SerialSplitNext
<1>3. Typed /\ ThreadsOK /\ RestOK /\ Intact(mem) /\ Shape /\ mem \in Image /\ pm \in Image
      /\ Len(pm.segs) = Len(mem.segs)
  BY <1>1 DEF Inv, Typed, Live, Opens, ImagesOK
<1>4. /\ pc[t] = "idle" /\ pc'[t] = "split" /\ mode = "run"
      /\ \A u \in Threads : u # t => pc[u] = "idle" /\ pc'[u] = "idle"
  BY <1>1, <1>3, SerialStep
<1>5. i \in 1 .. Len(mem.segs) /\ i \in Segments
  BY <1>3, ImageTypes DEF Segments
<1>6. PICK s : s = Len(mem.segs) + 1
  OBVIOUS
<1>7. /\ SegAdd(pm, pm', Half(i))
      /\ \E m : /\ SegPut(mem, m, i, mem.segs[i].bucket, -1, mem.segs[i].local_depth)
                /\ SegAdd(m, mem', Half(i))
  BY <1>3, <1>5, SplitEffect
<1>8. PICK m : /\ SegPut(mem, m, i, mem.segs[i].bucket, -1, mem.segs[i].local_depth)
               /\ SegAdd(m, mem', Half(i))
  BY <1>7
<1>9. mem'.segs[s] = Half(i) /\ pm'.segs[s] = Half(i)
  BY <1>3, <1>6, <1>7, <1>8 DEF SegAdd, SegPut
<1>10. \A g \in Segments : mem'.segs[g].bucket = mem.segs[g].bucket /\ pm'.segs[g].bucket = pm.segs[g].bucket
  <2>1. ASSUME NEW g \in Segments
        PROVE  mem'.segs[g].bucket = mem.segs[g].bucket /\ pm'.segs[g].bucket = pm.segs[g].bucket
    <3>1. Len(m.segs) = Len(mem.segs) /\ g \in 1 .. Len(mem.segs) /\ m.segs[g].bucket = mem.segs[g].bucket
      BY <1>8, <2>1 DEF SegPut, Segments
    <3>2. mem'.segs[g] = m.segs[g] /\ pm'.segs[g] = pm.segs[g]
      BY <1>3, <1>7, <1>8, <3>1 DEF SegAdd
    <3> QED
      BY <3>1, <3>2
  <2> QED
    BY <2>1
<1>11. Ent' = Ent /\ Dur' = Dur /\ Dep' = Dep /\ \A g \in Segments : ML'[g] = ML[g]
  BY <1>2 DEF SplitViews
<1>12. Safe' = Safe
  BY <1>1 DEF Safe
<1>13. ASSUME NEW g \in Segments, NEW a \in Safe, HasIn(mem, pm, g, a) PROVE HasIn(mem', pm', g, a)
  BY <1>10, <1>13 DEF HasIn
<1>14. HeldIn(Ent', ML', Dep', Safe', mem', pm') /\ HeldIn(Dur', ML', Dep', Safe', mem', pm')
  <2>1. \A y \in Ix(Dep) : Ent[y] \in Segments /\ Dur[y] \in Segments
    BY <1>3, InUse
  <2>2. HeldIn(Ent, ML, Dep, Safe, mem, pm) /\ HeldIn(Dur, ML, Dep, Safe, mem, pm)
    BY <1>3 DEF HeldOK
  <2>3. \A y \in Ix(Dep) : ML'[Ent[y]] = ML[Ent[y]] /\ ML'[Dur[y]] = ML[Dur[y]]
    BY <1>11, <2>1
  <2>4. \A y \in Ix(Dep) : \A a \in Safe : HasIn(mem, pm, Ent[y], a) => HasIn(mem', pm', Ent[y], a)
    BY <1>13, <2>1
  <2>5. \A y \in Ix(Dep) : \A a \in Safe : HasIn(mem, pm, Dur[y], a) => HasIn(mem', pm', Dur[y], a)
    BY <1>13, <2>1
  <2>6. HeldIn(Ent, ML', Dep, Safe, mem', pm')
    BY <2>2, <2>3, <2>4, HeldKeep
  <2>7. HeldIn(Dur, ML', Dep, Safe, mem', pm')
    BY <2>2, <2>3, <2>5, HeldKeep
  <2> QED
    BY <1>11, <1>12, <2>6, <2>7
<1>15. loc'[t].key = k /\ loc'[t].target = i /\ loc'[t].s = s
  BY <1>1, <1>3, <1>6 DEF NoLocals, ThreadsOK
<1>16. PICK l : l = ML[i]
  OBVIOUS
<1>17. l = mem.segs[i].local_depth /\ l \in 0 .. HashBits - 1 /\ l \in Nat /\ k \in KeyWords
  <2>1. l = mem.segs[i].local_depth /\ l \in InitDepth .. HashBits
    BY <1>3, <1>5, <1>16, DepthsTyped
  <2> QED
    BY <1>1, <1>3, <2>1, Constants DEF RestOK
<1>18. ASSUME NEW a \in Safe, Prefix(a, l + 1) = 2 * Prefix(k, l) + 1
       PROVE  HasIn(mem', pm', s, a)
  <2>1. a \in KeyWords
    BY <1>3, SafeKeys
  <2>2. /\ Prefix(a, l) \in Nat /\ Prefix(a, l + 1) = 2 * Prefix(a, l) + SplitBit(a, l) /\ SplitBit(a, l) \in {0, 1}
    BY <1>17, <2>1, PrefixHalf
  <2>3. Prefix(k, l) \in Nat
    BY <1>17, PrefixHalf
  <2>4. Prefix(a, l) = Prefix(k, l) /\ SplitBit(a, l) = 1
    BY <1>18, <2>2, <2>3
  <2>5. Ent[Prefix(k, Dep)] = i /\ Dep \in InitDepth .. HashBits
    BY <1>1, <1>3, InUse DEF Opens, HomeIn, Ent, Dep
  <2>6. Prefix(k, Dep) \in Ix(Dep)
    BY <1>17, <2>5, KeyEntry
  <2>7. l \in 0 .. Dep
    BY <1>3, <1>16, <2>5, <2>6, DirTypes DEF Shape
  <2>8. Top(Prefix(k, Dep), Dep, l) = Prefix(k, l)
    BY <1>17, <2>5, <2>7, KeyEntry
  <2>9. HasIn(mem, pm, i, a)
    BY <1>3, <1>16, <2>4, <2>5, <2>6, <2>8 DEF HeldOK, HeldIn
  <2>10. PICK j \in Slots : mem.segs[i].bucket[j] = a
    BY <2>9 DEF HasIn
  <2>11. Half(i).bucket[j] = a
    BY <1>17, <2>4, <2>10 DEF Half
  <2> QED
    BY <1>9, <2>11 DEF HasIn
<1>19. ThreadHeld(t)'
  <2>1. ML'[i] = l
    BY <1>5, <1>11, <1>16
  <2> QED
    BY <1>4, <1>12, <1>15, <1>18, <2>1 DEF ThreadHeld, PairPCs
<1> QED
  BY <1>4, <1>14, <1>19, HeldNext

\* Before a step of a split, with one Insert at a time.
LEMMA SerialBegins ==
  ASSUME Inv, HeldOK, Serial, Serial', NEW t \in Threads, NEW from \in SplitPCs, NEW to, Goto(t, from, to)
  PROVE  /\ Typed /\ RestOK /\ Intact(mem) /\ Shape /\ mode = "run" /\ SplitOK(t) /\ pc[t] = from /\ pc'[t] = to
         /\ loc[t].key \in KeyWords /\ loc[t].target \in Segments /\ loc[t].s \in Segments
         /\ \A u \in Threads : u # t => pc[u] = "idle" /\ pc'[u] = "idle"
         /\ from # "redirected" => Dur = Ent
         /\ from # "raised" => PL = ML
         /\ from # "doubled" => pm.dir = mem.dir
         /\ HeldIn(Ent, ML, Dep, Safe, mem, pm) /\ HeldIn(Dur, ML, Dep, Safe, mem, pm) /\ ThreadHeld(t)
<1>1. OneSplit
  BY SerialSplit
<1>2. /\ Typed /\ ThreadsOK /\ RestOK /\ Intact(mem) /\ Shape /\ mode = "run" /\ SplitOK(t) /\ pc[t] = from
      /\ pc'[t] = to
      /\ loc[t].key \in KeyWords /\ loc[t].target \in Segments /\ loc[t].s \in Segments
      /\ from # "redirected" => Dur = Ent
      /\ from # "raised" => PL = ML
      /\ from # "doubled" => pm.dir = mem.dir
  BY <1>1, SplitBegins
<1>3. from # "idle"
  BY DEF SplitPCs
<1>4. \A u \in Threads : u # t => pc[u] = "idle" /\ pc'[u] = "idle"
  BY <1>2, <1>3, SerialStep
<1> QED
  BY <1>2, <1>4 DEF HeldOK

\* Images with the same segments hold the same keys.
LEMMA HeldSegs ==
  ASSUME NEW seg, NEW L, NEW D, NEW S, NEW m, NEW p, NEW n, NEW q, HeldIn(seg, L, D, S, m, p),
         n.segs = m.segs, q.segs = p.segs
  PROVE  HeldIn(seg, L, D, S, n, q)
BY DEF HeldIn, HasIn

\* Doubling: entry 2x+1 leads to the new segment, which has the keys of its half.
LEMMA DoubleDirHeld ==
  ASSUME Inv, HeldOK, Serial, Serial', NEW t \in Threads, DoubleDir(t)
  PROVE  HeldOK'
<1>1. Goto(t, "split", "doubled") /\ loc' = loc /\ acked' = acked
  BY DEF DoubleDir
<1>2. Inv' /\ DoubleViews(t)
  BY DoubleDirInv, SerialSplit
<1>3. /\ Typed /\ RestOK /\ Intact(mem) /\ Shape /\ SplitOK(t) /\ pc[t] = "split" /\ pc'[t] = "doubled"
      /\ loc[t].key \in KeyWords /\ loc[t].target \in Segments /\ loc[t].s \in Segments
      /\ \A u \in Threads : u # t => pc'[u] = "idle"
      /\ HeldIn(Ent, ML, Dep, Safe, mem, pm) /\ ThreadHeld(t)
  <2>1. "split" \in SplitPCs
    BY DEF SplitPCs
  <2> QED
    BY <1>1, <2>1, SerialBegins
<1>4. PICK D : D = Dep
  OBVIOUS
<1>5. PICK s : s = loc[t].s
  OBVIOUS
<1>6. PICK g : g = loc[t].target
  OBVIOUS
<1>7. PICK x : x = Prefix(loc[t].key, D)
  OBVIOUS
<1>8. PICK L : L = ML
  OBVIOUS
<1>9. PICK new : new = Ent'
  OBVIOUS
<1>10. PICK seg : seg = Ent
  OBVIOUS
<1>11. /\ Dep' = D + 1 /\ ML' = L /\ L[g] = D /\ Dur' = new /\ mem'.segs = mem.segs /\ pm'.segs = pm.segs
       /\ \A n \in Ix(D + 1) : new[n] = IF n = 2 * x + 1 THEN s ELSE seg[n \div 2]
       /\ pm'.dirs[pm'.dir].segment = seg /\ mem'.dirs[pm'.dir].depth = D
  BY <1>2, <1>4, <1>5, <1>6, <1>7, <1>8, <1>9, <1>10 DEF DoubleViews
<1>12. L[s] = D + 1 /\ DirOK(seg, L, D)
  BY <1>3, <1>4, <1>5, <1>6, <1>8, <1>10, <1>11 DEF SplitOK, Shape
<1>13. Safe' = Safe
  BY <1>1 DEF Safe
<1>14. D \in InitDepth .. HashBits /\ D \in Nat /\ D + 1 \in Nat
  BY <1>3, <1>4, InUse
<1>15. ASSUME NEW k \in Safe, NEW y \in Ix(D + 1), Prefix(k, L[new[y]]) = Top(y, D + 1, L[new[y]])
       PROVE  HasIn(mem, pm, new[y], k)
  <2>1. y \in Nat
    BY DEF Ix
  <2>2. CASE y = 2 * x + 1
    <3>1. new[y] = s
      BY <1>11, <2>2
    <3>2. Prefix(k, D + 1) = 2 * x + 1
      BY <1>12, <1>14, <1>15, <2>1, <2>2, <3>1, TopSelf
    <3> QED
      BY <1>3, <1>5, <1>6, <1>7, <1>8, <1>11, <3>1, <3>2 DEF ThreadHeld
  <2>3. CASE y # 2 * x + 1
    <3>1. y \div 2 \in Ix(D)
      <4>1. D \in 0 .. D
        BY <1>14
      <4> QED
        BY <1>14, <2>1, <4>1, TopDouble
    <3>2. PICK h : h = seg[y \div 2]
      OBVIOUS
    <3>3. new[y] = h /\ L[h] \in 0 .. D
      BY <1>11, <1>12, <2>3, <3>1, <3>2, DirTypes
    <3>4. Top(y \div 2, D, L[h]) = Top(y, D + 1, L[h])
      BY <1>14, <2>1, <3>3, TopDouble
    <3> QED
      BY <1>3, <1>4, <1>8, <1>10, <1>15, <3>1, <3>2, <3>3, <3>4 DEF HeldIn
  <2> QED
    BY <2>2, <2>3
<1>16. HeldIn(new, L, D + 1, Safe, mem, pm)
  BY <1>15 DEF HeldIn
<1>17. HeldIn(new, L, D + 1, Safe, mem', pm')
  BY <1>11, <1>16, HeldSegs
<1>18. HeldIn(seg, L, D, Safe, mem', pm')
  <2>1. HeldIn(seg, L, D, Safe, mem, pm)
    BY <1>3, <1>4, <1>8, <1>10
  <2> QED
    BY <1>11, <2>1, HeldSegs
<1>19. ThreadHeld(t)'
  BY <1>3, <1>11, <1>13, <1>18 DEF ThreadHeld, PairPCs
<1>20. HeldIn(Ent', ML', Dep', Safe', mem', pm') /\ HeldIn(Dur', ML', Dep', Safe', mem', pm')
  BY <1>9, <1>11, <1>13, <1>17
<1> QED
  BY <1>3, <1>19, <1>20, HeldNext

\* The stores: the upper entries lead to the new segment.
LEMMA StoreEntriesHeld ==
  ASSUME Inv, HeldOK, Serial, Serial', NEW t \in Threads, StoreEntries(t)
  PROVE  HeldOK'
<1>1. Goto(t, "split", "redirected") /\ loc' = loc /\ acked' = acked
  BY DEF StoreEntries
<1>2. Inv' /\ StoreViews(t)
  BY StoreEntriesInv, SerialSplit
<1>3. /\ Typed /\ Shape /\ SplitOK(t) /\ pc[t] = "split" /\ pc'[t] = "redirected"
      /\ \A u \in Threads : u # t => pc'[u] = "idle"
      /\ HeldIn(Ent, ML, Dep, Safe, mem, pm) /\ HeldIn(Dur, ML, Dep, Safe, mem, pm) /\ ThreadHeld(t)
  <2>1. "split" \in SplitPCs
    BY DEF SplitPCs
  <2> QED
    BY <1>1, <2>1, SerialBegins
<1>4. PICK m : m = ML[loc[t].target]
  OBVIOUS
<1>5. PICK s : s = loc[t].s
  OBVIOUS
<1>6. /\ Dep' = Dep /\ ML' = ML /\ Dur' = Dur /\ mem'.segs = mem.segs /\ pm'.segs = pm.segs
      /\ \A y \in Ix(Dep) : Ent'[y] = IF Upper(t, y) THEN s ELSE Ent[y]
  BY <1>2, <1>5 DEF StoreViews
<1>7. ML[s] = m + 1
  BY <1>3, <1>4, <1>5 DEF SplitOK
<1>8. Safe' = Safe
  BY <1>1 DEF Safe
<1>9. ASSUME NEW k \in Safe, NEW y \in Ix(Dep), Prefix(k, ML[Ent'[y]]) = Top(y, Dep, ML[Ent'[y]])
      PROVE  HasIn(mem, pm, Ent'[y], k)
  <2>1. CASE Upper(t, y)
    <3>1. Ent'[y] = s
      BY <1>6, <2>1
    <3>2. Prefix(k, m + 1) = 2 * Prefix(loc[t].key, m) + 1
      BY <1>4, <1>7, <1>9, <2>1, <3>1 DEF Upper
    <3> QED
      BY <1>3, <1>4, <1>5, <3>1, <3>2 DEF ThreadHeld
  <2>2. CASE ~Upper(t, y)
    <3>1. Ent'[y] = Ent[y]
      BY <1>6, <2>2
    <3> QED
      BY <1>3, <1>9, <3>1 DEF HeldIn
  <2> QED
    BY <2>1, <2>2
<1>10. HeldIn(Ent', ML, Dep, Safe, mem, pm)
  BY <1>9 DEF HeldIn
<1>11. HeldIn(Ent', ML, Dep, Safe, mem', pm') /\ HeldIn(Dur, ML, Dep, Safe, mem', pm')
  BY <1>3, <1>6, <1>10, HeldSegs
<1>12. ThreadHeld(t)'
  BY <1>3 DEF ThreadHeld, PairPCs
<1> QED
  BY <1>3, <1>6, <1>8, <1>11, <1>12, HeldNext

\* The segment that was split keeps what its smaller range needs.
LEMMA RaiseDepthHeld ==
  ASSUME Inv, HeldOK, Serial, Serial', NEW t \in Threads, RaiseDepth(t)
  PROVE  HeldOK'
<1>1. Goto(t, "published", "raised") /\ loc' = loc /\ acked' = acked
  BY DEF RaiseDepth
<1>2. Inv' /\ RaiseViews(t)
  BY RaiseDepthInv, SerialSplit
<1>3. /\ Typed /\ RestOK /\ Intact(mem) /\ Shape /\ SplitOK(t) /\ pc[t] = "published" /\ pc'[t] = "raised"
      /\ loc[t].target \in Segments
      /\ \A u \in Threads : u # t => pc'[u] = "idle"
      /\ HeldIn(Ent, ML, Dep, Safe, mem, pm)
  <2>1. "published" \in SplitPCs
    BY DEF SplitPCs
  <2> QED
    BY <1>1, <2>1, SerialBegins
<1>4. PICK g : g = loc[t].target
  OBVIOUS
<1>5. PICK L : L = ML
  OBVIOUS
<1>6. PICK K : K = [L EXCEPT ![g] = L[g] + 1]
  OBVIOUS
<1>7. PICK D : D = Dep
  OBVIOUS
<1>8. PICK seg : seg = Ent
  OBVIOUS
<1>9. /\ Ent' = seg /\ Dur' = seg /\ Dep' = D /\ PL' = L /\ ML' = K
      /\ pm' = pm /\ \A h \in Segments : mem'.segs[h].bucket = mem.segs[h].bucket
  BY <1>2, <1>4, <1>5, <1>6, <1>7, <1>8 DEF RaiseViews
<1>10. Safe' = Safe
  BY <1>1 DEF Safe
<1>11. /\ DirOK(seg, L, D) /\ \A y \in Ix(D) : seg[y] \in Segments
       /\ g \in DOMAIN L /\ L[g] < D /\ L[g] \in Nat /\ D \in Nat /\ D <= HashBits /\ L[g] \in 0 .. D - 1
       /\ HashBits \in Nat
  <2>1. DirOK(seg, L, D) /\ (\A y \in Ix(D) : seg[y] \in Segments) /\ g \in DOMAIN L
    BY <1>3, <1>4, <1>5, <1>7, <1>8, InUse DEF Shape
  <2>2. L[g] < D
    BY <1>3, <1>4, <1>5, <1>7 DEF SplitOK, Published
  <2>3. D \in 1 .. HashBits /\ HashBits \in Nat /\ L[g] \in Nat /\ D \in Nat
    BY <2>1, DirTypes
  <2> QED
    BY <2>1, <2>2, <2>3
<1>12. HeldIn(seg, L, D, Safe, mem', pm')
  <2>1. HeldIn(seg, L, D, Safe, mem, pm)
    BY <1>3, <1>5, <1>7, <1>8
  <2>2. \A y \in Ix(D) : \A k \in Safe : HasIn(mem, pm, seg[y], k) => HasIn(mem', pm', seg[y], k)
    BY <1>9, <1>11 DEF HasIn
  <2> QED
    BY <2>1, <2>2, HeldKeep
<1>13. ASSUME NEW k \in Safe, NEW y \in Ix(D), Prefix(k, K[seg[y]]) = Top(y, D, K[seg[y]])
       PROVE  HasIn(mem', pm', seg[y], k)
  <2>1. CASE seg[y] = g
    <3>1. K[seg[y]] = L[g] + 1
      BY <1>6, <1>11, <2>1
    <3>2. k \in KeyWords /\ y \in Nat
      BY <1>3, SafeKeys DEF Ix
    <3>3. Prefix(k, L[g]) = Top(y, D, L[g])
      <4>1. Prefix(k, L[g] + 1) = Top(y, D, L[g] + 1)
        BY <1>13, <3>1
      <4> QED
        BY <1>11, <3>2, <4>1, PrefixDrop
    <3> QED
      BY <1>12, <2>1, <3>3 DEF HeldIn
  <2>2. CASE seg[y] # g
    <3>1. K[seg[y]] = L[seg[y]]
      BY <1>6, <1>11, <2>2, DirTypes
    <3> QED
      BY <1>12, <1>13, <3>1 DEF HeldIn
  <2> QED
    BY <2>1, <2>2
<1>14. HeldIn(seg, K, D, Safe, mem', pm')
  BY <1>13 DEF HeldIn
<1>15. ThreadHeld(t)'
  BY <1>3, <1>9, <1>10, <1>12 DEF ThreadHeld, PairPCs
<1> QED
  BY <1>3, <1>9, <1>10, <1>14, <1>15, HeldNext

\* The persists of a split, and its end.
LEMMA LateSplitHeld ==
  ASSUME Inv, HeldOK, Serial, Serial', NEW t \in Threads,
         PersistDir(t) \/ PersistEntries(t) \/ PersistDepth(t) \/ Reopen(t)
  PROVE  HeldOK'
<1>1. PICK from \in SplitPCs, to \in {"published", "reopen", "idle"} : Goto(t, from, to)
  BY DEF PersistDir, PersistEntries, PersistDepth, Reopen, SplitPCs
<1>2. Safe' = Safe
  BY DEF Safe, PersistDir, PersistEntries, PersistDepth, Reopen
<1>3. /\ Typed /\ Intact(mem) /\ pc'[t] = to /\ \A u \in Threads : u # t => pc'[u] = "idle"
      /\ HeldIn(Ent, ML, Dep, Safe, mem, pm)
  BY <1>1, SerialBegins
<1>4. ThreadHeld(t)'
  BY <1>3 DEF ThreadHeld, PairPCs
<1>5. CASE PersistDir(t) \/ PersistEntries(t)
  <2>1. /\ Ent' = Ent /\ (Dur' = Dur \/ Dur' = Ent) /\ Dep' = Dep /\ ML' = ML
        /\ mem'.segs = mem.segs /\ pm'.segs = pm.segs
    BY <1>5, SerialSplit, PersistDirInv, PersistEntriesInv
  <2>2. HeldIn(Dur, ML, Dep, Safe, mem, pm)
    BY <1>3 DEF HeldOK
  <2>3. HeldIn(Ent, ML, Dep, Safe, mem', pm') /\ HeldIn(Dur, ML, Dep, Safe, mem', pm')
    BY <1>3, <2>1, <2>2, HeldSegs
  <2> QED
    BY <1>2, <1>3, <1>4, <2>1, <2>3, HeldNext
<1>6. CASE PersistDepth(t) \/ Reopen(t)
  <2>1. /\ Ent' = Ent /\ Dur' = Dur /\ Dep' = Dep /\ ML' = ML
        /\ \A g \in Segments : mem'.segs[g].bucket = mem.segs[g].bucket /\ pm'.segs[g].bucket = pm.segs[g].bucket
    <3>1. CASE PersistDepth(t)
      BY <3>1, SerialSplit, PersistDepthInv
    <3>2. CASE Reopen(t)
      <4>1. Quiet /\ pm' = pm
        BY <3>2, ReopenInv DEF Reopen
      <4>2. PICK i : i = loc[t].target
        OBVIOUS
      <4>3. SegPut(mem, mem', i, mem.segs[i].bucket, 0, mem.segs[i].local_depth)
        BY <1>3, <3>2, <4>2, ReopenEffect
      <4>4. \A g \in Segments : mem'.segs[g].bucket = mem.segs[g].bucket
        BY <4>3 DEF SegPut, Segments
      <4> QED
        BY <4>1, <4>4, QuietViews
    <3> QED
      BY <1>6, <3>1, <3>2
  <2>2. ASSUME NEW g \in Segments, NEW a \in Safe, HasIn(mem, pm, g, a) PROVE HasIn(mem', pm', g, a)
    BY <2>1, <2>2 DEF HasIn
  <2>3. HeldIn(Ent', ML', Dep', Safe', mem', pm') /\ HeldIn(Dur', ML', Dep', Safe', mem', pm')
    BY <1>2, <1>3, <2>1, <2>2, HeldSame
  <2> QED
    BY <1>3, <1>4, <2>3, HeldNext
<1> QED
  BY <1>5, <1>6

\* An eviction makes durable what loads return.
LEMMA EvictHeld ==
  ASSUME Inv, HeldOK, Serial, Evict
  PROVE  HeldOK'
<1>1. EvictViews /\ Inv'
  BY EvictInv, SerialSplit
<1>2. mem' = mem /\ pc' = pc /\ loc' = loc /\ acked' = acked /\ mode' = mode
  BY DEF Evict
<1>3. SUFFICES ASSUME Intact(mem)
               PROVE  /\ HeldIn(Ent, ML, Dep, Safe, mem, pm)' /\ HeldIn(Dur, ML, Dep, Safe, mem, pm)'
                      /\ \A t \in Threads : ThreadHeld(t)'
  BY <1>2 DEF HeldOK
<1>4. Typed /\ Shape
  BY <1>3 DEF Inv, Live
<1>5. Ent' = Ent /\ ML' = ML /\ Dep' = Dep /\ Safe' = Safe
  BY <1>2 DEF Ent, ML, Dep, Safe
<1>6. ASSUME NEW g \in Segments, NEW a, HasIn(mem, pm, g, a) PROVE HasIn(mem', pm', g, a)
  <2>1. PICK j \in Slots : mem.segs[g].bucket[j] = a /\ pm.segs[g].bucket[j] = a
    BY <1>6 DEF HasIn
  <2>2. pm'.segs[g].bucket[j] \in {pm.segs[g].bucket[j], mem.segs[g].bucket[j]}
    BY <1>1 DEF EvictViews
  <2> QED
    BY <1>2, <2>1, <2>2 DEF HasIn
<1>7. HeldIn(Ent, ML, Dep, Safe, mem, pm) /\ HeldIn(Dur, ML, Dep, Safe, mem, pm)
      /\ \A t \in Threads : ThreadHeld(t)
  BY <1>3 DEF HeldOK
<1>8. \A y \in Ix(Dep) : Ent[y] \in Segments /\ Dur[y] \in Segments
  BY <1>3, <1>4, InUse
<1>9. HeldIn(Ent, ML, Dep, Safe, mem', pm')
  <2>1. \A y \in Ix(Dep) : \A k \in Safe : HasIn(mem, pm, Ent[y], k) => HasIn(mem', pm', Ent[y], k)
    BY <1>6, <1>8
  <2> QED
    BY <1>7, <2>1, HeldKeep
<1>10. HeldIn(Dur, ML, Dep, Safe, mem', pm')
  <2>1. \A y \in Ix(Dep) : \A k \in Safe : HasIn(mem, pm, Dur[y], k) => HasIn(mem', pm', Dur[y], k)
    BY <1>6, <1>8
  <2> QED
    BY <1>7, <2>1, HeldKeep
<1>11. HeldIn(Dur', ML, Dep, Safe, mem', pm')
  <2>1. \A y \in Ix(Dep) : Dur'[y] \in {Dur[y], Ent[y]}
    BY <1>1, <1>3 DEF EvictViews
  <2> QED
    BY <1>9, <1>10, <2>1 DEF HeldIn
<1>12. ASSUME NEW t \in Threads PROVE ThreadHeld(t)'
  <2>1. ThreadHeld(t) /\ ThreadsOK
    BY <1>4, <1>7 DEF Typed
  <2>2. ASSUME pc[t] = "split"
        PROVE  \A k \in Safe :
                 Prefix(k, ML[loc[t].target] + 1) = 2 * Prefix(loc[t].key, ML[loc[t].target]) + 1
                   => HasIn(mem', pm', loc[t].s, k)
    <3>1. loc[t].s \in Segments
      BY <2>1, <2>2 DEF ThreadsOK, LocalsOK, SplitPCs
    <3> QED
      BY <1>6, <2>1, <2>2, <3>1 DEF ThreadHeld
  <2>3. ASSUME pc[t] = "doubled", pm'.dir # mem'.dir
        PROVE  HeldIn(pm'.dirs[pm'.dir].segment, ML, mem.dirs[pm'.dir].depth, Safe, mem', pm')
    <3>1. pm'.dir = pm.dir /\ pm.dir # mem.dir /\ pm.dir \in 1 .. Len(mem.dirs)
      BY <1>1, <1>2, <1>4, <2>3 DEF EvictViews, Typed, ImagesOK
    <3>2. pm'.dirs[pm.dir] = pm.dirs[pm.dir]
      BY <1>1, <3>1 DEF EvictViews
    <3>3. PICK seg : seg = pm.dirs[pm.dir].segment
      OBVIOUS
    <3>4. PICK D : D = mem.dirs[pm.dir].depth
      OBVIOUS
    <3>5. HeldIn(seg, ML, D, Safe, mem, pm)
      BY <2>1, <2>3, <3>1, <3>3, <3>4 DEF ThreadHeld
    <3>6. \A y \in Ix(D) : seg[y] \in Segments
      <4>1. mode = "run" /\ RunOK
        BY <1>4, <2>3 DEF Shape, RecoverOK, Typed, RestOK
      <4>2. OldDir
        BY <2>3, <3>1, <4>1 DEF RunOK, SplitOK
      <4>3. DirOK(seg, ML, D) /\ DOMAIN ML = Segments
        BY <1>3, <1>4, <3>3, <3>4, <4>2, InUse DEF OldDir, Sound
      <4> QED
        BY <4>3, DirTypes
    <3>7. \A y \in Ix(D) : \A k \in Safe : HasIn(mem, pm, seg[y], k) => HasIn(mem', pm', seg[y], k)
      BY <1>6, <3>6
    <3>8. HeldIn(seg, ML, D, Safe, mem', pm')
      BY <3>5, <3>7, HeldKeep
    <3> QED
      BY <3>1, <3>2, <3>3, <3>4, <3>8
  <2>4. ASSUME pc[t] = "raised", PL' # ML
        PROVE  HeldIn(Dur', PL', Dep, Safe, mem', pm')
    <3>1. mode = "run" /\ RunOK /\ RunOK'
      <4>1. mode = "run" /\ RunOK
        BY <1>4, <2>4 DEF Shape, RecoverOK, Typed, RestOK
      <4>2. Intact(mem)'
        BY <1>2, <1>3 DEF Intact, DirOf
      <4> QED
        BY <1>1, <1>2, <4>1, <4>2 DEF Inv, Live, Shape
    <3>2. PL \in [Segments -> InitDepth .. HashBits] /\ PL' \in [Segments -> InitDepth .. HashBits]
          /\ ML \in [Segments -> InitDepth .. HashBits]
      <4>1. Typed' /\ Segments' = Segments
        BY <1>1, <1>2 DEF Inv, Segments
      <4>2. PL' \in [Segments -> InitDepth .. HashBits]
        <5>1. pm' \in Image /\ Len(pm'.segs) = Len(mem'.segs)
          BY <4>1 DEF Typed, ImagesOK
        <5> QED
          BY <1>2, <5>1, LdsTyped DEF PL, Segments
      <4> QED
        BY <1>4, <4>2, DepthsTyped
    <3>3. \A g \in Segments : PL'[g] \in {PL[g], ML[g]}
      BY <1>1 DEF EvictViews
    <3>4. PL # ML
      BY <2>4, <3>2, <3>3
    <3>5. \A g \in Segments : g # loc[t].target => PL[g] = ML[g]
      BY <2>4, <3>1, <3>4 DEF RunOK, SplitOK
    <3>6. PL' = PL
      BY <2>4, <3>2, <3>3, <3>5
    <3>7. HeldIn(Dur, PL, Dep, Safe, mem, pm)
      BY <2>1, <2>4, <3>4 DEF ThreadHeld
    <3>8. \A y \in Ix(Dep) : \A k \in Safe : HasIn(mem, pm, Dur[y], k) => HasIn(mem', pm', Dur[y], k)
      BY <1>6, <1>8
    <3>9. HeldIn(Dur, PL, Dep, Safe, mem', pm')
      BY <3>7, <3>8, HeldKeep
    <3>10. Dur = Ent
      <4>1. OneSplit
        BY SerialSplit
      <4>2. \A u \in Threads : pc[u] # "redirected"
        BY <2>4, <4>1, Alone DEF SplitPCs
      <4> QED
        BY <3>1, <4>2 DEF RunOK
    <3>11. \A y \in Ix(Dep) : Dur'[y] = Dur[y]
      BY <1>1, <1>3, <3>10 DEF EvictViews
    <3> QED
      BY <3>6, <3>9, <3>11 DEF HeldIn
  <2>5. ASSUME pc[t] = "persisted"
        PROVE  pm'.segs[loc[t].target].bucket[loc[t].slot] = loc[t].key
    <3>1. loc[t].target \in Segments /\ loc[t].slot \in Slots
      BY <1>4, <2>5, PairLocals DEF PairPCs
    <3>2. pm'.segs[loc[t].target].bucket[loc[t].slot] \in
            {pm.segs[loc[t].target].bucket[loc[t].slot], mem.segs[loc[t].target].bucket[loc[t].slot]}
      BY <1>1, <3>1 DEF EvictViews
    <3> QED
      BY <2>1, <2>5, <3>2 DEF ThreadHeld
  <2> QED
    BY <1>2, <1>5, <2>1, <2>2, <2>3, <2>4, <2>5 DEF ThreadHeld
<1> QED
  BY <1>5, <1>9, <1>11, <1>12

\* A power failure keeps what was in both images.
LEMMA CrashHeld ==
  ASSUME Inv, HeldOK, Serial, Crash
  PROVE  HeldOK'
<1>1. mem' = pm /\ pm' = pm /\ acked' = acked /\ pc' = [t \in Threads |-> "idle"]
  BY DEF Crash
<1>2. \A t \in Threads : ThreadHeld(t)'
  BY <1>1 DEF ThreadHeld, PairPCs
<1>3. Ent' = DirOf(pm).segment /\ Dur' = DirOf(pm).segment /\ Dep' = DirOf(pm).depth /\ ML' = PL /\ Safe' = Safe
      /\ (Intact(mem)' <=> Intact(pm))
  BY <1>1 DEF Ent, Dur, Dep, ML, PL, DirOf, Safe, Intact
<1>4. SUFFICES ASSUME Intact(pm)
               PROVE  HeldIn(DirOf(pm).segment, PL, DirOf(pm).depth, Safe, mem, pm)
  <2>1. ASSUME HeldIn(DirOf(pm).segment, PL, DirOf(pm).depth, Safe, mem, pm)
        PROVE  HeldIn(DirOf(pm).segment, PL, DirOf(pm).depth, Safe, pm, pm)
    BY <2>1 DEF HeldIn, HasIn
  <2> QED
    BY <1>1, <1>2, <1>3, <2>1 DEF HeldOK
<1>5. /\ Intact(mem) /\ Typed /\ Shape /\ DirOf(pm).depth > 0
      /\ HeldIn(Dur, ML, Dep, Safe, mem, pm) /\ \A t \in Threads : ThreadHeld(t)
  BY <1>4 DEF Inv, Dead, Live, HeldOK, Intact
<1>6. pm.dir = mem.dir => DirOf(pm).segment = Dur /\ DirOf(pm).depth = Dep
  <2>1. pm.dirs[mem.dir].depth \in {0, Dep}
    BY <1>5, InUse
  <2> QED
    BY <1>5, <2>1 DEF DirOf, Dur
<1>7. CASE pm.dir = mem.dir /\ PL = ML
  BY <1>5, <1>6, <1>7
<1>8. CASE PL # ML
  <2>1. mode = "run" /\ RunOK
    BY <1>5, <1>8 DEF Shape, RecoverOK, Typed, RestOK
  <2>2. PICK t \in Threads : pc[t] = "raised"
    BY <1>8, <2>1 DEF RunOK
  <2>3. OneSplit
    BY SerialSplit
  <2>4. \A u \in Threads : pc[u] # "doubled"
    BY <2>2, <2>3, Alone DEF SplitPCs
  <2>5. pm.dir = mem.dir
    BY <2>1, <2>4 DEF RunOK
  <2>6. HeldIn(Dur, PL, Dep, Safe, mem, pm)
    BY <1>5, <1>8, <2>2 DEF ThreadHeld
  <2> QED
    BY <1>6, <2>5, <2>6
<1>9. CASE pm.dir # mem.dir /\ PL = ML
  <2>1. mode = "run" /\ RunOK
    BY <1>5, <1>9 DEF Shape, RecoverOK, Typed, RestOK
  <2>2. PICK t \in Threads : pc[t] = "doubled"
    BY <1>9, <2>1 DEF RunOK
  <2>3. OldDir
    BY <1>9, <2>1, <2>2 DEF RunOK, SplitOK
  <2>4. DirOf(pm).depth = mem.dirs[pm.dir].depth
    BY <1>5, <2>3 DEF OldDir, DirOf
  <2>5. HeldIn(pm.dirs[pm.dir].segment, ML, mem.dirs[pm.dir].depth, Safe, mem, pm)
    BY <1>5, <1>9, <2>2 DEF ThreadHeld
  <2> QED
    BY <1>9, <2>4, <2>5 DEF DirOf
<1> QED
  BY <1>7, <1>8, <1>9

\* Recovery sets an entry back to a segment that has the keys of the group.
LEMMA RecoverGroupHeld ==
  ASSUME Inv, HeldOK, RecoverGroup
  PROVE  HeldOK'
<1>1. RecoverViews /\ Inv'
  BY RecoverGroupInv
<1>2. pc' = pc /\ loc' = loc /\ acked' = acked /\ mode = "recover" /\ Intact(mem)
  BY <1>1 DEF RecoverGroup, RecoverViews
<1>3. /\ Typed /\ Shape /\ RecoverOK
      /\ HeldIn(Ent, ML, Dep, Safe, mem, pm) /\ HeldIn(Dur, ML, Dep, Safe, mem, pm)
  BY <1>2 DEF Inv, Live, Shape, HeldOK
<1>4. \A t \in Threads : ThreadHeld(t)'
  BY <1>2, <1>3 DEF ThreadHeld, RecoverOK, PairPCs
<1>5. PICK D : D = Dep
  OBVIOUS
<1>6. PICK L : L = ML
  OBVIOUS
<1>7. PICK seg : seg = Ent
  OBVIOUS
<1>8. PICK b : b = ri
  OBVIOUS
<1>9. PICK w : w = Pow2[D - L[seg[b]]]
  OBVIOUS
<1>10. \E B : Leaders(B, seg, L, D) /\ b \in B
  BY <1>2, <1>3, <1>5, <1>6, <1>7, <1>8 DEF Shape, SameLeaders
<1>11. PICK B : Leaders(B, seg, L, D) /\ b \in B
  BY <1>10
<1>12. DirOK(seg, L, D)
  BY <1>3, <1>5, <1>6, <1>7 DEF Shape
<1>13. /\ w \in Nat \ {0}
       /\ \A x \in Ix(D) : InGroup(b, x, seg, L, D) <=> x \in b .. b + w - 1
  BY <1>9, <1>11, <1>12, LeaderNext
<1>14. b \in Ix(D) /\ b \in Nat
  BY <1>11 DEF Leaders, Ix
<1>15. ri' = b + w /\ Dep' = D /\ ML' = L /\ Dur' = Dur /\ mem'.segs = mem.segs /\ pm'.segs = pm.segs
  BY <1>1, <1>5, <1>6, <1>7, <1>8, <1>9 DEF RecoverViews
<1>16. ASSUME NEW x \in Ix(D) PROVE Ent'[x] = seg[x] \/ (Ent'[x] = seg[b] /\ InGroup(b, x, seg, L, D))
  <2>1. Ent'[x] = IF x \in b + 1 .. ri' - 1 /\ L[seg[x]] # L[seg[b]] THEN seg[b] ELSE seg[x]
    BY <1>1, <1>5, <1>6, <1>7, <1>8 DEF RecoverViews
  <2>2. x \in b + 1 .. ri' - 1 => x \in b .. b + w - 1
    BY <1>13, <1>14, <1>15
  <2> QED
    BY <1>13, <2>1, <2>2
<1>17. HeldIn(seg, L, D, Safe, mem, pm)
  BY <1>3, <1>5, <1>6, <1>7
<1>18. HeldIn(Ent', L, D, Safe, mem, pm)
  <2>1. ASSUME NEW k \in Safe, NEW y \in Ix(D), Prefix(k, L[Ent'[y]]) = Top(y, D, L[Ent'[y]])
        PROVE  HasIn(mem, pm, Ent'[y], k)
    <3>1. CASE Ent'[y] = seg[y]
      BY <1>17, <2>1, <3>1 DEF HeldIn
    <3>2. CASE Ent'[y] = seg[b] /\ InGroup(b, y, seg, L, D)
      BY <1>14, <1>17, <2>1, <3>2 DEF HeldIn, InGroup
    <3> QED
      BY <1>16, <3>1, <3>2
  <2> QED
    BY <2>1 DEF HeldIn
<1>19. HeldIn(Ent', L, D, Safe, mem', pm')
  BY <1>15, <1>18, HeldSegs
<1>20. HeldIn(Dur, L, D, Safe, mem', pm')
  <2>1. HeldIn(Dur, L, D, Safe, mem, pm)
    BY <1>3, <1>5, <1>6
  <2> QED
    BY <1>15, <2>1, HeldSegs
<1>21. Safe' = Safe
  BY <1>2 DEF Safe
<1> QED
  BY <1>4, <1>15, <1>19, <1>20, <1>21 DEF HeldOK

\* The end of Recovery.
LEMMA EndRecoveryHeld ==
  ASSUME Inv, HeldOK, EndRecovery
  PROVE  HeldOK'
<1>1. mem' = mem /\ pm'.segs = pm.segs /\ ML' = ML /\ (Intact(mem) => Dur' = Ent)
  BY EndRecoveryInv
<1>2. pc' = pc /\ loc' = loc /\ acked' = acked /\ mode = "recover"
  BY DEF EndRecovery
<1>3. SUFFICES ASSUME Intact(mem)
               PROVE  /\ HeldIn(Ent, ML, Dep, Safe, mem, pm)' /\ HeldIn(Dur, ML, Dep, Safe, mem, pm)'
                      /\ \A t \in Threads : ThreadHeld(t)'
  BY <1>1 DEF HeldOK
<1>4. RecoverOK /\ HeldIn(Ent, ML, Dep, Safe, mem, pm)
  BY <1>2, <1>3 DEF Inv, Live, Shape, HeldOK
<1>5. \A t \in Threads : ThreadHeld(t)'
  BY <1>2, <1>4 DEF ThreadHeld, RecoverOK, PairPCs
<1>6. Ent' = Ent /\ Dur' = Ent /\ Dep' = Dep /\ Safe' = Safe
  BY <1>1, <1>2, <1>3 DEF Ent, Dep, Safe
<1>7. HeldIn(Ent, ML, Dep, Safe, mem', pm')
  BY <1>1, <1>4, HeldSegs
<1> QED
  BY <1>1, <1>5, <1>6, <1>7

\* Every step keeps the acknowledged keys where lookups end.
LEMMA NextHeld ==
  ASSUME Inv, Whole, HeldOK, Serial, Serial', [Next]_vars
  PROVE  HeldOK'
<1>1. ASSUME NEW t \in Threads, InsertStep(t)
      PROVE  HeldOK'
  BY <1>1, ClaimHeld, StoreKeyHeld, PersistPairHeld, ReturnInsertHeld, SplitHeld, DoubleDirHeld,
     StoreEntriesHeld, RaiseDepthHeld, LateSplitHeld DEF InsertStep
<1>2. ASSUME UNCHANGED vars PROVE HeldOK'
  <2>1. mem' = mem /\ pm' = pm /\ pc' = pc /\ loc' = loc /\ acked' = acked
    BY <1>2 DEF vars
  <2>2. /\ Ent' = Ent /\ Dur' = Dur /\ Dep' = Dep /\ ML' = ML /\ PL' = PL /\ Safe' = Safe
        /\ (Intact(mem)' <=> Intact(mem))
    BY <2>1 DEF Ent, Dur, Dep, ML, PL, Safe, Intact
  <2>3. ASSUME NEW t \in Threads, ThreadHeld(t) PROVE ThreadHeld(t)'
    BY <2>1, <2>2, <2>3 DEF ThreadHeld
  <2> QED
    BY <2>1, <2>2, <2>3 DEF HeldOK
<1> QED
  BY <1>1, <1>2, EvictHeld, CrashHeld, RecoverGroupHeld, EndRecoveryHeld DEF Next

-----------------------------------------------------------------------------
(* The theorems about acknowledged keys                                     *)

\* An acknowledged key outside the last block is found once Recovery has run.
AckedElsewhere == (mode = "run" /\ Intact(mem)) => \A k \in Safe : Found(k)

\* A key is held where its entry leads.
LEMMA HeldFound ==
  ASSUME Inv, HeldOK
  PROVE  AckedElsewhere
<1>1. SUFFICES ASSUME mode = "run", Intact(mem), NEW k \in Safe
               PROVE  Found(k)
  BY DEF AckedElsewhere
<1>2. Typed /\ Shape /\ RestOK /\ HeldIn(Ent, ML, Dep, Safe, mem, pm)
  BY <1>1 DEF Inv, Typed, Live, HeldOK
<1>3. k \in KeyWords /\ Dep \in InitDepth .. HashBits
  BY <1>1, <1>2, SafeKeys, InUse
<1>4. PICK y : y = Prefix(k, Dep)
  OBVIOUS
<1>5. y \in Ix(Dep)
  BY <1>3, <1>4, KeyEntry
<1>6. ML[Ent[y]] \in 0 .. Dep
  BY <1>2, <1>5, DirTypes DEF Shape
<1>7. Prefix(k, ML[Ent[y]]) = Top(y, Dep, ML[Ent[y]])
  BY <1>3, <1>4, <1>6, KeyEntry
<1>8. PICK j \in Slots : mem.segs[Ent[y]].bucket[j] = k
  BY <1>2, <1>5, <1>7 DEF HeldIn, HasIn
<1>9. HomeIn(mem, k) = Ent[y]
  BY <1>4 DEF HomeIn, Ent, Dep
<1> QED
  BY <1>8, <1>9 DEF Found

\* At first no key is acknowledged.
LEMMA InitHeld ==
  ASSUME Init
  PROVE  HeldOK
BY DEF Init, HeldOK, HeldIn, Safe, ThreadHeld, PairPCs

\* With one Insert at a time, acknowledged keys are in both images wherever a
\* lookup may end.
THEOREM RecoveryHeld == Spec /\ []Serial => [](Inv /\ HeldOK)
<1>1. Init => HeldOK
  BY InitHeld
<1>2. Inv /\ Whole /\ HeldOK /\ Serial /\ Serial' /\ [Next]_vars => HeldOK'
  BY NextHeld
<1>3. Serial => OneSplit
  BY SerialSplit
<1> QED
  BY <1>1, <1>2, <1>3, RecoveryInv, RecoveryWhole, PTL DEF Spec

\* A key whose Insert has returned is found after any number of power failures
\* at any point of later Inserts and of Recovery, if it does not belong to the
\* block that ends the directory.
THEOREM RecoveryAckedElsewhere == Spec /\ []Serial => []AckedElsewhere
<1>1. Inv /\ HeldOK => AckedElsewhere
  BY HeldFound
<1> QED
  BY <1>1, RecoveryHeld, PTL

\* If no key of the workload does, none is ever lost: the property of the run,
\* for every number of slots, hash bits and failures.
THEOREM RecoveryAckedSurvive == Spec /\ []Serial => [](Elsewhere => AckedSurvive)
<1>1. Inv /\ AckedElsewhere => (Elsewhere => AckedSurvive)
  BY DEF AckedElsewhere, Elsewhere, AckedSurvive, Safe, Inv, Typed, RestOK
<1> QED
  BY <1>1, RecoveryHeld, RecoveryAckedElsewhere, PTL

\* What the runs check with one inserting thread, without a hypothesis on the
\* behaviour: one thread is never in two Inserts.
THEOREM RecoveryOneThread ==
  ASSUME \A t, u \in Threads : t = u
  PROVE  Spec => [](DepthAfterEntries /\ (Elsewhere => ShapeRestored /\ AckedSurvive))
<1>1. Serial
  BY DEF Serial
<1>2. OneSplit
  BY DEF OneSplit
<1> QED
  BY <1>1, <1>2, RecoveryDepthAfterEntries, RecoveryShapeRestored, RecoveryAckedSurvive, PTL
=============================================================================

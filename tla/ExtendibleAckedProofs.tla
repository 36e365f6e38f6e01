----------------------- MODULE ExtendibleAckedProofs -----------------------
(***************************************************************************)
(* AckedStay: what the blocks hold.  A slot that has a key keeps it; a     *)
(* block that is split is full, and its two halves have all its pairs,     *)
(* written back, before the directory has them.  So a pair can only be     *)
(* missed where the directory does not lead to its block, and Directory    *)
(* (ExtendibleHashProofs) says where that is.                              *)
(*                                                                         *)
(* GetSound: an entry of an older array leads to a block that was split or *)
(* where the newest array leads, so a thread that puts its key into a      *)
(* block that was not split puts it where it is looked up.                 *)
(***************************************************************************)
EXTENDS ExtendibleHashProofs

\* Threads between Lock and Unlock.
HoldPCs == {"i_probe", "i_value", "i_key", "i_unlock"}
Holders(b) == {t \in Threads : pc[t] \in HoldPCs /\ loc[t].target = b}

\* sema counts the threads inside; Split takes one off.
SemaOK ==
  \A b \in Pointers :
    blocks[b].sema = Cardinality(Holders(b)) - (IF blocks[b].split = TRUE THEN 1 ELSE 0)

\* A thread that has taken a slot and not yet written the key.
Taken(t) == pc[t] \in {"i_value", "i_key"}

\* A taken slot belongs to one thread.
SlotsOwned ==
  /\ \A t \in Threads : Taken(t) =>
       loc[t].ret \in Slots /\ Target(t).slot[loc[t].ret].key = SENTINEL
  /\ \A t, u \in Threads : Taken(t) /\ Taken(u) /\ t # u =>
       loc[t].target # loc[u].target \/ loc[t].ret # loc[u].ret
  /\ \A b \in Pointers : \A j \in Slots : blocks[b].slot[j].key = SENTINEL =>
       \E t \in Threads : Taken(t) /\ loc[t].target = b /\ loc[t].ret = j

\* A thread that goes for a split has seen no free slot.
SawFull(t) == (pc[t] = "i_unlock" /\ loc[t].ret = -1) \/ pc[t] = "i_split"
FullSeen ==
  \A t \in Threads : SawFull(t) => \A j \in Slots : Target(t).slot[j].key # INVALID

SplitFull ==
  \A b \in Pointers : blocks[b].split = TRUE => \A j \in Slots : blocks[b].slot[j].key \in Keys

KeysBelong ==
  \A b \in Pointers : \A j \in Slots :
    blocks[b].slot[j].key \in Keys => Belongs(blocks[b], blocks[b].slot[j].key)

\* The halves of a block that is being split have its pairs.
HalvesAt(t) ==
  Busy(t) => \A j \in Slots :
    \E h \in {loc[t].s[1], loc[t].s[2]} : Holds(h, Target(t).slot[j].key)
HalvesHold == \A t \in Threads : HalvesAt(t)

\* The directory no longer leads to a block that was split, once the updates
\* that are under way are made.
Gone(b) == blocks[b].split = TRUE /\ \A t \in Threads : ~(Pending(t) /\ loc[t].target = b)

\* A block found in an array is still where it was found, or replaced.
FoundPCs == {"i_gate", "i_lock", "i_probe", "i_value", "i_key", "i_unlock", "i_flusharr",
             "i_flushentry"}
FoundAt(t) ==
  /\ pc[t] \in FoundPCs => Gone(loc[t].target) \/ Current[loc[t].x] = loc[t].target
  /\ pc[t] = "i_flushentry" =>
       Gone(loc[t].target) \/ arrays[loc[t].arr][loc[t].x] = loc[t].target
EntriesFound ==
  \A a \in 1 .. Newest : \A x \in Entries(a) :
    Gone(arrays[a][x]) \/ Current[x] = arrays[a][x]
FoundOK == EntriesFound /\ \A t \in Threads : FoundAt(t)

\* The entry of a key, and whether its block has the pair, written back.
EntryOf(k) == Hash[k] % Pow2[DepthOf(Newest)]
Kept(k) == \E b \in Reached(EntryOf(k)) : Holds(b, k)

\* The pair of a replaced block, of a thread that is about to write it back,
\* and of an Insert that has returned.
HasPair(t) == Target(t).slot[loc[t].ret].key = Key(t)
PairAt(t) ==
  /\ (pc[t] = "i_unlock" /\ loc[t].ret # -1) \/ pc[t] \in {"i_flusharr", "i_flushentry"} =>
       HasPair(t)
  /\ pc[t] = "i_flush" => HasPair(t) \/ Kept(Key(t))
PairOK == \A t \in Threads : PairAt(t)

BlockKept(b) == \A j \in Slots : Kept(blocks[b].slot[j].key)
GoneKept == \A b \in Pointers : Gone(b) => BlockKept(b)

AckedKept == \A k \in acked : Kept(k)

BlocksOK == SemaOK /\ SlotsOwned /\ FullSeen /\ SplitFull /\ KeysBelong

Content ==
  /\ BlocksOK /\ HalvesHold /\ FoundOK /\ PairOK /\ GoneKept /\ AckedKept

Contents == "resplit" \notin races => Content

-----------------------------------------------------------------------------
(* The halves of a full block                                               *)

\* What v, the slots of a half, holds of the first i slots of b.
HalfSoFar(b, bit, i, v) ==
  /\ \A j \in Slots : v[j].key = INVALID \/
       \E l \in Slots : v[j] = b.slot[l] /\ Bit(Hash[b.slot[l].key], b.local_depth) = bit
  /\ \A j \in Slots : j >= i => v[j].key = INVALID
  /\ \A l \in Slots : l < i /\ Bit(Hash[b.slot[l].key], b.local_depth) = bit =>
       \E j \in Slots : v[j] = b.slot[l]

\* One turn of the loop: the pair goes to a free slot.
LEMMA HalfTurn ==
  ASSUME NEW b \in Block, NEW bit \in {0, 1}, NEW i \in Slots, NEW v \in [Slots -> Pair],
         b.slot[i].key # INVALID, HalfSoFar(b, bit, i, v),
         Bit(Hash[b.slot[i].key], b.local_depth) = bit,
         \A l \in Slots : b.slot[l].key # INVALID
  PROVE  HalfSoFar(b, bit, i + 1, Insert4split(v, b.slot[i]))
<1> DEFINE free == {j \in Slots : v[j].key = INVALID}
           f == First(free)
           w == [v EXCEPT ![f] = b.slot[i]]
<1>0. Slots \subseteq Nat
  BY DEF Slots
<1>1. i \in free
  BY <1>0 DEF HalfSoFar
<1>2. f \in free /\ f <= i
  <2> HIDE DEF free
  <2>1. free \in SUBSET Nat
    BY <1>0 DEF free
  <2> QED
    BY <1>1, <2>1, FirstIn
<1>3. Insert4split(v, b.slot[i]) = w
  BY <1>1 DEF Insert4split
<1>4. f \in Slots /\ v[f].key = INVALID
  BY <1>2
<1> HIDE DEF f, free
<1>5. w[f] = b.slot[i] /\ \A j \in Slots \ {f} : w[j] = v[j]
  BY <1>4
<1> HIDE DEF w
<1>6. \A j \in Slots : w[j].key = INVALID \/
        \E l \in Slots : w[j] = b.slot[l] /\ Bit(Hash[b.slot[l].key], b.local_depth) = bit
  BY <1>5 DEF HalfSoFar
<1>7. \A j \in Slots : j >= i + 1 => w[j].key = INVALID
  <2> SUFFICES ASSUME NEW j \in Slots, j >= i + 1 PROVE w[j].key = INVALID
    OBVIOUS
  <2>1. j # f /\ j >= i
    BY <1>0, <1>2, <1>4
  <2> QED
    BY <1>5, <2>1 DEF HalfSoFar
<1>8. ASSUME NEW l \in Slots, l < i + 1, Bit(Hash[b.slot[l].key], b.local_depth) = bit
      PROVE  \E j \in Slots : w[j] = b.slot[l]
  <2>1. CASE l = i
    BY <1>4, <1>5, <2>1
  <2>2. CASE l # i
    <3>1. l < i
      BY <1>0, <1>8, <2>2
    <3>2. PICK j \in Slots : v[j] = b.slot[l]
      BY <1>8, <3>1 DEF HalfSoFar
    <3>3. j # f
      BY <1>4, <3>2
    <3> QED
      BY <1>5, <3>2, <3>3
  <2> QED
    BY <2>1, <2>2
<1> QED
  BY <1>3, <1>6, <1>7, <1>8 DEF HalfSoFar

\* The half has the keys of the block with this bit, written back, and no other.
HalfHas(b, bit) ==
  /\ \A j \in Slots : Half(b, bit)[j].key = INVALID \/
       \E l \in Slots : /\ Half(b, bit)[j].key = b.slot[l].key
                        /\ Half(b, bit)[j].value = b.slot[l].value
                        /\ Bit(Hash[b.slot[l].key], b.local_depth) = bit
  /\ \A l \in Slots : Bit(Hash[b.slot[l].key], b.local_depth) = bit =>
       \E j \in Slots : /\ Half(b, bit)[j].key = b.slot[l].key
                        /\ Half(b, bit)[j].durable = TRUE

\* A half of a full block has the keys of its bit: no turn lacks a free slot.
LEMMA HalfContent ==
  ASSUME NEW b \in Block, NEW bit \in {0, 1}, \A l \in Slots : b.slot[l].key # INVALID
  PROVE  HalfHas(b, bit)
<1>0. NumSlot \in Nat /\ NumSlot # 0
  BY ExtendibleAssumption
<1>1. PICK U \in [0 .. NumSlot -> [Slots -> Pair]] :
        /\ U[0] = [j \in Slots |-> Empty] /\ Copied(b, bit) = U[NumSlot]
        /\ \A i \in 0 .. NumSlot - 1 :
             U[i + 1] = IF Bit(Hash[b.slot[i].key], b.local_depth) = bit
                        THEN Insert4split(U[i], b.slot[i]) ELSE U[i]
  BY CopiedLoop
<1> DEFINE T == {i \in 0 .. NumSlot : HalfSoFar(b, bit, i, U[i])}
<1>2. 0 \in T
  <2>1. \A j \in Slots : U[0][j].key = INVALID
    BY <1>1 DEF Empty
  <2>2. \A l \in Slots : ~(l < 0)
    BY DEF Slots
  <2> QED
    BY <1>0, <2>1, <2>2 DEF HalfSoFar
<1>3. \A i \in 0 .. NumSlot - 1 : i \in T => i + 1 \in T
  <2> SUFFICES ASSUME NEW i \in 0 .. NumSlot - 1, HalfSoFar(b, bit, i, U[i])
               PROVE  i + 1 \in 0 .. NumSlot /\ HalfSoFar(b, bit, i + 1, U[i + 1])
    BY <1>0
  <2>1. i + 1 \in 0 .. NumSlot /\ i \in 0 .. NumSlot /\ i \in Slots /\ U[i] \in [Slots -> Pair]
    BY <1>0, <1>1 DEF Slots
  <2>2. CASE Bit(Hash[b.slot[i].key], b.local_depth) = bit
    BY <1>1, <2>1, <2>2, HalfTurn
  <2>3. CASE Bit(Hash[b.slot[i].key], b.local_depth) # bit
    <3>1. U[i + 1] = U[i]
      BY <1>1, <2>3
    <3>2. PICK v : v = U[i]
      OBVIOUS
    <3>3. \A j \in Slots : j >= i + 1 => v[j].key = INVALID
      <4>1. \A j \in Slots : j >= i + 1 => j >= i
        BY <2>1 DEF Slots
      <4> QED
        BY <3>2, <4>1 DEF HalfSoFar
    <3>4. \A l \in Slots : l < i + 1 /\ Bit(Hash[b.slot[l].key], b.local_depth) = bit =>
            \E j \in Slots : v[j] = b.slot[l]
      <4>1. \A l \in Slots : l < i + 1 => l < i \/ l = i
        BY <2>1 DEF Slots
      <4> QED
        BY <2>3, <3>2, <4>1 DEF HalfSoFar
    <3>5. HalfSoFar(b, bit, i + 1, v)
      BY <3>2, <3>3, <3>4 DEF HalfSoFar
    <3> QED
      BY <2>1, <3>1, <3>2, <3>5
  <2> QED
    BY <2>2, <2>3
<1> HIDE DEF T
<1>4. NumSlot \in T
  <2>1. 0 .. NumSlot \subseteq T
    BY <1>0, <1>2, <1>3, BoundedInduction
  <2> QED
    BY <1>0, <2>1
<1>5. PICK v \in [Slots -> Pair] : v = Copied(b, bit) /\ HalfSoFar(b, bit, NumSlot, v)
  BY <1>0, <1>1, <1>4 DEF T
<1>6. \A j \in Slots : Half(b, bit)[j] = [v[j] EXCEPT !.durable = TRUE]
  BY <1>5 DEF Half
<1>7. \A p \in Pair : /\ [p EXCEPT !.durable = TRUE].key = p.key
                      /\ [p EXCEPT !.durable = TRUE].value = p.value
                      /\ [p EXCEPT !.durable = TRUE].durable = TRUE
  BY DEF Pair
<1>8. \A j \in Slots : /\ Half(b, bit)[j].key = v[j].key /\ Half(b, bit)[j].value = v[j].value
                       /\ Half(b, bit)[j].durable = TRUE
  <2> TAKE j \in Slots
  <2>1. PICK q \in Pair : q = v[j]
    BY <1>5
  <2>2. Half(b, bit)[j] = [q EXCEPT !.durable = TRUE]
    BY <1>6, <2>1
  <2>3. PICK r : /\ r = [q EXCEPT !.durable = TRUE]
                 /\ r.key = q.key /\ r.value = q.value /\ r.durable = TRUE
    BY <1>7
  <2> QED
    BY <2>1, <2>2, <2>3
<1>9. \A l \in Slots : l < NumSlot
  BY <1>0 DEF Slots
<1> QED
  BY <1>5, <1>8, <1>9 DEF HalfSoFar, HalfHas

-----------------------------------------------------------------------------
(* The slots of a block                                                     *)

Others(t) == \A u \in Threads \ {t} : pc'[u] = pc[u] /\ loc'[u] = loc[u] /\ todo'[u] = todo[u]

SameSlot(b, j) ==
  /\ blocks'[b].slot[j].key = blocks[b].slot[j].key
  /\ blocks[b].slot[j].durable = TRUE => blocks'[b].slot[j].durable = TRUE

\* Every slot but one is as it was.
SameBut(b0, j0) ==
  \A b \in Pointers, j \in Slots : b # b0 \/ j # j0 => SameSlot(b, j)

\* What a step of t, other than a split, does to the slots: nothing, or it
\* takes a free slot, or it writes its key to the slot that it has.
KeepsSlots(t) ==
  /\ \A b \in Pointers, j \in Slots : SameSlot(b, j)
  /\ Taken(t)' <=> Taken(t)
  /\ Taken(t) => loc'[t].target = loc[t].target /\ loc'[t].ret = loc[t].ret

TakesSlot(t) ==
  /\ ~Taken(t) /\ Taken(t)' /\ loc'[t].target = loc[t].target /\ loc'[t].ret \in Slots
  /\ SameBut(loc[t].target, loc'[t].ret)
  /\ Target(t).slot[loc'[t].ret].key = INVALID
  /\ blocks'[loc[t].target].slot[loc'[t].ret].key = SENTINEL

FillsSlot(t) ==
  /\ pc[t] = "i_key" /\ ~Taken(t)' /\ loc[t].ret \in Slots
  /\ SameBut(loc[t].target, loc[t].ret)
  /\ blocks'[loc[t].target].slot[loc[t].ret].key = Key(t)

SlotMove(t) == SameBlocks /\ Others(t) /\ (KeepsSlots(t) \/ TakesSlot(t) \/ FillsSlot(t))

\* A slot that is taken is written by the thread that took it only.
LEMMA SlotsOwnedKept ==
  ASSUME Inv, SlotsOwned, NEW t \in Threads, SlotMove(t)
  PROVE  SlotsOwned'
<1>0. /\ INVALID # SENTINEL /\ SENTINEL \notin Keys /\ Pointers' = Pointers
      /\ loc[t].target \in Pointers
      /\ \A u \in Threads \ {t} : (Taken(u)' <=> Taken(u)) /\ loc'[u] = loc[u] /\ loc[u].target \in Pointers
  BY ExtendibleAssumption, BusyFacts DEF SlotMove, SameBlocks, Others, Taken
<1>1. \A u \in Threads : Taken(u) =>
        /\ loc[u].ret \in Slots /\ loc[u].target \in Pointers
        /\ blocks[loc[u].target].slot[loc[u].ret].key = SENTINEL
  BY BusyFacts DEF SlotsOwned, Target
<1>2. \A u, v \in Threads : Taken(u) /\ Taken(v) /\ u # v =>
        loc[u].target # loc[v].target \/ loc[u].ret # loc[v].ret
  BY DEF SlotsOwned
<1>3. \A b \in Pointers : \A j \in Slots : blocks[b].slot[j].key = SENTINEL =>
       \E u \in Threads : Taken(u) /\ loc[u].target = b /\ loc[u].ret = j
  BY DEF SlotsOwned
<1>4. SUFFICES
        /\ \A u \in Threads : Taken(u)' =>
             /\ loc'[u].ret \in Slots
             /\ blocks'[loc'[u].target].slot[loc'[u].ret].key = SENTINEL
        /\ \A u, v \in Threads : Taken(u)' /\ Taken(v)' /\ u # v =>
             loc'[u].target # loc'[v].target \/ loc'[u].ret # loc'[v].ret
        /\ \A b \in Pointers : \A j \in Slots : blocks'[b].slot[j].key = SENTINEL =>
             \E u \in Threads : Taken(u)' /\ loc'[u].target = b /\ loc'[u].ret = j
  BY <1>0 DEF SlotsOwned, Target
<1>5. CASE KeepsSlots(t)
  <2>1. \A u \in Threads : /\ Taken(u)' <=> Taken(u)
                           /\ Taken(u) => loc'[u].target = loc[u].target /\ loc'[u].ret = loc[u].ret
    BY <1>0, <1>5 DEF KeepsSlots
  <2>2. \A b \in Pointers, j \in Slots : blocks'[b].slot[j].key = blocks[b].slot[j].key
    BY <1>5 DEF KeepsSlots, SameSlot
  <2> QED
    BY <1>1, <1>2, <1>3, <2>1, <2>2
<1>6. CASE TakesSlot(t)
  <2> DEFINE b0 == loc[t].target
             j0 == loc'[t].ret
  <2>1. /\ ~Taken(t) /\ Taken(t)' /\ loc'[t].target = b0 /\ j0 \in Slots
        /\ \A b \in Pointers, j \in Slots : b # b0 \/ j # j0 =>
             blocks'[b].slot[j].key = blocks[b].slot[j].key
        /\ blocks[b0].slot[j0].key = INVALID /\ blocks'[b0].slot[j0].key = SENTINEL
    BY <1>6 DEF TakesSlot, SameBut, SameSlot, Target
  <2>2. \A u \in Threads \ {t} : Taken(u) => loc[u].target # b0 \/ loc[u].ret # j0
    BY <1>0, <1>1, <2>1
  <2> HIDE DEF b0, j0
  <2>3. \A u \in Threads : Taken(u)' =>
             /\ loc'[u].ret \in Slots
             /\ blocks'[loc'[u].target].slot[loc'[u].ret].key = SENTINEL
    <3> SUFFICES ASSUME NEW u \in Threads, Taken(u)'
                 PROVE  /\ loc'[u].ret \in Slots
                        /\ blocks'[loc'[u].target].slot[loc'[u].ret].key = SENTINEL
      OBVIOUS
    <3>1. CASE u = t
      BY <2>1, <3>1 DEF j0
    <3>2. CASE u # t
      <4>1. Taken(u) /\ loc'[u] = loc[u]
        BY <1>0, <3>2
      <4>2. /\ loc[u].ret \in Slots /\ loc[u].target \in Pointers
            /\ blocks[loc[u].target].slot[loc[u].ret].key = SENTINEL
            /\ loc[u].target # b0 \/ loc[u].ret # j0
        BY <1>1, <2>2, <3>2, <4>1
      <4> QED
        BY <2>1, <4>1, <4>2
    <3> QED
      BY <3>1, <3>2
  <2>4. \A u, v \in Threads : Taken(u)' /\ Taken(v)' /\ u # v =>
             loc'[u].target # loc'[v].target \/ loc'[u].ret # loc'[v].ret
    BY <1>0, <1>2, <2>1, <2>2 DEF j0
  <2>5. \A b \in Pointers : \A j \in Slots : blocks'[b].slot[j].key = SENTINEL =>
             \E u \in Threads : Taken(u)' /\ loc'[u].target = b /\ loc'[u].ret = j
    <3> TAKE b \in Pointers
    <3> TAKE j \in Slots
    <3>1. CASE b = b0 /\ j = j0
      BY <2>1, <3>1 DEF j0
    <3>2. CASE ~(b = b0 /\ j = j0)
      <4>1. blocks'[b].slot[j].key = blocks[b].slot[j].key
        BY <2>1, <3>2
      <4>2. ASSUME blocks'[b].slot[j].key = SENTINEL
            PROVE  \E u \in Threads : Taken(u)' /\ loc'[u].target = b /\ loc'[u].ret = j
        <5>1. PICK u \in Threads : Taken(u) /\ loc[u].target = b /\ loc[u].ret = j
          BY <1>3, <4>1, <4>2
        <5>2. u # t
          BY <2>1, <5>1
        <5> QED
          BY <1>0, <5>1, <5>2
      <4> QED
        BY <4>2
    <3> QED
      BY <3>1, <3>2
  <2> QED
    BY <2>3, <2>4, <2>5
<1>7. CASE FillsSlot(t)
  <2> DEFINE b0 == loc[t].target
             j0 == loc[t].ret
  <2>1. /\ Taken(t) /\ ~Taken(t)' /\ j0 \in Slots
        /\ \A b \in Pointers, j \in Slots : b # b0 \/ j # j0 =>
             blocks'[b].slot[j].key = blocks[b].slot[j].key
        /\ blocks'[b0].slot[j0].key = Key(t)
    BY <1>7 DEF FillsSlot, SameBut, SameSlot, Taken
  <2>2. Key(t) # SENTINEL
    BY <1>0, <1>7, Facts DEF FillsSlot, LocalOK
  <2>3. \A u \in Threads \ {t} : Taken(u) => loc[u].target # b0 \/ loc[u].ret # j0
    BY <1>2, <2>1
  <2> HIDE DEF b0, j0
  <2>4. \A u \in Threads : Taken(u)' =>
             /\ loc'[u].ret \in Slots
             /\ blocks'[loc'[u].target].slot[loc'[u].ret].key = SENTINEL
    <3> SUFFICES ASSUME NEW u \in Threads, Taken(u)'
                 PROVE  /\ loc'[u].ret \in Slots
                        /\ blocks'[loc'[u].target].slot[loc'[u].ret].key = SENTINEL
      OBVIOUS
    <3>1. u # t /\ Taken(u) /\ loc'[u] = loc[u]
      BY <1>0, <2>1
    <3>2. /\ loc[u].ret \in Slots /\ loc[u].target \in Pointers
          /\ blocks[loc[u].target].slot[loc[u].ret].key = SENTINEL
          /\ loc[u].target # b0 \/ loc[u].ret # j0
      BY <1>1, <2>3, <3>1
    <3> QED
      BY <2>1, <3>1, <3>2
  <2>5. \A u, v \in Threads : Taken(u)' /\ Taken(v)' /\ u # v =>
             loc'[u].target # loc'[v].target \/ loc'[u].ret # loc'[v].ret
    BY <1>0, <1>2, <2>1
  <2>6. \A b \in Pointers : \A j \in Slots : blocks'[b].slot[j].key = SENTINEL =>
             \E u \in Threads : Taken(u)' /\ loc'[u].target = b /\ loc'[u].ret = j
    <3> TAKE b \in Pointers
    <3> TAKE j \in Slots
    <3>1. CASE b = b0 /\ j = j0
      BY <2>1, <2>2, <3>1
    <3>2. CASE ~(b = b0 /\ j = j0)
      <4>1. blocks'[b].slot[j].key = blocks[b].slot[j].key
        BY <2>1, <3>2
      <4>2. ASSUME blocks'[b].slot[j].key = SENTINEL
            PROVE  \E u \in Threads : Taken(u)' /\ loc'[u].target = b /\ loc'[u].ret = j
        <5>1. PICK u \in Threads : Taken(u) /\ loc[u].target = b /\ loc[u].ret = j
          BY <1>3, <4>1, <4>2
        <5>2. u # t
          BY <3>2, <5>1 DEF b0, j0
        <5> QED
          BY <1>0, <5>1, <5>2
      <4> QED
        BY <4>2
    <3> QED
      BY <3>1, <3>2
  <2> QED
    BY <2>4, <2>5, <2>6
<1> QED
  BY <1>5, <1>6, <1>7 DEF SlotMove

\* A pair stays in its slot.
LEMMA PairsStay ==
  ASSUME Inv, SlotsOwned, NEW t \in Threads, SlotMove(t)
  PROVE  /\ \A b \in Pointers, j \in Slots : blocks[b].slot[j].key \in Keys => SameSlot(b, j)
         /\ \A b \in Pointers, j \in Slots :
              blocks'[b].slot[j].key = INVALID => blocks[b].slot[j].key = INVALID
         /\ \A b \in Pointers, j \in Slots : blocks'[b].slot[j].key \in Keys =>
              \/ blocks'[b].slot[j].key = blocks[b].slot[j].key
              \/ pc[t] = "i_key" /\ b = loc[t].target /\ blocks'[b].slot[j].key = Key(t)
<1>0. INVALID # SENTINEL /\ SENTINEL \notin Keys /\ INVALID \notin Keys /\ loc[t].target \in Pointers
  BY ExtendibleAssumption, BusyFacts
<1>1. CASE KeepsSlots(t)
  BY <1>1 DEF KeepsSlots, SameSlot
<1>2. CASE TakesSlot(t)
  BY <1>0, <1>2 DEF TakesSlot, SameBut, SameSlot, Target
<1>3. CASE FillsSlot(t)
  <2>1. Target(t).slot[loc[t].ret].key = SENTINEL
    BY <1>3 DEF FillsSlot, SlotsOwned, Taken
  <2>2. Key(t) \in Keys
    BY <1>3, Facts DEF FillsSlot, LocalOK
  <2> QED
    BY <1>0, <1>3, <2>1, <2>2 DEF FillsSlot, SameBut, SameSlot, Target
<1> QED
  BY <1>1, <1>2, <1>3 DEF SlotMove

\* A full block stays full, and keys stay where they belong.
LEMMA BlocksFilled ==
  ASSUME Inv, KeyBelongs, SlotsOwned, FullSeen, SplitFull, KeysBelong, NEW t \in Threads, SlotMove(t),
         SawFull(t)' => /\ loc'[t].target = loc[t].target
                        /\ SawFull(t) \/ FreeSlots(Target(t)) = {}
  PROVE  FullSeen' /\ SplitFull' /\ KeysBelong'
<1>1. /\ \A b \in Pointers, j \in Slots : blocks[b].slot[j].key \in Keys => SameSlot(b, j)
      /\ \A b \in Pointers, j \in Slots :
           blocks'[b].slot[j].key = INVALID => blocks[b].slot[j].key = INVALID
      /\ \A b \in Pointers, j \in Slots : blocks'[b].slot[j].key \in Keys =>
           \/ blocks'[b].slot[j].key = blocks[b].slot[j].key
           \/ pc[t] = "i_key" /\ b = loc[t].target /\ blocks'[b].slot[j].key = Key(t)
  BY PairsStay
<1>2. /\ Pointers' = Pointers /\ \A u \in Threads : loc[u].target \in Pointers
      /\ \A b \in Pointers : SameBits(blocks'[b], blocks[b])
  BY BusyFacts DEF SlotMove, SameBlocks
<1>3. FullSeen'
  <2> SUFFICES ASSUME NEW u \in Threads, SawFull(u)', NEW j \in Slots
               PROVE  blocks'[loc'[u].target].slot[j].key # INVALID
    BY DEF FullSeen, Target
  <2>1. loc'[u].target = loc[u].target /\ (SawFull(u) \/ FreeSlots(Target(u)) = {})
    <3>1. CASE u = t
      BY <3>1
    <3>2. CASE u # t
      BY <3>2 DEF SlotMove, Others, SawFull
    <3> QED
      BY <3>1, <3>2
  <2>2. Target(u).slot[j].key # INVALID
    BY <2>1 DEF FullSeen, FreeSlots
  <2> QED
    BY <1>1, <1>2, <2>1, <2>2 DEF Target
<1>4. SplitFull'
  BY <1>1, <1>2 DEF SplitFull, SameBits, SameSlot
<1>5. KeysBelong'
  <2> SUFFICES ASSUME NEW b \in Pointers, NEW j \in Slots, NEW k \in Keys, k = blocks'[b].slot[j].key
               PROVE  Belongs(blocks'[b], k)
    BY <1>2 DEF KeysBelong
  <2>1. Belongs(blocks[b], k)
    <3>1. CASE k = blocks[b].slot[j].key
      BY <3>1 DEF KeysBelong
    <3>2. CASE pc[t] = "i_key" /\ b = loc[t].target /\ k = Key(t)
      BY <3>2 DEF KeyBelongs, BelongPCs, Target
    <3> QED
      BY <1>1, <3>1, <3>2
  <2> QED
    BY <1>2, <2>1 DEF SameBits, Belongs
<1> QED
  BY <1>3, <1>4, <1>5

-----------------------------------------------------------------------------
(* sema                                                                     *)

\* sema counts the threads inside, whatever one of them does.
LEMMA SemaKept ==
  ASSUME Inv, SemaOK, NEW t \in Threads, SameBlocks, Others(t),
         pc'[t] \in HoldPCs => loc'[t].target = loc[t].target,
         \A b \in Pointers \ {loc[t].target} : blocks'[b].sema = blocks[b].sema,
         blocks'[loc[t].target].sema = Target(t).sema + (IF pc'[t] \in HoldPCs THEN 1 ELSE 0)
                                                      - (IF pc[t] \in HoldPCs THEN 1 ELSE 0)
  PROVE  SemaOK'
<1> DEFINE b0 == loc[t].target
<1>0. /\ Pointers' = Pointers /\ b0 \in Pointers
      /\ \A b \in Pointers : blocks'[b].split = blocks[b].split
  BY BusyFacts DEF SameBlocks, SameBits
<1>1. \A b : Holders(b)' \ {t} = Holders(b) \ {t} /\ IsFiniteSet(Holders(b)) /\ IsFiniteSet(Holders(b)')
  <2> TAKE b
  <2>1. Holders(b) \subseteq Threads /\ Holders(b)' \subseteq Threads
    BY DEF Holders
  <2>2. Holders(b)' \ {t} = Holders(b) \ {t}
    BY DEF Holders, Others
  <2> QED
    BY <2>1, <2>2, ThreadsAssumption, FS_Subset
<1>2. \A b : (t \in Holders(b)' <=> pc'[t] \in HoldPCs /\ loc'[t].target = b)
             /\ (t \in Holders(b) <=> pc[t] \in HoldPCs /\ b0 = b)
  BY DEF Holders
<1> DEFINE card(b) == Cardinality(Holders(b))
<1>3. \A b : LET n == Cardinality(Holders(b) \ {t})
             IN  /\ n \in Nat
                 /\ Cardinality(Holders(b)) = n + (IF t \in Holders(b) THEN 1 ELSE 0)
                 /\ Cardinality(Holders(b)') = n + (IF t \in Holders(b)' THEN 1 ELSE 0)
  <2> TAKE b
  <2>1. \A S : IsFiniteSet(S) => /\ Cardinality(S \ {t}) \in Nat
                                 /\ Cardinality(S) = Cardinality(S \ {t}) + (IF t \in S THEN 1 ELSE 0)
    <3> SUFFICES ASSUME NEW S, IsFiniteSet(S)
                 PROVE  /\ Cardinality(S \ {t}) \in Nat
                        /\ Cardinality(S) = Cardinality(S \ {t}) + (IF t \in S THEN 1 ELSE 0)
      OBVIOUS
    <3>1. Cardinality(S) \in Nat
      BY FS_CardinalityType
    <3>2. IsFiniteSet(S \ {t}) /\ Cardinality(S \ {t}) = IF t \in S THEN Cardinality(S) - 1 ELSE Cardinality(S)
      BY FS_RemoveElement
    <3>3. Cardinality(S \ {t}) \in Nat
      BY <3>2, FS_CardinalityType
    <3> QED
      BY <3>1, <3>2, <3>3
  <2> QED
    BY <1>1, <2>1
<1> SUFFICES ASSUME NEW b \in Pointers
             PROVE  blocks'[b].sema = Cardinality(Holders(b)') - (IF blocks'[b].split = TRUE THEN 1 ELSE 0)
  BY <1>0 DEF SemaOK
<1>4. PICK n \in Nat : /\ Cardinality(Holders(b)) = n + (IF t \in Holders(b) THEN 1 ELSE 0)
                       /\ Cardinality(Holders(b)') = n + (IF t \in Holders(b)' THEN 1 ELSE 0)
  BY <1>3
<1>5. blocks[b].sema = Cardinality(Holders(b)) - (IF blocks'[b].split = TRUE THEN 1 ELSE 0)
  BY <1>0 DEF SemaOK
<1>6. CASE b # b0
  <2>1. t \notin Holders(b) /\ t \notin Holders(b)' /\ blocks'[b].sema = blocks[b].sema
    BY <1>2, <1>6
  <2> QED
    BY <1>4, <1>5, <2>1
<1>7. CASE b = b0
  <2>1. /\ t \in Holders(b) <=> pc[t] \in HoldPCs
        /\ t \in Holders(b)' <=> pc'[t] \in HoldPCs
    BY <1>2, <1>7
  <2>2. blocks'[b].sema = blocks[b].sema + (IF t \in Holders(b)' THEN 1 ELSE 0)
                                         - (IF t \in Holders(b) THEN 1 ELSE 0)
    BY <1>7, <2>1 DEF Target
  <2> QED
    BY <1>4, <1>5, <2>2
<1> QED
  BY <1>6, <1>7

-----------------------------------------------------------------------------
(* The steps inside a block                                                 *)

\* What a step of t, other than a split, does to the blocks.
BlockMove(t) ==
  /\ SlotMove(t)
  /\ pc'[t] \in HoldPCs => loc'[t].target = loc[t].target
  /\ \A b \in Pointers \ {loc[t].target} : blocks'[b].sema = blocks[b].sema
  /\ blocks'[loc[t].target].sema = Target(t).sema + (IF pc'[t] \in HoldPCs THEN 1 ELSE 0)
                                                  - (IF pc[t] \in HoldPCs THEN 1 ELSE 0)
  /\ SawFull(t)' => /\ loc'[t].target = loc[t].target
                    /\ SawFull(t) \/ FreeSlots(Target(t)) = {}

\* A step moves one thread.
LEMMA OthersStay ==
  ASSUME Inv, NEW t \in Threads, Step(t)
  PROVE  Others(t)
<1> SUFFICES ASSUME NEW u \in Threads \ {t}
             PROVE  pc'[u] = pc[u] /\ loc'[u] = loc[u] /\ todo'[u] = todo[u]
  BY DEF Others
<1>0. /\ pc \in [Threads -> PCs] /\ loc \in [Threads -> Locals] /\ todo \in [Threads -> Seq(Calls)]
  BY DEF Inv, Typed
<1> USE <1>0 DEF Goto, Put, Return
<1>1. CASE Start(t) \/ ReadCapacity(t) \/ ReadArray(t) \/ ReadFlushArray(t) \/ GetCapacity(t)
           \/ GetArray(t) \/ GetScan(t)
  BY <1>1 DEF Start, ReadCapacity, ReadArray, ReadFlushArray, GetCapacity, GetArray, GetScan, Read
<1>2. CASE ReadTarget(t) \/ ReadFlushBlock(t) \/ GetTarget(t)
  BY <1>2 DEF ReadTarget, ReadFlushBlock, GetTarget, ReadEntry
<1>3. CASE Gate(t)
  BY <1>3 DEF Gate
<1>4. CASE Lock(t) \/ Probe(t) \/ StoreValue(t) \/ StoreKey(t)
  BY <1>4 DEF Lock, Probe, StoreValue, StoreKey
<1>5. CASE Unlock(t)
  BY <1>5 DEF Unlock
<1>6. CASE FlushPair(t) \/ ReturnGet(t)
  BY <1>6 DEF FlushPair, ReturnGet
<1>7. CASE Split(t)
  BY <1>7 DEF Split
<1>8. CASE Acquire(t)
  BY <1>8 DEF Acquire
<1>9. CASE StoreEntry(t) \/ EndUpdate(t) \/ PublishArray(t) \/ PublishCapacity(t) \/ DeleteOld(t)
           \/ Release(t)
  BY <1>9 DEF StoreEntry, EndUpdate, PublishArray, PublishCapacity, DeleteOld, Release
<1> QED
  BY <1>1, <1>2, <1>3, <1>4, <1>5, <1>6, <1>7, <1>8, <1>9 DEF Step

\* A step that is not inside a block.
LEMMA QuietMove ==
  ASSUME Inv, NEW t \in Threads, Others(t), blocks' = blocks, pc[t] \notin HoldPCs,
         pc'[t] \notin HoldPCs, pc'[t] # "i_split"
  PROVE  BlockMove(t)
<1>1. SameBlocks
  BY BlocksKept
<1>2. ~Taken(t) /\ ~Taken(t)' /\ ~SawFull(t)'
  BY DEF Taken, SawFull, HoldPCs
<1>3. KeepsSlots(t)
  BY <1>2 DEF KeepsSlots, SameSlot
<1>4. Target(t).sema \in Int
  BY BusyFacts DEF Block
<1> QED
  BY <1>1, <1>2, <1>3, <1>4 DEF BlockMove, SlotMove, Target

\* What a store into a block leaves of it.
LEMMA BlockStores ==
  ASSUME NEW d \in Block
  PROVE  /\ \A n \in Int : [d EXCEPT !.sema = n].slot = d.slot /\ [d EXCEPT !.sema = n].sema = n
         /\ \A i \in Slots, e \in Pair :
              /\ [d EXCEPT !.slot[i] = e].sema = d.sema
              /\ [d EXCEPT !.slot[i] = e].slot[i] = e
              /\ \A j \in Slots \ {i} : [d EXCEPT !.slot[i] = e].slot[j] = d.slot[j]
<1>1. d.slot \in [Slots -> Pair]
  BY DEF Block
<1>2. \A n \in Int : [d EXCEPT !.sema = n].slot = d.slot /\ [d EXCEPT !.sema = n].sema = n
  BY DEF Block
<1>3. \A i \in Slots, e \in Pair :
              /\ [d EXCEPT !.slot[i] = e].sema = d.sema
              /\ [d EXCEPT !.slot[i] = e].slot[i] = e
              /\ \A j \in Slots \ {i} : [d EXCEPT !.slot[i] = e].slot[j] = d.slot[j]
  BY <1>1 DEF Block
<1> QED
  BY <1>2, <1>3

\* A store into the target, seen slot by slot.
LEMMA TargetStore ==
  ASSUME Inv, NEW t \in Threads, NEW c \in Block, SameBits(c, Target(t)),
         blocks' = [blocks EXCEPT ![loc[t].target] = c]
  PROVE  /\ SameBlocks /\ blocks'[loc[t].target] = c /\ Target(t) \in Block
         /\ \A b \in Pointers \ {loc[t].target} : blocks'[b] = blocks[b]
         /\ \A b \in Pointers \ {loc[t].target}, j \in Slots : SameSlot(b, j)
<1>1. SameBlocks
  BY BlockPut
<1>2. loc[t].target \in Pointers /\ blocks \in Seq(Block) /\ Target(t) \in Block
  BY BusyFacts DEF Inv, Typed
<1>3. /\ blocks'[loc[t].target] = c
      /\ \A b \in Pointers \ {loc[t].target} : blocks'[b] = blocks[b]
  BY <1>2, PutBlock DEF SameBits, Target
<1> QED
  BY <1>1, <1>2, <1>3 DEF SameSlot

\* Lock and Unlock.
LEMMA SemaMove ==
  ASSUME Inv, NEW t \in Threads, Others(t), NEW n \in Int,
         blocks' = [blocks EXCEPT ![loc[t].target] = [Target(t) EXCEPT !.sema = n]],
         n = Target(t).sema + (IF pc'[t] \in HoldPCs THEN 1 ELSE 0)
                            - (IF pc[t] \in HoldPCs THEN 1 ELSE 0),
         ~Taken(t), ~Taken(t)', pc'[t] \in HoldPCs => loc'[t].target = loc[t].target,
         SawFull(t)' => SawFull(t) /\ loc'[t].target = loc[t].target
  PROVE  BlockMove(t)
<1> DEFINE c == [Target(t) EXCEPT !.sema = n]
<1>1. Target(t) \in Block
  BY BusyFacts
<1>2. c \in Block /\ SameBits(c, Target(t)) /\ c.slot = Target(t).slot /\ c.sema = n
  <2>1. 0 \in Slots
    BY ExtendibleAssumption DEF Slots
  <2> QED
    BY <1>1, <2>1, SlotStore, BlockStores
<1> HIDE DEF c
<1>3. /\ SameBlocks /\ blocks'[loc[t].target] = c
      /\ \A b \in Pointers \ {loc[t].target} : blocks'[b] = blocks[b]
      /\ \A b \in Pointers \ {loc[t].target}, j \in Slots : SameSlot(b, j)
  BY <1>2, TargetStore DEF c
<1>4. \A j \in Slots : SameSlot(loc[t].target, j)
  BY <1>2, <1>3 DEF SameSlot, Target
<1>5. KeepsSlots(t)
  BY <1>3, <1>4 DEF KeepsSlots
<1> QED
  BY <1>2, <1>3, <1>5 DEF BlockMove, SlotMove

\* A store into a slot of the target.
LEMMA SlotPut ==
  ASSUME Inv, NEW t \in Threads, Others(t), NEW i \in Slots, NEW e \in Pair,
         blocks' = [blocks EXCEPT ![loc[t].target] = [Target(t) EXCEPT !.slot[i] = e]],
         pc'[t] \in HoldPCs <=> pc[t] \in HoldPCs,
         pc'[t] \in HoldPCs => loc'[t].target = loc[t].target, ~SawFull(t)'
  PROVE  /\ SameBut(loc[t].target, i) /\ blocks'[loc[t].target].slot[i] = e
         /\ KeepsSlots(t) \/ TakesSlot(t) \/ FillsSlot(t) => BlockMove(t)
<1> DEFINE c == [Target(t) EXCEPT !.slot[i] = e]
<1>1. Target(t) \in Block /\ Target(t).sema \in Int
  BY BusyFacts DEF Block
<1>2. /\ c \in Block /\ SameBits(c, Target(t)) /\ c.sema = Target(t).sema
      /\ c.slot[i] = e /\ \A j \in Slots \ {i} : c.slot[j] = Target(t).slot[j]
  BY <1>1, SlotStore, BlockStores
<1> HIDE DEF c
<1>3. /\ SameBlocks /\ blocks'[loc[t].target] = c
      /\ \A b \in Pointers \ {loc[t].target} : blocks'[b] = blocks[b]
      /\ \A b \in Pointers \ {loc[t].target}, j \in Slots : SameSlot(b, j)
  BY <1>2, TargetStore DEF c
<1>4. SameBut(loc[t].target, i)
  <2>1. \A j \in Slots \ {i} : blocks'[loc[t].target].slot[j] = blocks[loc[t].target].slot[j]
    BY <1>2, <1>3 DEF Target
  <2>2. \A j \in Slots \ {i} : SameSlot(loc[t].target, j)
    BY <2>1 DEF SameSlot
  <2> QED
    BY <1>3, <2>2 DEF SameBut
<1>5. blocks'[loc[t].target].sema = Target(t).sema + (IF pc'[t] \in HoldPCs THEN 1 ELSE 0)
                                                   - (IF pc[t] \in HoldPCs THEN 1 ELSE 0)
  <2>1. blocks'[loc[t].target].sema = Target(t).sema
    BY <1>2, <1>3
  <2> QED
    BY <1>1, <2>1
<1>6. \A b \in Pointers \ {loc[t].target} : blocks'[b].sema = blocks[b].sema
  BY <1>3
<1>7. KeepsSlots(t) \/ TakesSlot(t) \/ FillsSlot(t) => BlockMove(t)
  BY <1>3, <1>5, <1>6 DEF BlockMove, SlotMove
<1> QED
  BY <1>2, <1>3, <1>4, <1>7

\* The stores into the target.
LEMMA InsideMoves ==
  ASSUME Inv, NEW t \in Threads, Others(t),
         Lock(t) \/ Probe(t) \/ StoreValue(t) \/ StoreKey(t) \/ Unlock(t) \/ FlushPair(t)
  PROVE  BlockMove(t)
<1>0. /\ pc \in [Threads -> PCs] /\ loc \in [Threads -> Locals] /\ loc[t] \in Locals /\ LocalOK(t)
      /\ loc[t].ret \in -1 .. NumSlot - 1
  BY Facts DEF Inv, Typed, Locals
<1>1. Target(t) \in Block /\ Target(t).sema \in Int
      /\ \A i \in Slots : Target(t).slot[i] \in Pair
  BY BusyFacts DEF Block
<1>2. loc[t].ret # -1 => loc[t].ret \in Slots
  BY <1>0, ExtendibleAssumption DEF Slots
<1>3. todo[t] # <<>> => Key(t) \in KeyWords /\ Call(t).value \in Values
  BY Facts DEF KeyWords, Calls
<1>4. \A p \in Pair : /\ \A v \in Values : [p EXCEPT !.value = v] \in Pair
                                           /\ [p EXCEPT !.value = v].key = p.key
                                           /\ [p EXCEPT !.value = v].durable = p.durable
                      /\ [p EXCEPT !.durable = TRUE] \in Pair
                      /\ [p EXCEPT !.durable = TRUE].key = p.key
                      /\ [p EXCEPT !.durable = TRUE].durable = TRUE
                      /\ \A k \in KeyWords : /\ [p EXCEPT !.key = k] \in Pair
                                             /\ [p EXCEPT !.key = k].key = k
                                             /\ [p EXCEPT !.key = k, !.durable = FALSE] \in Pair
                                             /\ [p EXCEPT !.key = k, !.durable = FALSE].key = k
  BY DEF Pair
<1> USE DEF HoldPCs, Taken, SawFull
<1>5. CASE Lock(t)
  <2>1. /\ pc[t] = "i_lock" /\ pc'[t] = "i_probe" /\ loc' = loc
        /\ blocks' = [blocks EXCEPT ![loc[t].target] = [Target(t) EXCEPT !.sema = Target(t).sema + 1]]
    BY <1>0, <1>5 DEF Lock, Goto, Target
  <2>2. Target(t).sema + 1 \in Int
    BY <1>1
  <2>3. Target(t).sema + 1 = Target(t).sema + (IF pc'[t] \in HoldPCs THEN 1 ELSE 0)
                                            - (IF pc[t] \in HoldPCs THEN 1 ELSE 0)
    BY <1>1, <2>1
  <2> QED
    BY <2>1, <2>2, <2>3, SemaMove
<1>6. CASE Unlock(t)
  <2>1. /\ pc[t] = "i_unlock" /\ pc'[t] \in {"i_flusharr", "i_split", "idle"}
        /\ pc'[t] = "i_split" => loc' = loc /\ loc[t].ret = -1
        /\ blocks' = [blocks EXCEPT ![loc[t].target] = [Target(t) EXCEPT !.sema = Target(t).sema - 1]]
    BY <1>0, <1>6 DEF Unlock, Goto, Return, Target
  <2>2. Target(t).sema - 1 \in Int
    BY <1>1
  <2>3. Target(t).sema - 1 = Target(t).sema + (IF pc'[t] \in HoldPCs THEN 1 ELSE 0)
                                            - (IF pc[t] \in HoldPCs THEN 1 ELSE 0)
    BY <1>1, <2>1
  <2> QED
    BY <2>1, <2>2, <2>3, SemaMove
<1>7. CASE Probe(t) /\ FreeSlots(Target(t)) = {}
  <2>1. pc[t] = "i_probe" /\ pc'[t] = "i_unlock" /\ Put(t, "ret", -1) /\ blocks' = blocks
    BY <1>0, <1>7 DEF Probe, Goto
  <2>2. loc'[t].target = loc[t].target
    BY <2>1, PutOthers
  <2>3. KeepsSlots(t)
    BY <2>1 DEF KeepsSlots, SameSlot
  <2>4. SlotMove(t)
    BY <2>1, <2>3, BlocksKept DEF SlotMove
  <2>5. blocks'[loc[t].target].sema = Target(t).sema + (IF pc'[t] \in HoldPCs THEN 1 ELSE 0)
                                                     - (IF pc[t] \in HoldPCs THEN 1 ELSE 0)
    BY <1>1, <2>1 DEF Target
  <2> QED
    BY <1>7, <2>1, <2>2, <2>4, <2>5 DEF BlockMove
<1>8. CASE Probe(t) /\ FreeSlots(Target(t)) # {}
  <2> DEFINE free == FreeSlots(Target(t))
             i == First(free)
             e == [Target(t).slot[i] EXCEPT !.key = SENTINEL]
  <2>1. i \in Slots /\ i \in free /\ i \in Nat
    <3>1. free \in SUBSET Nat /\ free \subseteq Slots /\ Slots \subseteq Nat
      BY DEF FreeSlots, Slots
    <3> HIDE DEF free
    <3>2. i \in free
      BY <1>8, <3>1, FirstIn DEF free
    <3> QED
      BY <3>1, <3>2
  <2>2. Target(t).slot[i].key = INVALID
    <3> HIDE DEF i
    <3> QED BY <2>1 DEF FreeSlots
  <2>3. /\ pc[t] = "i_probe" /\ pc'[t] = "i_value" /\ Put(t, "ret", i)
        /\ blocks' = [blocks EXCEPT ![loc[t].target] = [Target(t) EXCEPT !.slot[i] = e]]
    BY <1>0, <1>8 DEF Probe, Goto, Target
  <2> HIDE DEF i, free
  <2>4. e \in Pair /\ e.key = SENTINEL
    <3>1. PICK p \in Pair : p = Target(t).slot[i]
      BY <1>1, <2>1
    <3>2. SENTINEL \in KeyWords
      BY DEF KeyWords
    <3>3. [p EXCEPT !.key = SENTINEL] \in Pair /\ [p EXCEPT !.key = SENTINEL].key = SENTINEL
      BY <1>4, <3>2
    <3> QED
      BY <3>1, <3>3
  <2> HIDE DEF e
  <2>5. loc'[t].target = loc[t].target /\ loc'[t].ret = i
    <3>1. loc' = [loc EXCEPT ![t] = [loc[t] EXCEPT !["ret"] = i]]
      BY <2>3 DEF Put
    <3>2. [loc[t] EXCEPT !["ret"] = i].target = loc[t].target /\ [loc[t] EXCEPT !["ret"] = i].ret = i
      BY <1>0 DEF Locals
    <3> QED
      BY <1>0, <3>1, <3>2
  <2>6. pc'[t] \in HoldPCs /\ pc[t] \in HoldPCs /\ ~SawFull(t)' /\ ~Taken(t) /\ Taken(t)'
    BY <2>3
  <2>7. /\ SameBut(loc[t].target, i) /\ blocks'[loc[t].target].slot[i] = e
        /\ TakesSlot(t) => BlockMove(t)
    <3> HIDE DEF HoldPCs, Taken, SawFull
    <3> QED
      BY <2>1, <2>3, <2>4, <2>5, <2>6, SlotPut
  <2> QED
    BY <2>1, <2>2, <2>4, <2>5, <2>6, <2>7 DEF TakesSlot
<1>9. CASE StoreValue(t)
  <2> DEFINE i == loc[t].ret
             e == [Target(t).slot[i] EXCEPT !.value = Call(t).value]
  <2>1. /\ pc[t] = "i_value" /\ pc'[t] = "i_key" /\ loc' = loc
        /\ blocks' = [blocks EXCEPT ![loc[t].target] = [Target(t) EXCEPT !.slot[i] = e]]
    BY <1>0, <1>9 DEF StoreValue, Goto, Target
  <2>2. i \in Slots /\ todo[t] # <<>>
    BY <1>0, <1>2, <2>1 DEF LocalOK
  <2>3. e \in Pair /\ e.key = Target(t).slot[i].key /\ e.durable = Target(t).slot[i].durable
    BY <1>1, <1>3, <1>4, <2>2
  <2> HIDE DEF i, e
  <2>4. /\ SameBut(loc[t].target, i) /\ blocks'[loc[t].target].slot[i] = e
        /\ KeepsSlots(t) => BlockMove(t)
    BY <2>1, <2>2, <2>3, SlotPut
  <2>5. SameSlot(loc[t].target, i)
    BY <2>3, <2>4 DEF SameSlot, Target
  <2>6. KeepsSlots(t)
    BY <2>1, <2>4, <2>5 DEF KeepsSlots, SameBut
  <2> QED
    BY <2>4, <2>6
<1>10. CASE StoreKey(t)
  <2> DEFINE i == loc[t].ret
             e == [Target(t).slot[i] EXCEPT !.key = Key(t), !.durable = FALSE]
  <2>1. /\ pc[t] = "i_key" /\ pc'[t] = "i_unlock" /\ loc' = loc
        /\ blocks' = [blocks EXCEPT ![loc[t].target] = [Target(t) EXCEPT !.slot[i] = e]]
    BY <1>0, <1>10 DEF StoreKey, Goto, Target
  <2>2. i \in Slots /\ i # -1 /\ todo[t] # <<>>
    BY <1>0, <1>2, <2>1 DEF LocalOK
  <2>3. e \in Pair /\ e.key = Key(t)
    BY <1>1, <1>3, <1>4, <2>2
  <2> HIDE DEF e
  <2>4. /\ SameBut(loc[t].target, i) /\ blocks'[loc[t].target].slot[i] = e
        /\ FillsSlot(t) => BlockMove(t)
    <3>1. ~SawFull(t)'
      BY <2>1, <2>2
    <3> HIDE DEF i
    <3> QED
      BY <2>1, <2>2, <2>3, <3>1, SlotPut
  <2>5. FillsSlot(t)
    BY <2>1, <2>2, <2>3, <2>4 DEF FillsSlot
  <2> QED
    BY <2>4, <2>5
<1>11. CASE FlushPair(t)
  <2> DEFINE i == loc[t].ret
             e == [Target(t).slot[i] EXCEPT !.durable = TRUE]
  <2>1. /\ pc[t] = "i_flush" /\ pc'[t] = "idle"
        /\ blocks' = [blocks EXCEPT ![loc[t].target] = [Target(t) EXCEPT !.slot[i] = e]]
    BY <1>0, <1>11 DEF FlushPair, Return, Goto, Target
  <2>2. i \in Slots
    BY <1>0, <1>2, <2>1 DEF LocalOK
  <2>3. e \in Pair /\ e.key = Target(t).slot[i].key /\ e.durable = TRUE
    BY <1>1, <1>4, <2>2
  <2> HIDE DEF i, e
  <2>4. /\ SameBut(loc[t].target, i) /\ blocks'[loc[t].target].slot[i] = e
        /\ KeepsSlots(t) => BlockMove(t)
    BY <2>1, <2>2, <2>3, SlotPut
  <2>5. SameSlot(loc[t].target, i)
    BY <2>3, <2>4 DEF SameSlot, Target
  <2>6. KeepsSlots(t)
    BY <2>1, <2>4, <2>5 DEF KeepsSlots, SameBut
  <2> QED
    BY <2>4, <2>6
<1> QED
  BY <1>5, <1>6, <1>7, <1>8, <1>9, <1>10, <1>11

\* Every step but a split that succeeds.
LEMMA BlockMoves ==
  ASSUME Inv, NEW t \in Threads, Step(t), ~(Split(t) /\ Target(t).sema = 0)
  PROVE  BlockMove(t)
<1>0. Others(t) /\ pc \in [Threads -> PCs]
  BY OthersStay DEF Inv, Typed
<1>1. CASE Lock(t) \/ Probe(t) \/ StoreValue(t) \/ StoreKey(t) \/ Unlock(t) \/ FlushPair(t)
  BY <1>0, <1>1, InsideMoves
<1> USE DEF HoldPCs, Goto, Return
<1>2. CASE Start(t) \/ ReadCapacity(t) \/ ReadArray(t) \/ ReadFlushArray(t) \/ GetCapacity(t)
           \/ GetArray(t) \/ GetScan(t)
  <2>1. blocks' = blocks /\ pc[t] \notin HoldPCs /\ pc'[t] \notin HoldPCs /\ pc'[t] # "i_split"
    BY <1>0, <1>2 DEF Start, ReadCapacity, ReadArray, ReadFlushArray, GetCapacity, GetArray, GetScan, Read
  <2> QED
    BY <1>0, <2>1, QuietMove
<1>3. CASE ReadTarget(t) \/ ReadFlushBlock(t) \/ GetTarget(t)
  <2>1. blocks' = blocks /\ pc[t] \notin HoldPCs /\ pc'[t] \notin HoldPCs /\ pc'[t] # "i_split"
    BY <1>0, <1>3 DEF ReadTarget, ReadFlushBlock, GetTarget, ReadEntry
  <2> QED
    BY <1>0, <2>1, QuietMove
<1>4. CASE Gate(t) \/ ReturnGet(t)
  <2>1. blocks' = blocks /\ pc[t] \notin HoldPCs /\ pc'[t] \notin HoldPCs /\ pc'[t] # "i_split"
    BY <1>0, <1>4 DEF Gate, ReturnGet
  <2> QED
    BY <1>0, <2>1, QuietMove
<1>5. CASE Split(t)
  <2>1. blocks' = blocks /\ pc[t] \notin HoldPCs /\ pc'[t] \notin HoldPCs /\ pc'[t] # "i_split"
    BY <1>0, <1>5 DEF Split
  <2> QED
    BY <1>0, <2>1, QuietMove
<1>6. CASE Acquire(t)
  <2>1. blocks' = blocks /\ pc[t] \notin HoldPCs /\ pc'[t] \notin HoldPCs /\ pc'[t] # "i_split"
    BY <1>0, <1>6 DEF Acquire
  <2> QED
    BY <1>0, <2>1, QuietMove
<1>7. CASE StoreEntry(t) \/ EndUpdate(t) \/ PublishArray(t) \/ PublishCapacity(t) \/ DeleteOld(t)
           \/ Release(t)
  <2>1. blocks' = blocks /\ pc[t] \notin HoldPCs /\ pc'[t] \notin HoldPCs /\ pc'[t] # "i_split"
    BY <1>0, <1>7 DEF StoreEntry, EndUpdate, PublishArray, PublishCapacity, DeleteOld, Release
  <2> QED
    BY <1>0, <2>1, QuietMove
<1> QED
  BY <1>1, <1>2, <1>3, <1>4, <1>5, <1>6, <1>7 DEF Step

\* Every step but a split keeps what is known of the blocks.
LEMMA MoveBlocks ==
  ASSUME Inv, KeyBelongs, BlocksOK, NEW t \in Threads, BlockMove(t)
  PROVE  BlocksOK'
<1>1. SlotsOwned'
  BY SlotsOwnedKept DEF BlocksOK, BlockMove
<1>2. FullSeen' /\ SplitFull' /\ KeysBelong'
  BY BlocksFilled DEF BlocksOK, BlockMove
<1>3. SemaOK'
  BY SemaKept DEF BlocksOK, BlockMove, SlotMove
<1> QED
  BY <1>1, <1>2, <1>3 DEF BlocksOK

-----------------------------------------------------------------------------
(* Splitting a block that is full                                           *)

\* Nobody is inside a block that Split closes, and it is full.
LEMMA ClosedFull ==
  ASSUME Inv, BlocksOK, NEW t \in Threads, pc[t] = "i_split", Target(t).sema = 0,
         Target(t).split = FALSE
  PROVE  Holders(loc[t].target) = {} /\ \A j \in Slots : Target(t).slot[j].key \in Keys
<1>1. loc[t].target \in Pointers /\ Target(t) \in Block
  BY BusyFacts
<1>2. Holders(loc[t].target) = {}
  <2>1. Holders(loc[t].target) \subseteq Threads
    BY DEF Holders
  <2>2. IsFiniteSet(Holders(loc[t].target)) /\ Cardinality(Holders(loc[t].target)) \in Nat
    BY <2>1, ThreadsAssumption, FS_Subset, FS_CardinalityType
  <2>3. 0 = Cardinality(Holders(loc[t].target)) - 0
    BY <1>1 DEF BlocksOK, SemaOK, Target
  <2>4. Cardinality(Holders(loc[t].target)) = 0
    BY <2>2, <2>3
  <2> QED
    BY <2>2, <2>4, FS_EmptySet
<1>3. ASSUME NEW j \in Slots PROVE Target(t).slot[j].key \in Keys
  <2>1. Target(t).slot[j].key \in KeyWords
    BY <1>1 DEF Block, Pair
  <2>2. Target(t).slot[j].key # INVALID
    BY DEF BlocksOK, FullSeen, SawFull
  <2>3. Target(t).slot[j].key # SENTINEL
    <3>1. \A u \in Threads : Taken(u) => loc[u].target # loc[t].target
      BY <1>2 DEF Holders, Taken, HoldPCs
    <3> QED
      BY <1>1, <3>1 DEF BlocksOK, SlotsOwned, Target
  <2> QED
    BY <2>1, <2>2, <2>3 DEF KeyWords
<1> QED
  BY <1>2, <1>3

\* A key of a block belongs to the half that has the key's next bit.
LEMMA NextBit ==
  ASSUME Inv, Patterns, NEW t \in Threads, NEW k \in Keys, Belongs(Target(t), k),
         NEW n \in Nat, n = Target(t).local_depth
  PROVE  /\ Bit(Hash[k], n) \in {0, 1}
         /\ Bit(Hash[k], n) = 0 => Hash[k] % Pow2[n + 1] = Target(t).pattern
         /\ Bit(Hash[k], n) = 1 => Hash[k] % Pow2[n + 1] = Target(t).pattern + Pow2[n]
<1>1. PICK h \in Nat : h = Hash[k]
  <2>1. Pow2[HashBits] \in Nat
    BY Pow2Step, ExtendibleAssumption
  <2>2. Hash[k] \in 0 .. Pow2[HashBits] - 1
    BY ExtendibleAssumption DEF KeyWords
  <2> QED
    BY <2>1, <2>2
<1>2. PICK m \in Nat \ {0}, p \in Nat : m = Pow2[n] /\ p = Target(t).pattern /\ Pow2[n + 1] = 2 * m
  BY BusyFacts
<1>3. p \in 0 .. m - 1
  BY <1>2, BusyFacts DEF Patterns, Target
<1>4. h % m = p
  BY <1>1, <1>2 DEF Belongs
<1>5. PICK bit \in 0 .. 1 : bit = (h \div m) % 2 /\ bit = Bit(Hash[k], n)
  <2>1. h \div m \in Nat
    BY <1>1, <1>2, DivMod
  <2>2. (h \div m) % 2 \in 0 .. 1
    BY <2>1
  <2> QED
    BY <1>1, <1>2, <2>2 DEF Bit
<1>6. h % (2 * m) = p + m * bit
  <2>1. 2 * m \in Nat \ {0}
    BY <1>2
  <2>2. \A q \in Nat \ {0} : q = 2 * m => h % q = (h % m) + m * ((h \div m) % 2)
    BY <1>2, ModTwice
  <2>3. h % (2 * m) = (h % m) + m * ((h \div m) % 2)
    BY <2>1, <2>2
  <2> QED
    BY <1>4, <1>5, <2>3
<1>7. bit = 0 => p + m * bit = p
  BY <1>2
<1>8. bit = 1 => p + m * bit = p + m
  BY <1>2
<1> QED
  BY <1>1, <1>2, <1>5, <1>6, <1>7, <1>8

\* The new blocks have the pairs of the old one.
LEMMA SplitBlocks ==
  ASSUME Inv, Patterns, KeyBelongs, BlocksOK, NEW t \in Threads,
         NEW c \in Block, NEW h1 \in Block, NEW h2 \in Block, SplitStep(t, c, h1, h2),
         Target(t).split = FALSE
  PROVE  /\ BlocksOK' /\ HalvesAt(t)'
         /\ \A b \in Pointers : blocks'[b].slot = blocks[b].slot
<1> DEFINE tg == loc[t].target
           n1 == Len(blocks) + 1
           n2 == Len(blocks) + 2
<1>1. /\ Len(blocks) \in Nat /\ tg \in Pointers /\ Pointers \subseteq Pointers'
      /\ n1 \notin Pointers /\ n2 \notin Pointers /\ n1 \in Pointers' /\ n2 \in Pointers' /\ n1 # n2
      /\ \A b \in Pointers' : b \in Pointers \/ b = n1 \/ b = n2
  <2>1. Len(blocks) \in Nat /\ Len(blocks') = Len(blocks) + 2
    BY DEF Inv, Typed, SplitStep
  <2>2. tg \in Pointers /\ tg \in 1 .. Len(blocks)
    BY BusyFacts DEF Pointers
  <2> HIDE DEF tg
  <2> QED
    BY <2>1, <2>2 DEF Pointers
<1>2. /\ pc[t] = "i_split" /\ pc'[t] = "i_acquire" /\ Target(t).sema = 0
      /\ \A u \in Threads \ {t} : pc'[u] = pc[u] /\ loc'[u] = loc[u] /\ loc[u].target \in Pointers
  BY GotoOthers, BusyFacts DEF SplitStep
<1>3. loc'[t].target = tg /\ loc'[t].s[1] = n1 /\ loc'[t].s[2] = n2 /\ loc'[t].ret = loc[t].ret
  BY DEF Inv, Typed, Locals, SplitStep
<1>4. /\ blocks'[tg] = c /\ blocks'[n1] = h1 /\ blocks'[n2] = h2
      /\ \A b \in Pointers \ {tg} : blocks'[b] = blocks[b]
      /\ c.local_depth = Target(t).local_depth /\ c.pattern = Target(t).pattern /\ c.split = TRUE
      /\ c.sema = -1 /\ c.slot = Target(t).slot
      /\ h1.split = FALSE /\ h1.sema = 0 /\ h1.slot = Half(Target(t), 0)
      /\ h2.split = FALSE /\ h2.sema = 0 /\ h2.slot = Half(Target(t), 1)
      /\ h1.local_depth = Target(t).local_depth + 1 /\ h2.local_depth = Target(t).local_depth + 1
  BY DEF SplitStep
<1>5. /\ Holders(tg) = {} /\ \A j \in Slots : Target(t).slot[j].key \in Keys
  BY <1>2, ClosedFull
<1>6. h1.pattern = Target(t).pattern /\ h2.pattern = Target(t).pattern + Pow2[Target(t).local_depth]
  BY SplitBelongs
<1> HIDE DEF tg, n1, n2
<1>7. \A b \in Pointers : /\ blocks'[b].slot = blocks[b].slot
                          /\ blocks'[b].local_depth = blocks[b].local_depth
                          /\ blocks'[b].pattern = blocks[b].pattern
  BY <1>4 DEF Target, tg
<1>8. Target(t) \in Block /\ \A l \in Slots : Target(t).slot[l].key # INVALID
  BY <1>5, BusyFacts, ExtendibleAssumption
<1>9. \A u \in Threads : /\ pc'[u] \in HoldPCs <=> pc[u] \in HoldPCs
                         /\ Taken(u)' <=> Taken(u)
                         /\ SawFull(u)' => u # t /\ SawFull(u)
                         /\ loc'[u].target = loc[u].target /\ loc'[u].ret = loc[u].ret
                         /\ loc[u].target \in Pointers
  BY <1>1, <1>2, <1>3 DEF HoldPCs, Taken, SawFull, tg
<1>10. PICK n \in Nat, m \in Nat : n = Target(t).local_depth /\ m = Pow2[n]
  BY BusyFacts
<1>11. ASSUME NEW bit \in {0, 1}
       PROVE  /\ \A j \in Slots : Half(Target(t), bit)[j].key = INVALID \/
                   \E l \in Slots : /\ Half(Target(t), bit)[j].key = Target(t).slot[l].key
                                    /\ Bit(Hash[Target(t).slot[l].key], n) = bit
              /\ \A l \in Slots : Bit(Hash[Target(t).slot[l].key], n) = bit =>
                   \E j \in Slots : /\ Half(Target(t), bit)[j].key = Target(t).slot[l].key
                                    /\ Half(Target(t), bit)[j].durable = TRUE
  <2>1. HalfHas(Target(t), bit)
    BY <1>8, HalfContent
  <2> QED
    BY <1>10, <2>1 DEF HalfHas
<1>12. ASSUME NEW j \in Slots, NEW bit \in {0, 1}, NEW k, k = Half(Target(t), bit)[j].key
       PROVE  k = INVALID \/ (k \in Keys /\ Belongs(Target(t), k) /\ Bit(Hash[k], n) = bit)
  <2>1. k = INVALID \/ \E l \in Slots : k = Target(t).slot[l].key /\ Bit(Hash[k], n) = bit
    BY <1>12, <1>11
  <2> QED
    BY <1>1, <1>5, <2>1 DEF BlocksOK, KeysBelong, Target, tg
<1>13. SemaOK'
  <2> SUFFICES ASSUME NEW b \in Pointers'
               PROVE  blocks'[b].sema = Cardinality(Holders(b)') - (IF blocks'[b].split = TRUE THEN 1 ELSE 0)
    BY DEF SemaOK
  <2>1. Holders(b)' = Holders(b)
    BY <1>9 DEF Holders
  <2>2. Cardinality({}) = 0
    BY FS_EmptySet
  <2>3. CASE b \in Pointers /\ b # tg
    BY <1>4, <2>1, <2>3 DEF BlocksOK, SemaOK
  <2>4. CASE b = tg
    BY <1>4, <1>5, <2>1, <2>2, <2>4
  <2>5. CASE b = n1 \/ b = n2
    <3>1. Holders(b) = {}
      BY <1>1, <1>9, <2>5 DEF Holders
    <3>2. blocks'[b].sema = 0 /\ blocks'[b].split = FALSE
      BY <1>4, <2>5
    <3> QED
      BY <2>1, <2>2, <3>1, <3>2
  <2> QED
    BY <1>1, <2>3, <2>4, <2>5
<1>14. SlotsOwned'
  <2>1. \A u \in Threads : Taken(u)' =>
          loc'[u].ret \in Slots /\ blocks'[loc'[u].target].slot[loc'[u].ret].key = SENTINEL
    BY <1>7, <1>9 DEF BlocksOK, SlotsOwned, Target
  <2>2. \A u, v \in Threads : Taken(u)' /\ Taken(v)' /\ u # v =>
          loc'[u].target # loc'[v].target \/ loc'[u].ret # loc'[v].ret
    BY <1>9 DEF BlocksOK, SlotsOwned
  <2>3. ASSUME NEW b \in Pointers', NEW j \in Slots, blocks'[b].slot[j].key = SENTINEL
        PROVE  \E u \in Threads : Taken(u)' /\ loc'[u].target = b /\ loc'[u].ret = j
    <3>1. CASE b \in Pointers
      <4>1. PICK u \in Threads : Taken(u) /\ loc[u].target = b /\ loc[u].ret = j
        BY <1>7, <2>3, <3>1 DEF BlocksOK, SlotsOwned
      <4> QED
        BY <1>9, <4>1
    <3>2. CASE b = n1 \/ b = n2
      <4>1. PICK bit \in {0, 1} : blocks'[b].slot = Half(Target(t), bit)
        BY <1>4, <3>2
      <4>2. SENTINEL = INVALID \/ SENTINEL \in Keys
        BY <1>12, <2>3, <4>1
      <4> QED
        BY <4>2, ExtendibleAssumption
    <3> QED
      BY <1>1, <3>1, <3>2
  <2> QED
    BY <2>1, <2>2, <2>3 DEF SlotsOwned, Target
<1>15. FullSeen'
  BY <1>7, <1>9 DEF BlocksOK, FullSeen, Target
<1>16. SplitFull'
  <2> SUFFICES ASSUME NEW b \in Pointers', blocks'[b].split = TRUE, NEW j \in Slots
               PROVE  blocks'[b].slot[j].key \in Keys
    BY DEF SplitFull
  <2>1. b \in Pointers
    BY <1>1, <1>4
  <2> QED
    BY <1>4, <1>5, <2>1 DEF BlocksOK, SplitFull
<1>17. KeysBelong'
  <2> SUFFICES ASSUME NEW b \in Pointers', NEW j \in Slots, NEW k \in Keys, k = blocks'[b].slot[j].key
               PROVE  Belongs(blocks'[b], k)
    BY DEF KeysBelong
  <2>0. k # INVALID
    BY ExtendibleAssumption
  <2>1. CASE b \in Pointers
    BY <1>7, <2>1 DEF BlocksOK, KeysBelong, Belongs
  <2>2. CASE b = n1
    <3>1. Belongs(Target(t), k) /\ Bit(Hash[k], n) = 0
      BY <1>4, <1>12, <2>0, <2>2
    <3>2. Hash[k] % Pow2[n + 1] = Target(t).pattern
      BY <1>10, <3>1, NextBit
    <3> QED
      BY <1>4, <1>6, <1>10, <2>2, <3>2 DEF Belongs
  <2>3. CASE b = n2
    <3>1. Belongs(Target(t), k) /\ Bit(Hash[k], n) = 1
      BY <1>4, <1>12, <2>0, <2>3
    <3>2. Hash[k] % Pow2[n + 1] = Target(t).pattern + Pow2[n]
      BY <1>10, <3>1, NextBit
    <3> QED
      BY <1>4, <1>6, <1>10, <2>3, <3>2 DEF Belongs
  <2> QED
    BY <1>1, <2>1, <2>2, <2>3
<1>18. HalvesAt(t)'
  <2> SUFFICES ASSUME NEW j \in Slots, NEW k, k = Target(t).slot[j].key
               PROVE  \E h \in {n1, n2} : Holds(h, k)'
    BY <1>3, <1>4 DEF HalvesAt, Target
  <2>1. k \in Keys /\ Belongs(Target(t), k)
    BY <1>1, <1>5 DEF BlocksOK, KeysBelong, Target, tg
  <2>2. PICK bit \in {0, 1} : bit = Bit(Hash[k], n)
    BY <1>10, <2>1, NextBit
  <2>3. PICK i \in Slots : Half(Target(t), bit)[i].key = k /\ Half(Target(t), bit)[i].durable = TRUE
    BY <1>11, <2>2
  <2>4. PICK h \in {n1, n2} : blocks'[h].slot = Half(Target(t), bit)
    BY <1>4
  <2> QED
    BY <2>3, <2>4 DEF Holds
<1> QED
  BY <1>7, <1>13, <1>14, <1>15, <1>16, <1>17, <1>18 DEF BlocksOK

-----------------------------------------------------------------------------
(* Where the directory leads                                                *)

\* A block that has the bits of a key selects the entry of the key.
LEMMA KeyEntry ==
  ASSUME Inv, NEW b \in Pointers, NEW k \in Keys, Belongs(blocks[b], k),
         blocks[b].local_depth <= DepthOf(Newest)
  PROVE  EntryOf(k) \in Entries(Newest) /\ EntryOf(k) \in Nat /\ Selects(b, EntryOf(k))
<1>1. PICK h \in Nat : h = Hash[k]
  <2>1. Pow2[HashBits] \in Nat
    BY Pow2Step, ExtendibleAssumption
  <2>2. Hash[k] \in 0 .. Pow2[HashBits] - 1
    BY ExtendibleAssumption DEF KeyWords
  <2> QED
    BY <2>1, <2>2
<1>2. PICK n \in Nat, g \in Nat, m \in Nat \ {0}, c \in Nat \ {0} :
        /\ n = blocks[b].local_depth /\ g = DepthOf(Newest) /\ m = Pow2[n] /\ c = Pow2[g]
        /\ Entries(Newest) = 0 .. c - 1 /\ n <= g
  <2>1. blocks[b] \in Block
    BY DEF Inv, Typed, Pointers
  <2> QED
    BY <2>1, BlockFacts, CurrentTyped
<1>3. PICK q \in Nat \ {0} : c = m * q
  <2>1. g - n \in Nat
    BY <1>2
  <2>2. Pow2[g - n] \in Nat \ {0}
    BY <2>1, Pow2Step
  <2>3. Pow2[g] = Pow2[n] * Pow2[g - n]
    BY <1>2, Pow2Diff
  <2> QED
    BY <1>2, <2>2, <2>3
<1>4. (h % c) % m = h % m
  <2>1. (h % (m * q)) % m = h % m
    BY ModMod
  <2> QED
    BY <1>3, <2>1
<1>5. h % c \in 0 .. c - 1 /\ h % c \in Nat
  BY <1>2
<1>6. EntryOf(k) = h % c
  BY <1>1, <1>2 DEF EntryOf
<1> QED
  BY <1>1, <1>2, <1>4, <1>5, <1>6 DEF Selects, Belongs

\* Where an entry leads is one of the blocks that it reaches.
LEMMA LeadsReached ==
  ASSUME Inv, Shape, NEW x \in Entries(Newest), NEW b \in Pointers, Leads(x, b)
  PROVE  b \in Reached(x)
<1>1. DOMAIN blocks = Pointers
  BY DEF Inv, Typed, Pointers
<1>2. CASE b = Current[x]
  BY <1>2 DEF Reached
<1>3. ASSUME NEW t \in Threads, Awaits(t, x), b = HalfFor(t, x)
      PROVE  b \in Reached(x)
  <2>1. PICK i \in 1 .. Len(loc[t].writes) : loc[t].writes[i][1] = x
    BY <1>3 DEF Awaits
  <2>2. pc[t] = "i_update" /\ loc[t].writes \in Seq(Entries(Newest) \X Pointers)
    BY <1>3, Facts DEF LocalOK, Awaits
  <2>3. loc[t].writes[i][2] = b
    BY <1>3, <2>1, <2>2 DEF Shape, StoresOK, StoreFits
  <2>4. loc[t].writes[i] = <<x, b>>
    <3>1. loc[t].writes[i] \in Entries(Newest) \X Pointers
      BY <2>2
    <3> QED
      BY <2>1, <2>3, <3>1
  <2> QED
    BY <1>1, <2>2, <2>4 DEF Reached
<1> QED
  BY <1>2, <1>3 DEF Leads

\* The directory leads to a block that has not been replaced.
LEMMA PairReached ==
  ASSUME Inv, Shape, NEW b \in Pointers, ~Unpublished(b), ~Gone(b), NEW k \in Keys,
         Belongs(blocks[b], k)
  PROVE  b \in Reached(EntryOf(k))
<1>1. blocks[b].local_depth <= DepthOf(Newest)
  BY DEF Shape, DepthsOK
<1>2. EntryOf(k) \in Entries(Newest) /\ Selects(b, EntryOf(k))
  BY <1>1, KeyEntry
<1>3. Whole(b)
  <2>1. CASE blocks[b].split = TRUE
    BY <2>1 DEF Gone, Shape, PendingWhole
  <2>2. CASE blocks[b].split # TRUE
    BY <2>2 DEF Shape, UnsplitWhole
  <2> QED
    BY <2>1, <2>2
<1>4. Leads(EntryOf(k), b)
  BY <1>2, <1>3 DEF Whole
<1> QED
  BY <1>2, <1>4, LeadsReached

\* A half of t's target that has one of the target's keys is the half for the
\* entry of the key.
LEMMA HalfOfKey ==
  ASSUME Inv, Patterns, Shape, BlocksOK, NEW t \in Threads, Busy(t),
         NEW k \in Keys, NEW h \in {loc[t].s[1], loc[t].s[2]}, Holds(h, k),
         Target(t).local_depth < DepthOf(Newest)
  PROVE  /\ EntryOf(k) \in Entries(Newest) /\ Selects(loc[t].target, EntryOf(k))
         /\ h = HalfFor(t, EntryOf(k))
<1>1. h \in Pointers /\ HalfPair(t) /\ Target(t).local_depth \in Nat /\ DepthOf(Newest) \in Nat
  BY BusyFacts, CurrentTyped DEF Shape, HalvesOK
<1>2. blocks[h].local_depth <= DepthOf(Newest)
  <2>1. blocks[h].local_depth = Target(t).local_depth + 1
    BY <1>1 DEF HalfPair
  <2> QED
    BY <1>1, <2>1
<1>3. Belongs(blocks[h], k)
  BY <1>1 DEF BlocksOK, KeysBelong, Holds
<1>4. EntryOf(k) \in Entries(Newest) /\ EntryOf(k) \in Nat /\ Selects(h, EntryOf(k))
  BY <1>1, <1>2, <1>3, KeyEntry
<1> QED
  BY <1>1, <1>4, HalfSelects

-----------------------------------------------------------------------------
(* What a step leaves in place                                              *)

PairsKept ==
  /\ Pointers \subseteq Pointers'
  /\ \A b \in Pointers, j \in Slots : blocks[b].slot[j].key \in Keys => SameSlot(b, j)

\* A pair that was written back stays so.
LEMMA HoldsGrows ==
  ASSUME PairsKept, NEW b \in Pointers, NEW k \in Keys, Holds(b, k)
  PROVE  Holds(b, k)'
BY DEF PairsKept, Holds, SameSlot

\* Keys that were found are found, a block that was replaced stays replaced,
\* and where the directory changes the old block is replaced.
Frame ==
  /\ PairsKept
  /\ \A k \in Keys : Kept(k) => Kept(k)'
  /\ \A b \in Pointers : Gone(b) => Gone(b)'
  /\ Newest' >= Newest
  /\ \A b \in Pointers : \A x \in Entries(Newest) :
       Current[x] = b => Current'[x] = b \/ Gone(b)'
  /\ \A b \in Pointers : \A a \in 1 .. Newest : \A x \in Entries(a) :
       arrays[a][x] = b => arrays'[a][x] = b \/ Gone(b)'
  /\ \A a \in 1 .. Newest' : a # Newest' => a \in 1 .. Newest /\ arrays'[a] = arrays[a]

\* The index of a thread is an entry of the published array.
LEMMA EntryKept ==
  ASSUME Inv, NEW t \in Threads
  PROVE  loc[t].x \in Entries(Newest)
<1>1. loc[t].x \in Nat /\ loc[t].x < dir.capacity
  BY Facts DEF LocalOK, Locals
<1>2. dir.capacity \in Nat /\ dir.capacity <= Pow2[DepthOf(Newest)]
  BY Facts
<1>3. Pow2[DepthOf(Newest)] \in Nat
  BY CurrentTyped
<1> QED
  BY <1>1, <1>2, <1>3 DEF Entries

\* The entries of an older array are entries of the newest one.
LEMMA OlderEntries ==
  ASSUME Inv, NEW a \in 1 .. Newest
  PROVE  Entries(a) \subseteq Entries(Newest)
<1>1. Newest \in Nat \ {0} /\ InitDepth \in Nat /\ a \in Nat \ {0}
  BY CurrentTyped, ExtendibleAssumption
<1>2. PICK m \in Nat, n \in Nat : m = DepthOf(a) /\ n = DepthOf(Newest) /\ m <= n
  BY <1>1 DEF DepthOf
<1>3. PICK p \in Nat \ {0}, q \in Nat \ {0} : p = Pow2[m] /\ q = Pow2[n - m] /\ Pow2[n] = p * q
  <2>1. n - m \in Nat
    BY <1>2
  <2>2. Pow2[m] \in Nat \ {0} /\ Pow2[n - m] \in Nat \ {0}
    BY <1>2, <2>1, Pow2Step
  <2>3. Pow2[n] = Pow2[m] * Pow2[n - m]
    BY <1>2, Pow2Diff
  <2> QED
    BY <2>2, <2>3
<1>4. p <= p * q
  <2>1. \A i, j \in Nat \ {0} : i <= i * j
    OBVIOUS
  <2> QED
    BY <2>1
<1> QED
  BY <1>2, <1>3, <1>4 DEF Entries

\* What a step does not touch stays true of it.
LEMMA FrameKeeps ==
  ASSUME Inv, Inv', Shape, Content, NEW t \in Threads, Others(t), Frame
  PROVE  /\ EntriesFound'
         /\ \A u \in Threads \ {t} : HalvesAt(u)' /\ FoundAt(u)' /\ PairAt(u)'
         /\ \A k \in acked : Kept(k)'
         /\ \A b \in Pointers : Gone(b) => BlockKept(b)'
<1>0. Pointers \subseteq Pointers' /\ \A u \in Threads : loc[u].target \in Pointers
  BY BusyFacts DEF Frame, PairsKept
<1>1. \A k \in acked : Kept(k)'
  BY DEF Inv, Typed, Content, AckedKept, Frame
<1>2. EntriesFound'
  <2> SUFFICES ASSUME NEW a \in 1 .. Newest', NEW x \in Entries(a)'
               PROVE  Gone(arrays[a][x])' \/ Current'[x] = arrays'[a][x]
    BY DEF EntriesFound
  <2>1. CASE a = Newest'
    BY <2>1, CurrentTyped DEF Current, Inv, Sizes
  <2>2. CASE a # Newest'
    <3>1. a \in 1 .. Newest /\ arrays'[a] = arrays[a] /\ x \in Entries(a)
      BY <2>2 DEF Frame, Entries, DepthOf
    <3>2. x \in Entries(Newest) /\ arrays[a][x] \in Pointers
      BY <3>1, OlderEntries DEF Inv, Typed
    <3>3. PICK b \in Pointers : b = arrays[a][x]
      BY <3>2
    <3>4. Gone(b) \/ Current[x] = b
      BY <3>1, <3>3 DEF Content, FoundOK, EntriesFound
    <3>5. Gone(b)' \/ Current'[x] = b
      BY <3>2, <3>4 DEF Frame
    <3>6. arrays'[a][x] = b
      BY <3>1, <3>3
    <3> QED
      BY <3>5, <3>6 DEF Gone
  <2> QED
    BY <2>1, <2>2
<1>3. ASSUME NEW u \in Threads \ {t} PROVE HalvesAt(u)'
  <2> SUFFICES ASSUME Busy(u)', NEW j \in Slots
               PROVE  \E h \in {loc'[u].s[1], loc'[u].s[2]} : Holds(h, Target(u).slot[j].key)'
    BY DEF HalvesAt
  <2>1. /\ Busy(u) /\ loc'[u] = loc[u] /\ loc[u].s[1] \in Pointers /\ loc[u].s[2] \in Pointers
    BY BusyFacts DEF Others, Busy
  <2>2. PICK k \in Keys : k = Target(u).slot[j].key
    <3>1. Target(u).split = TRUE
      BY <2>1 DEF Shape, HalvesOK, HalfPair
    <3> QED
      BY <1>0, <3>1 DEF Content, BlocksOK, SplitFull, Target
  <2>3. PICK h \in {loc[u].s[1], loc[u].s[2]} : Holds(h, k)
    BY <2>1, <2>2 DEF Content, HalvesHold, HalvesAt
  <2>4. Holds(h, k)'
    BY <2>1, <2>3, HoldsGrows DEF Frame
  <2>5. Target(u)'.slot[j].key = k
    BY <1>0, <2>1, <2>2 DEF Frame, PairsKept, SameSlot, Target
  <2> QED
    BY <2>1, <2>3, <2>4, <2>5 DEF Holds
<1>4. ASSUME NEW u \in Threads \ {t} PROVE FoundAt(u)'
  <2>1. pc'[u] = pc[u] /\ loc'[u] = loc[u] /\ loc[u].target \in Pointers
    BY <1>0 DEF Others
  <2>2. FoundAt(u) /\ loc[u].x \in Entries(Newest)
    BY EntryKept DEF Content, FoundOK
  <2>3. PICK b \in Pointers : b = loc[u].target
    BY <2>1
  <2>4. pc[u] \in FoundPCs => Gone(b)' \/ Current'[loc[u].x] = b
    BY <2>2, <2>3 DEF FoundAt, Frame
  <2>5. pc[u] = "i_flushentry" => Gone(b)' \/ arrays'[loc[u].arr][loc[u].x] = b
    <3> HAVE pc[u] = "i_flushentry"
    <3>1. loc[u].arr \in 1 .. Newest /\ loc[u].x \in Entries(loc[u].arr)
      BY Facts DEF LocalOK
    <3> QED
      BY <2>2, <2>3, <3>1 DEF FoundAt, Frame
  <2> QED
    BY <2>1, <2>3, <2>4, <2>5 DEF FoundAt, Gone
<1>5. ASSUME NEW u \in Threads \ {t} PROVE PairAt(u)'
  <2>1. /\ pc'[u] = pc[u] /\ loc'[u] = loc[u] /\ loc[u].target \in Pointers
        /\ Key(u)' = Key(u) /\ loc[u].ret \in -1 .. NumSlot - 1
    BY <1>0, Facts DEF Others, Key, Call, Locals
  <2>2. PairAt(u)
    BY DEF Content, PairOK
  <2>3. pc[u] # "idle" => Key(u) \in Keys
    BY Facts DEF LocalOK
  <2>4. loc[u].ret # -1 => loc[u].ret \in Slots
    BY <2>1, ExtendibleAssumption DEF Slots
  <2>5. ASSUME HasPair(u), Key(u) \in Keys, loc[u].ret # -1 PROVE HasPair(u)'
    BY <2>1, <2>4, <2>5 DEF HasPair, Frame, PairsKept, SameSlot, Target
  <2>6. pc[u] \in {"i_flusharr", "i_flushentry", "i_flush"} => loc[u].ret # -1
    BY Facts DEF LocalOK
  <2>7. ASSUME Kept(Key(u)), Key(u) \in Keys PROVE Kept(Key(u))'
    <3>1. PICK k \in Keys : k = Key(u)
      BY <2>7
    <3>2. Kept(k)'
      BY <2>7, <3>1 DEF Frame
    <3> QED
      BY <2>1, <3>1, <3>2 DEF Kept, EntryOf, Holds
  <2>8. (pc'[u] = "i_unlock" /\ loc'[u].ret # -1) \/ pc'[u] \in {"i_flusharr", "i_flushentry"} =>
          HasPair(u)'
    BY <2>1, <2>2, <2>3, <2>5, <2>6 DEF PairAt
  <2>9. pc'[u] = "i_flush" => HasPair(u)' \/ Kept(Key(u))'
    BY <2>1, <2>2, <2>3, <2>5, <2>6, <2>7 DEF PairAt
  <2> QED
    BY <2>8, <2>9 DEF PairAt
<1>6. ASSUME NEW b \in Pointers, Gone(b) PROVE BlockKept(b)'
  <2> SUFFICES ASSUME NEW j \in Slots PROVE Kept(blocks[b].slot[j].key)'
    BY DEF BlockKept
  <2>1. PICK k \in Keys : k = blocks[b].slot[j].key
    BY <1>6 DEF Content, BlocksOK, SplitFull, Gone
  <2>2. Kept(k)
    BY <1>6, <2>1 DEF Content, GoneKept, BlockKept
  <2>3. Kept(k)' /\ blocks'[b].slot[j].key = k
    BY <2>1, <2>2 DEF Frame, PairsKept, SameSlot
  <2> QED
    BY <2>3 DEF Kept, EntryOf, Holds
<1> QED
  BY <1>1, <1>2, <1>3, <1>4, <1>5, <1>6

\* What is left to show of a step that has this frame.
LEMMA FrameContent ==
  ASSUME Inv, Inv', Shape, Content, NEW t \in Threads, Others(t), Frame,
         BlocksOK', HalvesAt(t)', FoundAt(t)', PairAt(t)',
         \A b \in Pointers' : Gone(b)' => (b \in Pointers /\ Gone(b)) \/ BlockKept(b)',
         \A k \in acked' : k \in acked \/ Kept(k)'
  PROVE  Content'
<1>1. /\ EntriesFound'
      /\ \A u \in Threads \ {t} : HalvesAt(u)' /\ FoundAt(u)' /\ PairAt(u)'
      /\ \A k \in acked : Kept(k)'
      /\ \A b \in Pointers : Gone(b) => BlockKept(b)'
  BY FrameKeeps
<1>2. HalvesHold'
  BY <1>1 DEF HalvesHold
<1>3. FoundOK'
  BY <1>1 DEF FoundOK
<1>4. PairOK'
  BY <1>1 DEF PairOK
<1>5. GoneKept'
  BY <1>1 DEF GoneKept
<1>6. AckedKept'
  BY <1>1 DEF AckedKept
<1> QED
  BY <1>2, <1>3, <1>4, <1>5, <1>6 DEF Content

\* The entry of a key is an entry of the published array.
LEMMA EntryTyped ==
  ASSUME Inv, NEW k \in Keys
  PROVE  EntryOf(k) \in Entries(Newest)
<1>1. Hash[k] \in Nat
  <2>1. Pow2[HashBits] \in Nat
    BY Pow2Step, ExtendibleAssumption
  <2>2. Hash[k] \in 0 .. Pow2[HashBits] - 1
    BY ExtendibleAssumption DEF KeyWords
  <2> QED
    BY <2>1, <2>2
<1>2. PICK c \in Nat \ {0} : c = Pow2[DepthOf(Newest)] /\ Entries(Newest) = 0 .. c - 1
  BY CurrentTyped
<1> QED
  BY <1>1, <1>2 DEF EntryOf

\* Thread t has still to store b into entry x.
ToStore(t, x, b) ==
  pc[t] = "i_update" /\ \E i \in 1 .. Len(loc[t].writes) : loc[t].writes[i] = <<x, b>>

\* The blocks that an entry reaches,
LEMMA ReachedIs ==
  ASSUME Inv, NEW x
  PROVE  Reached(x) = {Current[x]} \cup {b \in Pointers : \E u \in Threads : ToStore(u, x, b)}
<1>1. DOMAIN blocks = Pointers
  BY DEF Inv, Typed, Pointers
<1> QED
  BY <1>1 DEF Reached, ToStore

\* and those that it reaches after a step.
LEMMA ReachedNext ==
  ASSUME Inv', NEW x
  PROVE  Reached(x)' = {Current'[x]} \cup {b \in Pointers' : \E u \in Threads : ToStore(u, x, b)'}
<1>1. DOMAIN blocks' = Pointers'
  BY DEF Inv, Typed, Pointers
<1> QED
  BY <1>1 DEF Reached, ToStore

\* They are allocated blocks.
LEMMA ReachedTyped ==
  ASSUME Inv, NEW x \in Entries(Newest)
  PROVE  Reached(x) \subseteq Pointers
BY CurrentTyped, ReachedIs

\* The directory is the same.
LEMMA SameArrays ==
  ASSUME Inv, PairsKept, arrays' = arrays, dir'.arr = dir.arr,
         \A b \in Pointers : Gone(b) => Gone(b)',
         \A x \in Entries(Newest) : Reached(x) \subseteq Reached(x)'
  PROVE  Frame
<1>1. Newest' = Newest /\ Current' = Current /\ Newest \in Nat \ {0}
  BY CurrentTyped DEF Newest, Current
<1>2. ASSUME NEW k \in Keys, Kept(k) PROVE Kept(k)'
  <2>1. PICK x \in Entries(Newest) : x = EntryOf(k) /\ EntryOf(k)' = x
    BY <1>1, EntryTyped DEF EntryOf, DepthOf
  <2>2. PICK b \in Reached(x) : Holds(b, k)
    BY <1>2, <2>1 DEF Kept
  <2>3. b \in Pointers /\ b \in Reached(x)'
    BY <2>2, ReachedTyped
  <2>4. Holds(b, k)'
    BY <2>2, <2>3, HoldsGrows
  <2> QED
    BY <2>1, <2>3, <2>4 DEF Kept, Reached
<1>3. \A a \in 1 .. Newest' : a # Newest' => a \in 1 .. Newest /\ arrays'[a] = arrays[a]
  BY <1>1
<1>4. Newest' >= Newest
  BY <1>1
<1> QED
  BY <1>1, <1>2, <1>3, <1>4 DEF Frame

\* Steps that the directory does not notice.
LEMMA CalmFrame ==
  ASSUME Inv, Inv', Content, NEW t \in Threads, Calm, SlotMove(t)
  PROVE  /\ Frame /\ Pointers' = Pointers /\ \A b \in Pointers : Gone(b)' <=> Gone(b)
         /\ \A x \in Entries(Newest) : Reached(x)' = Reached(x)
<1>1. /\ Pointers' = Pointers /\ arrays' = arrays /\ dir'.arr = dir.arr /\ Current' = Current
      /\ \A b \in Pointers : blocks'[b].split = blocks[b].split
  BY DEF Calm, SameBlocks, SameBits, Current
<1>2. PairsKept
  BY <1>1, PairsStay DEF PairsKept, Content, BlocksOK
<1>3. ASSUME NEW u \in Threads
      PROVE  /\ Pending(u)' <=> Pending(u)
             /\ Pending(u) => loc'[u] = loc[u]
             /\ (pc'[u] = "i_update" /\ loc'[u].writes # <<>>) <=> (pc[u] = "i_update" /\ loc[u].writes # <<>>)
             /\ pc'[u] = "i_update" => loc'[u] = loc[u]
  BY DEF Calm, Busy, Pending
<1>4. \A b \in Pointers : Gone(b)' <=> Gone(b)
  BY <1>1, <1>3 DEF Gone
<1>5. ASSUME NEW u \in Threads, NEW x, NEW b
      PROVE  ToStore(u, x, b)' <=> ToStore(u, x, b)
  <2>1. 1 .. Len(<<>>) = {}
    OBVIOUS
  <2>2. CASE pc[u] = "i_update" /\ loc[u].writes # <<>>
    BY <1>3, <2>2 DEF ToStore
  <2>3. CASE ~(pc[u] = "i_update" /\ loc[u].writes # <<>>)
    BY <1>3, <2>1, <2>3 DEF ToStore
  <2> QED
    BY <2>2, <2>3
<1>6. ASSUME NEW x \in Entries(Newest) PROVE Reached(x)' = Reached(x)
  <2>1. {b \in Pointers' : \E u \in Threads : ToStore(u, x, b)'} =
        {b \in Pointers : \E u \in Threads : ToStore(u, x, b)}
    BY <1>1, <1>5
  <2> QED
    BY <1>1, <2>1, ReachedIs, ReachedNext
<1> QED
  BY <1>1, <1>2, <1>4, <1>6, SameArrays

-----------------------------------------------------------------------------
(* A step that the directory does not notice                                *)

\* The pair that t is about to write back is where its key is looked up.
LEMMA FlushReached ==
  ASSUME Inv, Shape, Content, NEW t \in Threads, pc[t] = "i_flush"
  PROVE  Kept(Key(t)) \/ (HasPair(t) /\ loc[t].target \in Reached(EntryOf(Key(t))))
<1>1. /\ HasPair(t) \/ Kept(Key(t))
      /\ loc[t].ret \in Slots /\ loc[t].target \in Pointers /\ Key(t) \in Keys
  <2>1. loc[t].ret \in -1 .. NumSlot - 1 /\ loc[t].ret # -1 /\ Key(t) \in Keys
    BY Facts DEF LocalOK, Locals
  <2> QED
    BY <2>1, BusyFacts, ExtendibleAssumption DEF Slots, Content, PairOK, PairAt
<1> SUFFICES ASSUME HasPair(t) PROVE Kept(Key(t)) \/ loc[t].target \in Reached(EntryOf(Key(t)))
  BY <1>1
<1>2. PICK b \in Pointers, k \in Keys, j \in Slots :
        b = loc[t].target /\ k = Key(t) /\ j = loc[t].ret /\ blocks[b].slot[j].key = k
  BY <1>1 DEF HasPair, Target
<1>3. CASE Gone(b)
  <2>1. Kept(blocks[b].slot[j].key)
    BY <1>3 DEF Content, GoneKept, BlockKept
  <2> QED
    BY <1>2, <2>1
<1>4. CASE ~Gone(b)
  <2>1. ~Unpublished(b)
    BY <1>2 DEF Shape, HalvesHidden, Hidden, Unpublished
  <2>2. Belongs(blocks[b], k)
    BY <1>2 DEF Content, BlocksOK, KeysBelong
  <2> QED
    BY <1>2, <1>4, <2>1, <2>2, PairReached
<1> QED
  BY <1>3, <1>4

\* The key of t, once it is in its slot, stays there.
LEMMA PairStays ==
  ASSUME Inv, NEW t \in Threads, PairsKept, HasPair(t), pc[t] # "idle", loc[t].ret # -1,
         loc'[t].target = loc[t].target, loc'[t].ret = loc[t].ret, todo'[t] = todo[t]
  PROVE  HasPair(t)'
<1>1. loc[t].ret \in -1 .. NumSlot - 1 /\ Key(t) \in Keys /\ Key(t)' = Key(t)
  BY Facts DEF LocalOK, Locals, Key, Call
<1>2. loc[t].ret \in Slots /\ loc[t].target \in Pointers
  BY <1>1, BusyFacts, ExtendibleAssumption DEF Slots
<1> QED
  BY <1>1, <1>2 DEF HasPair, Target, PairsKept, SameSlot

\* A key that is found stays found.
LEMMA KeptStays ==
  ASSUME Frame, NEW k \in Keys, Kept(k)
  PROVE  Kept(k)'
BY DEF Frame

\* A thread that has found a block and not yet stored its key there.
SeekPCs == {"i_gate", "i_lock", "i_probe", "i_value", "i_key"}

\* What such a step does to the thread that takes it.
Leaves(t) == pc'[t] \notin FoundPCs \cup {"i_flush"} /\ acked' = acked
Finds(t) ==
  /\ pc[t] = "i_entry" /\ pc'[t] = "i_gate" /\ acked' = acked /\ loc'[t].x = loc[t].x
  /\ loc'[t].target = arrays[loc[t].arr][loc[t].x] /\ todo'[t] = todo[t]
  /\ Torn(t) \subseteq races'
Stays(t) ==
  /\ pc[t] \in FoundPCs \ {"i_flushentry"} /\ pc'[t] \in FoundPCs \ {"i_flushentry"}
  /\ loc'[t].x = loc[t].x /\ loc'[t].target = loc[t].target /\ todo'[t] = todo[t] /\ acked' = acked
  /\ pc'[t] \in SeekPCs => pc[t] \in SeekPCs
  /\ pc'[t] = "i_unlock" /\ loc'[t].ret # -1 => pc[t] = "i_key" /\ loc'[t].ret = loc[t].ret
  /\ pc'[t] = "i_flusharr" => /\ pc[t] = "i_unlock" /\ loc[t].ret # -1
                              /\ loc'[t].ret = loc[t].ret
LooksAgain(t) ==
  /\ pc[t] = "i_flusharr" /\ pc'[t] = "i_flushentry" /\ loc'[t].arr = dir.arr
  /\ loc'[t].x = loc[t].x /\ loc'[t].target = loc[t].target /\ loc'[t].ret = loc[t].ret
  /\ todo'[t] = todo[t] /\ acked' = acked
FindsAgain(t) ==
  /\ pc[t] = "i_flushentry" /\ pc'[t] = "i_flush"
  /\ loc'[t].target = arrays[loc[t].arr][loc[t].x] /\ loc'[t].ret = loc[t].ret
  /\ todo'[t] = todo[t] /\ acked' = acked
WritesBack(t) ==
  /\ pc[t] = "i_flush" /\ pc'[t] = "idle" /\ acked' = acked \cup {Key(t)}
  /\ blocks'[loc[t].target].slot[loc[t].ret].key = Target(t).slot[loc[t].ret].key
  /\ blocks'[loc[t].target].slot[loc[t].ret].durable = TRUE

\* A block whose keys are found, key by key.
LEMMA KeptBlock ==
  ASSUME NEW b, \A j \in Slots : \E k : k = blocks'[b].slot[j].key /\ Kept(k)'
  PROVE  BlockKept(b)'
BY DEF BlockKept, Kept, EntryOf, Holds

\* A step that the directory does not notice keeps the contents.
LEMMA CalmContent ==
  ASSUME Inv, Inv', Patterns, KeyBelongs, Shape, Content, NEW t \in Threads, Calm, BlockMove(t),
         ~Busy(t)',
         Leaves(t) \/ Finds(t) \/ Stays(t) \/ LooksAgain(t) \/ FindsAgain(t) \/ WritesBack(t)
  PROVE  Content'
<1>1. /\ Others(t) /\ Frame /\ PairsKept /\ BlocksOK' /\ HalvesAt(t)'
      /\ Pointers' = Pointers /\ \A b \in Pointers : Gone(b)' <=> Gone(b)
      /\ \A x \in Entries(Newest) : Reached(x)' = Reached(x)
  BY CalmFrame, MoveBlocks DEF BlockMove, SlotMove, Content, HalvesAt, Frame
<1>2. /\ arrays' = arrays /\ Newest' = Newest /\ Current' = Current
      /\ dir.arr = Newest /\ Newest \in 1 .. Newest
  BY CurrentTyped DEF Calm, Newest, Current, Inv, Sizes
<1>3. loc[t].target \in Pointers /\ loc[t].x \in Entries(Newest) /\ FoundAt(t) /\ PairAt(t)
  BY BusyFacts, EntryKept DEF Content, FoundOK, PairOK
<1>4. pc[t] # "idle" => Key(t) \in Keys
  BY Facts DEF LocalOK
<1>5. /\ loc[t].arr \in 1 .. Newest
      /\ pc[t] \in {"i_entry", "i_flushentry"} => loc[t].x \in Entries(loc[t].arr)
      /\ pc[t] \in {"i_value", "i_key", "i_flusharr", "i_flushentry", "i_flush"} => loc[t].ret # -1
  BY Facts DEF LocalOK
<1>6. SUFFICES FoundAt(t)' /\ PairAt(t)' /\ \A k \in acked' : k \in acked \/ Kept(k)'
  BY <1>1, FrameContent
<1>7. CASE Leaves(t)
  BY <1>7 DEF Leaves, FoundAt, PairAt, FoundPCs
<1>8. CASE Finds(t)
  <2>1. PICK b \in Pointers : b = arrays[loc[t].arr][loc[t].x]
    BY <1>5, <1>8 DEF Finds, Inv, Typed
  <2>2. Gone(b) \/ Current[loc[t].x] = b
    BY <1>5, <1>8, <2>1 DEF Finds, Content, FoundOK, EntriesFound
  <2>3. Gone(b)' \/ Current'[loc'[t].x] = b
    BY <1>1, <1>2, <1>8, <2>2 DEF Finds
  <2>4. loc'[t].target = b
    BY <1>8, <2>1 DEF Finds
  <2>5. FoundAt(t)'
    BY <1>8, <2>3, <2>4 DEF FoundAt, Finds, Gone
  <2> QED
    BY <1>8, <2>5 DEF PairAt, Finds
<1>9. ASSUME pc[t] \in FoundPCs, loc'[t].x = loc[t].x, loc'[t].target = loc[t].target,
             pc'[t] = "i_flushentry" => loc'[t].arr = dir.arr
      PROVE  FoundAt(t)'
  <2>1. PICK b \in Pointers : b = loc[t].target
    BY <1>3
  <2>2. Gone(b)' \/ Current'[loc'[t].x] = b
    BY <1>1, <1>2, <1>3, <1>9, <2>1 DEF FoundAt
  <2>3. loc'[t].target = b /\ (pc'[t] = "i_flushentry" => arrays'[loc'[t].arr] = Current')
    BY <1>2, <1>9, <2>1 DEF Current
  <2> QED
    BY <2>2, <2>3 DEF FoundAt, Gone
<1>10. CASE Stays(t)
  <2>1. FoundAt(t)'
    BY <1>9, <1>10 DEF Stays
  <2>2. pc'[t] = "i_unlock" /\ loc'[t].ret # -1 => HasPair(t)'
    <3> HAVE pc'[t] = "i_unlock" /\ loc'[t].ret # -1
    <3>1. pc[t] = "i_key" /\ loc'[t].ret = loc[t].ret /\ Taken(t) /\ ~Taken(t)'
      BY <1>10 DEF Stays, Taken
    <3>2. FillsSlot(t)
      BY <3>1 DEF BlockMove, SlotMove, KeepsSlots, TakesSlot
    <3> QED
      BY <1>10, <3>1, <3>2 DEF Stays, FillsSlot, HasPair, Target, Key, Call
  <2>3. pc'[t] = "i_flusharr" => HasPair(t)'
    <3> HAVE pc'[t] = "i_flusharr"
    <3>1. pc[t] = "i_unlock" /\ loc[t].ret # -1 /\ loc'[t].ret = loc[t].ret /\ HasPair(t)
      BY <1>3, <1>10 DEF Stays, PairAt
    <3> QED
      BY <1>1, <1>10, <3>1, PairStays DEF Stays
  <2> QED
    BY <1>10, <2>1, <2>2, <2>3 DEF Stays, PairAt, FoundPCs
<1>11. CASE LooksAgain(t)
  <2>1. FoundAt(t)'
    BY <1>9, <1>11 DEF LooksAgain, FoundPCs
  <2>2. HasPair(t)
    BY <1>3, <1>11 DEF LooksAgain, PairAt
  <2>3. HasPair(t)'
    BY <1>1, <1>5, <1>11, <2>2, PairStays DEF LooksAgain
  <2> QED
    BY <1>11, <2>1, <2>3 DEF LooksAgain, PairAt
<1>12. CASE FindsAgain(t)
  <2>1. HasPair(t) /\ loc[t].ret # -1 /\ Key(t) \in Keys /\ Key(t)' = Key(t)
    BY <1>3, <1>4, <1>5, <1>12 DEF FindsAgain, PairAt, Key, Call
  <2>2. PICK b \in Pointers : b = loc[t].target
    BY <1>3
  <2>3. CASE Gone(b)
    <3>1. PICK j \in Slots : j = loc[t].ret
      <4>1. loc[t].ret \in -1 .. NumSlot - 1
        BY Facts DEF Locals
      <4> QED
        BY <2>1, <4>1, ExtendibleAssumption DEF Slots
    <3>2. Kept(blocks[b].slot[j].key)
      BY <2>3 DEF Content, GoneKept, BlockKept
    <3>3. PICK k \in Keys : k = Key(t) /\ Kept(k)
      BY <2>1, <2>2, <3>1, <3>2 DEF HasPair, Target
    <3>4. Kept(k)'
      BY <1>1, <3>3, KeptStays
    <3>5. Kept(Key(t))'
      BY <2>1, <3>3, <3>4 DEF Kept, EntryOf, Holds
    <3> QED
      BY <1>12, <3>5 DEF FindsAgain, FoundAt, PairAt, FoundPCs
  <2>4. CASE ~Gone(b)
    <3>1. loc'[t].target = loc[t].target
      BY <1>3, <1>12, <2>2, <2>4 DEF FindsAgain, FoundAt
    <3>2. HasPair(t)'
      BY <1>1, <1>12, <2>1, <3>1, PairStays DEF FindsAgain
    <3> QED
      BY <1>12, <3>2 DEF FindsAgain, FoundAt, PairAt, FoundPCs
  <2> QED
    BY <2>3, <2>4
<1>13. CASE WritesBack(t)
  <2>1. PICK k \in Keys, b \in Pointers, j \in Slots : k = Key(t) /\ b = loc[t].target /\ j = loc[t].ret
    <3>1. loc[t].ret \in -1 .. NumSlot - 1 /\ loc[t].ret # -1
      BY <1>5, <1>13, Facts DEF Locals, WritesBack
    <3>2. loc[t].ret \in Slots
      BY <3>1, ExtendibleAssumption DEF Slots
    <3> QED
      BY <1>3, <1>4, <1>13, <3>2 DEF WritesBack
  <2>2. Kept(k)'
    <3>1. CASE Kept(k)
      BY <1>1, <3>1, KeptStays
    <3>2. CASE ~Kept(k)
      <4>1. HasPair(t) /\ b \in Reached(EntryOf(k))
        BY <1>13, <2>1, <3>2, FlushReached DEF WritesBack
      <4>2. Holds(b, k)'
        BY <1>13, <2>1, <4>1 DEF WritesBack, HasPair, Target, Holds
      <4>3. EntryOf(k)' = EntryOf(k) /\ EntryOf(k) \in Entries(Newest)
        BY <1>2, EntryTyped DEF EntryOf, DepthOf
      <4>4. PICK x \in Entries(Newest) : x = EntryOf(k)
        BY <4>3
      <4>5. b \in Reached(x)'
        BY <1>1, <4>1, <4>4
      <4> QED
        BY <4>2, <4>3, <4>4, <4>5 DEF Kept, Reached
    <3> QED
      BY <3>1, <3>2
  <2> QED
    BY <1>13, <2>1, <2>2 DEF WritesBack, FoundAt, PairAt, FoundPCs
<1> QED
  BY <1>7, <1>8, <1>10, <1>11, <1>12, <1>13

\* The load of an entry.
LEMMA ReadEntryMove ==
  ASSUME Inv, NEW t \in Threads, NEW from, NEW to, NEW torn, ReadEntry(t, from, to, torn)
  PROVE  /\ pc[t] = from /\ acked' = acked /\ todo' = todo /\ torn \subseteq races'
         /\ loc'[t].must = loc[t].must
         /\ loc'[t].x = loc[t].x /\ loc'[t].ret = loc[t].ret
         /\ \/ pc'[t] = to /\ loc'[t].target = arrays[loc[t].arr][loc[t].x]
            \/ pc'[t] = "lost"
<1>1. loc \in [Threads -> Locals] /\ loc[t] \in Locals /\ pc \in [Threads -> PCs]
  BY DEF Inv, Typed
<1>2. PICK v : v = arrays[loc[t].arr][loc[t].x]
  OBVIOUS
<1>3. /\ pc[t] = from /\ acked' = acked /\ todo' = todo /\ torn \subseteq races'
      /\ \/ pc' = [pc EXCEPT ![t] = to] /\ loc' = [loc EXCEPT ![t] = [loc[t] EXCEPT !["target"] = v]]
         \/ pc' = [pc EXCEPT ![t] = "lost"] /\ loc' = loc
  BY <1>2 DEF ReadEntry, Put, Goto
<1>4. /\ [loc[t] EXCEPT !["target"] = v].target = v
      /\ [loc[t] EXCEPT !["target"] = v].ret = loc[t].ret
      /\ [loc[t] EXCEPT !["target"] = v].x = loc[t].x
      /\ [loc[t] EXCEPT !["target"] = v].must = loc[t].must
  BY <1>1 DEF Locals
<1> QED
  BY <1>1, <1>2, <1>3, <1>4

\* What every such step does to its thread.
LEMMA CalmOwn ==
  ASSUME Inv, NEW t \in Threads, Step(t),
         ~Acquire(t), ~StoreEntry(t), ~PublishArray(t), ~(Split(t) /\ Target(t).sema = 0)
  PROVE  /\ ~Busy(t)'
         /\ Leaves(t) \/ Finds(t) \/ Stays(t) \/ LooksAgain(t) \/ FindsAgain(t) \/ WritesBack(t)
<1>0. loc \in [Threads -> Locals] /\ loc[t] \in Locals /\ pc \in [Threads -> PCs]
  BY DEF Inv, Typed
<1>1. ASSUME pc'[t] \in {"idle", "i_cap", "g_cap", "i_arr", "i_entry", "g_arr", "g_entry", "g_scan",
                         "g_return", "lost", "i_release", "i_delete", "i_split"},
             acked' = acked
      PROVE  ~Busy(t)' /\ Leaves(t)
  BY <1>1 DEF Busy, Leaves, FoundPCs
<1>2. CASE Start(t) \/ GetScan(t)
  <2>1. acked' = acked /\ pc'[t] \in {"i_cap", "g_cap", "g_return"}
    BY <1>0, <1>2 DEF Start, GetScan, Goto
  <2> QED
    BY <1>1, <2>1
<1>3. CASE ReadCapacity(t) \/ ReadArray(t) \/ GetCapacity(t) \/ GetArray(t)
  <2>1. acked' = acked /\ pc'[t] \in {"i_arr", "i_entry", "g_arr", "g_entry"}
    BY <1>0, <1>3 DEF ReadCapacity, ReadArray, GetCapacity, GetArray, Read, Goto
  <2> QED
    BY <1>1, <2>1
<1>4. CASE ReadFlushArray(t)
  <2>1. /\ pc[t] = "i_flusharr" /\ pc'[t] = "i_flushentry" /\ acked' = acked /\ todo' = todo
        /\ loc'[t].target = loc[t].target /\ loc'[t].ret = loc[t].ret /\ loc'[t].x = loc[t].x
        /\ loc'[t].arr = dir.arr
    <3>1. /\ pc[t] = "i_flusharr" /\ pc'[t] = "i_flushentry" /\ acked' = acked /\ todo' = todo
          /\ loc' = [loc EXCEPT ![t] = [loc[t] EXCEPT !["arr"] = dir.arr]]
      BY <1>0, <1>4 DEF ReadFlushArray, Read, Goto, Put
    <3>2. /\ [loc[t] EXCEPT !["arr"] = dir.arr].target = loc[t].target
          /\ [loc[t] EXCEPT !["arr"] = dir.arr].ret = loc[t].ret
          /\ [loc[t] EXCEPT !["arr"] = dir.arr].x = loc[t].x
          /\ [loc[t] EXCEPT !["arr"] = dir.arr].arr = dir.arr
      BY <1>0 DEF Locals
    <3> QED
      BY <1>0, <3>1, <3>2
  <2> QED
    BY <2>1 DEF Busy, LooksAgain
<1>5. CASE ReadTarget(t)
  <2>1. /\ pc[t] = "i_entry" /\ acked' = acked /\ todo' = todo /\ Torn(t) \subseteq races'
        /\ loc'[t].x = loc[t].x /\ loc'[t].ret = loc[t].ret
        /\ \/ pc'[t] = "i_gate" /\ loc'[t].target = arrays[loc[t].arr][loc[t].x]
           \/ pc'[t] = "lost"
    BY <1>5, ReadEntryMove DEF ReadTarget
  <2> QED
    BY <1>1, <2>1 DEF Busy, Finds
<1>6. CASE ReadFlushBlock(t)
  <2>1. /\ pc[t] = "i_flushentry" /\ acked' = acked /\ todo' = todo
        /\ loc'[t].x = loc[t].x /\ loc'[t].ret = loc[t].ret
        /\ \/ pc'[t] = "i_flush" /\ loc'[t].target = arrays[loc[t].arr][loc[t].x]
           \/ pc'[t] = "lost"
    BY <1>6, ReadEntryMove DEF ReadFlushBlock
  <2> QED
    BY <1>1, <2>1 DEF Busy, FindsAgain
<1>7. CASE GetTarget(t)
  <2>1. acked' = acked /\ pc'[t] \in {"g_scan", "lost"}
    BY <1>0, <1>7 DEF GetTarget, ReadEntry, Goto
  <2> QED
    BY <1>1, <2>1
<1>8. CASE Gate(t)
  <2>1. /\ acked' = acked /\ pc[t] = "i_gate"
        /\ pc'[t] \in {"i_cap", "idle"} \/ (pc'[t] = "i_lock" /\ loc' = loc /\ todo' = todo)
    BY <1>0, <1>8 DEF Gate, Goto, Return
  <2> QED
    BY <1>1, <2>1 DEF Busy, Stays, FoundPCs, SeekPCs
<1>9. CASE Lock(t) \/ StoreValue(t)
  <2>1. /\ acked' = acked /\ loc' = loc /\ todo' = todo
        /\ \/ pc[t] = "i_lock" /\ pc'[t] = "i_probe"
           \/ pc[t] = "i_value" /\ pc'[t] = "i_key"
    BY <1>0, <1>9 DEF Lock, StoreValue, Goto
  <2> QED
    BY <2>1 DEF Busy, Stays, FoundPCs, SeekPCs
<1>10. CASE StoreKey(t)
  <2>1. /\ acked' = acked /\ loc' = loc /\ todo' = todo
        /\ pc[t] = "i_key" /\ pc'[t] = "i_unlock"
    BY <1>0, <1>10 DEF StoreKey, Goto
  <2> QED
    BY <2>1 DEF Busy, Stays, FoundPCs, SeekPCs
<1>11. CASE Probe(t)
  <2>1. PICK r : /\ acked' = acked /\ todo' = todo /\ pc[t] = "i_probe"
                 /\ loc' = [loc EXCEPT ![t] = [loc[t] EXCEPT !["ret"] = r]]
                 /\ pc'[t] = "i_value" \/ (pc'[t] = "i_unlock" /\ r = -1)
    BY <1>0, <1>11 DEF Probe, Goto, Put
  <2>2. loc'[t].x = loc[t].x /\ loc'[t].target = loc[t].target /\ loc'[t].ret = r
    <3>1. /\ [loc[t] EXCEPT !["ret"] = r].x = loc[t].x
          /\ [loc[t] EXCEPT !["ret"] = r].target = loc[t].target
          /\ [loc[t] EXCEPT !["ret"] = r].ret = r
      BY <1>0 DEF Locals
    <3> QED
      BY <1>0, <2>1, <3>1
  <2> QED
    BY <2>1, <2>2 DEF Busy, Stays, FoundPCs, SeekPCs
<1>12. CASE Unlock(t)
  <2>1. /\ acked' = acked /\ pc[t] = "i_unlock"
        /\ \/ pc'[t] \in {"i_split", "idle"}
           \/ pc'[t] = "i_flusharr" /\ loc[t].ret # -1 /\ loc' = loc /\ todo' = todo
    BY <1>0, <1>12 DEF Unlock, Goto, Return
  <2> QED
    BY <1>1, <2>1 DEF Busy, Stays, FoundPCs, SeekPCs
<1>13. CASE FlushPair(t)
  <2>1. /\ pc[t] = "i_flush" /\ pc'[t] = "idle" /\ acked' = acked \cup {Key(t)}
    BY <1>0, <1>13 DEF FlushPair, Goto, Return
  <2>2. PICK i \in Slots : i = loc[t].ret
    <3>1. loc[t].ret \in -1 .. NumSlot - 1 /\ loc[t].ret # -1
      BY <2>1, Facts DEF LocalOK, Locals
    <3> QED
      BY <3>1, ExtendibleAssumption DEF Slots
  <2>3. PICK e : e = [Target(t).slot[i] EXCEPT !.durable = TRUE]
    OBVIOUS
  <2>4. Target(t).slot[i] \in Pair
    BY BusyFacts DEF Block
  <2>5. e \in Pair /\ e.key = Target(t).slot[i].key /\ e.durable = TRUE
    <3>1. \A d \in Pair : /\ [d EXCEPT !.durable = TRUE] \in Pair
                          /\ [d EXCEPT !.durable = TRUE].key = d.key
                          /\ [d EXCEPT !.durable = TRUE].durable = TRUE
      BY DEF Pair
    <3> QED
      BY <2>3, <2>4, <3>1
  <2>6. blocks' = [blocks EXCEPT ![loc[t].target] = [Target(t) EXCEPT !.slot[i] = e]]
    BY <1>13, <2>2, <2>3 DEF FlushPair, Target
  <2>7. blocks'[loc[t].target].slot[i] = e
    <3>1. pc'[t] \notin HoldPCs /\ pc[t] \notin HoldPCs /\ ~SawFull(t)' /\ Others(t)
      BY <2>1, OthersStay DEF HoldPCs, SawFull
    <3> QED
      BY <2>5, <2>6, <3>1, SlotPut
  <2>8. WritesBack(t)
    BY <2>1, <2>2, <2>5, <2>7 DEF WritesBack
  <2> QED
    BY <2>1, <2>8 DEF Busy
<1>14. CASE ReturnGet(t)
  <2>1. acked' = acked /\ pc'[t] = "idle"
    BY <1>0, <1>14 DEF ReturnGet, Return, Goto
  <2> QED
    BY <1>1, <2>1
<1>15. CASE Split(t)
  <2>1. acked' = acked /\ pc'[t] = "i_cap"
    BY <1>0, <1>15 DEF Split, Goto
  <2> QED
    BY <1>1, <2>1
<1>16. CASE EndUpdate(t) \/ PublishCapacity(t) \/ DeleteOld(t) \/ Release(t)
  <2>1. acked' = acked /\ pc'[t] \in {"i_release", "i_delete", "i_cap"}
    BY <1>0, <1>16 DEF EndUpdate, PublishCapacity, DeleteOld, Release, Goto
  <2> QED
    BY <1>1, <2>1
<1> QED
  BY <1>2, <1>3, <1>4, <1>5, <1>6, <1>7, <1>8, <1>9, <1>10, <1>11, <1>12, <1>13, <1>14, <1>15, <1>16
  DEF Step

-----------------------------------------------------------------------------
(* Splitting, and the choice of what to do with the halves                   *)

\* The halves of a new split have the pairs, and nothing else has changed.
LEMMA SplitContent ==
  ASSUME Inv, Inv', Patterns, KeyBelongs, Shape, Content, NEW t \in Threads, Others(t),
         NEW c \in Block, NEW h1 \in Block, NEW h2 \in Block, SplitStep(t, c, h1, h2),
         Target(t).split = FALSE
  PROVE  Content'
<1> DEFINE tg == loc[t].target
<1>1. /\ BlocksOK' /\ HalvesAt(t)'
      /\ \A b \in Pointers : blocks'[b].slot = blocks[b].slot
  BY SplitBlocks DEF Content
<1>2. /\ pc[t] = "i_split" /\ pc'[t] = "i_acquire" /\ arrays' = arrays /\ dir' = dir
      /\ acked' = acked /\ Current' = Current
  BY GotoOthers DEF SplitStep, Current
<1>3. /\ tg \in Pointers /\ loc'[t].target = tg
      /\ \A b \in Pointers \ {tg} : blocks'[b] = blocks[b]
      /\ \A b \in Pointers' : b \notin Pointers => blocks'[b].split = FALSE
      /\ Pointers \subseteq Pointers'
  <2>1. Len(blocks) \in Nat /\ Len(blocks') = Len(blocks) + 2
    BY DEF Inv, Typed, SplitStep
  <2>2. \A b \in Pointers' : b \in Pointers \/ b = Len(blocks) + 1 \/ b = Len(blocks) + 2
    BY <2>1 DEF Pointers
  <2>3. Pointers \subseteq Pointers'
    BY <2>1 DEF Pointers
  <2>4. loc'[t].target = tg
    BY DEF SplitStep, Inv, Typed, Locals
  <2> QED
    BY <2>2, <2>3, <2>4, BusyFacts DEF SplitStep
<1>4. PairsKept
  BY <1>1, <1>3 DEF PairsKept, SameSlot
<1>5. ~Pending(t) /\ Pending(t)' /\ \A u \in Threads \ {t} : (Pending(u)' <=> Pending(u)) /\ loc'[u] = loc[u]
  BY <1>2 DEF Pending, Others
<1>6. blocks[tg].split # TRUE
  BY DEF Target
<1> HIDE DEF tg
<1>7. \A b \in Pointers : Gone(b) => Gone(b)'
  BY <1>3, <1>5, <1>6 DEF Gone
<1>8. \A b \in Pointers' : Gone(b)' => b \in Pointers /\ Gone(b)
  BY <1>3, <1>5 DEF Gone
<1>9. ASSUME NEW x \in Entries(Newest) PROVE Reached(x) \subseteq Reached(x)'
  <2>1. \A u \in Threads : \A b : ToStore(u, x, b) => ToStore(u, x, b)'
    BY <1>2 DEF ToStore, Others
  <2> QED
    BY <1>2, <1>3, <2>1, ReachedIs, ReachedNext
<1>10. Frame
  BY <1>2, <1>4, <1>7, <1>9, SameArrays
<1>11. FoundAt(t)' /\ PairAt(t)'
  BY <1>2 DEF FoundAt, PairAt, FoundPCs
<1> QED
  BY <1>1, <1>2, <1>8, <1>10, <1>11, FrameContent

\* A step of the owner that leaves the blocks and the arrays alone.
LEMMA OwnContent ==
  ASSUME Inv, Inv', KeyBelongs, Shape, Content, NEW t \in Threads, Others(t), BlockMove(t),
         Busy(t), pc'[t] \in {"i_update", "i_double"}, blocks' = blocks, acked' = acked, Frame,
         loc'[t].target = loc[t].target, loc'[t].s = loc[t].s,
         \A b \in Pointers : Gone(b)' => Gone(b) \/ BlockKept(b)'
  PROVE  Content'
<1>1. BlocksOK'
  BY MoveBlocks DEF Content
<1>2. HalvesAt(t)'
  BY DEF Content, HalvesHold, HalvesAt, Target, Holds
<1>3. FoundAt(t)' /\ PairAt(t)'
  BY DEF FoundAt, PairAt, FoundPCs
<1>4. Pointers' = Pointers
  BY DEF Pointers
<1> QED
  BY <1>1, <1>2, <1>3, <1>4, FrameContent

\* Acquire chooses to double.
LEMMA DoubleContent ==
  ASSUME Inv, Inv', KeyBelongs, Shape, Content, NEW t \in Threads, Others(t), BlockMove(t),
         pc[t] = "i_acquire", pc'[t] = "i_double", blocks' = blocks, arrays' = arrays,
         dir'.arr = dir.arr, acked' = acked,
         loc'[t].target = loc[t].target, loc'[t].s = loc[t].s
  PROVE  Content'
<1>1. Pointers' = Pointers /\ Current' = Current /\ Busy(t)
  BY DEF Pointers, Current, Busy
<1>2. PairsKept
  BY <1>1 DEF PairsKept, SameSlot
<1>3. \A u \in Threads : (Pending(u)' <=> Pending(u)) /\ loc'[u].target = loc[u].target
  BY DEF Others, Pending
<1>4. \A b \in Pointers : Gone(b)' <=> Gone(b)
  BY <1>3 DEF Gone
<1>5. ASSUME NEW x \in Entries(Newest) PROVE Reached(x) \subseteq Reached(x)'
  <2>1. \A u \in Threads : \A b : ToStore(u, x, b) => ToStore(u, x, b)'
    BY DEF ToStore, Others
  <2> QED
    BY <1>1, <2>1, ReachedIs, ReachedNext
<1>6. Frame
  BY <1>2, <1>4, <1>5, SameArrays
<1> QED
  BY <1>1, <1>4, <1>6, OwnContent

\* Every pair of t's target is in the half for the entry of its key.
LEMMA PairInHalf ==
  ASSUME Inv, Patterns, Shape, Content, NEW t \in Threads, Busy(t), NEW k, NEW j \in Slots,
         k = Target(t).slot[j].key, Target(t).local_depth < DepthOf(Newest)
  PROVE  /\ k \in Keys /\ EntryOf(k) \in Entries(Newest) /\ Selects(loc[t].target, EntryOf(k))
         /\ HalfFor(t, EntryOf(k)) \in Pointers /\ Holds(HalfFor(t, EntryOf(k)), k)
<1>1. loc[t].target \in Pointers /\ loc[t].s[1] \in Pointers /\ loc[t].s[2] \in Pointers
  BY BusyFacts
<1>2. Target(t).split = TRUE
  BY DEF Shape, HalvesOK, HalfPair
<1>3. k \in Keys
  BY <1>1, <1>2 DEF Content, BlocksOK, SplitFull, Target
<1>4. PICK h \in {loc[t].s[1], loc[t].s[2]} : Holds(h, k)
  BY DEF Content, HalvesHold, HalvesAt
<1>5. /\ EntryOf(k) \in Entries(Newest) /\ Selects(loc[t].target, EntryOf(k))
      /\ h = HalfFor(t, EntryOf(k))
  BY <1>3, <1>4, HalfOfKey DEF Content
<1> QED
  BY <1>1, <1>3, <1>4, <1>5

\* t alone has split its target.
LEMMA TargetGone ==
  ASSUME Inv, Shape, NEW t \in Threads, Busy(t)
  PROVE  /\ blocks[loc[t].target].split = TRUE
         /\ \A u \in Threads \ {t} : ~(Pending(u) /\ loc[u].target = loc[t].target)
<1>1. blocks[loc[t].target].split = TRUE
  BY DEF Shape, HalvesOK, HalfPair, Target
<1>2. ASSUME NEW u \in Threads \ {t}, Pending(u) PROVE loc[u].target # loc[t].target
  <2>1. Busy(u)
    BY <1>2 DEF Pending, Busy
  <2> QED
    BY <2>1 DEF Shape, Distinct
<1> QED
  BY <1>1, <1>2

\* Acquire chooses to store entries: the halves take over the target's keys.
LEMMA UpdateContent ==
  ASSUME Inv, Inv', Patterns, KeyBelongs, Shape, Content, NEW t \in Threads, Others(t), BlockMove(t),
         pc[t] = "i_acquire", pc'[t] = "i_update", blocks' = blocks, arrays' = arrays,
         dir'.arr = dir.arr, acked' = acked,
         loc'[t].target = loc[t].target, loc'[t].s = loc[t].s,
         NEW w \in Seq(Entries(Newest) \X Pointers), loc'[t].writes = w,
         Target(t).local_depth < DepthOf(Newest),
         \A i \in 1 .. Len(w) : Selects(loc[t].target, w[i][1]) /\ w[i][2] = HalfFor(t, w[i][1]),
         \A z \in Entries(Newest) : Selects(loc[t].target, z) => \E i \in 1 .. Len(w) : w[i][1] = z
  PROVE  Content'
<1> DEFINE tg == loc[t].target
<1>1. /\ Pointers' = Pointers /\ Newest' = Newest /\ Current' = Current /\ Busy(t)
      /\ Pending(t) /\ ~Pending(t)' /\ tg \in Pointers
  BY BusyFacts DEF Pointers, Newest, Current, Busy, Pending
<1>2. PairsKept
  BY <1>1 DEF PairsKept, SameSlot
<1>3. \A u \in Threads \ {t} : (Pending(u)' <=> Pending(u)) /\ loc'[u].target = loc[u].target
  BY DEF Others, Pending
<1>4. \A b \in Pointers : Gone(b) => Gone(b)'
  BY <1>1, <1>3 DEF Gone
<1>5. \A b \in Pointers : Gone(b)' => Gone(b) \/ b = tg
  BY <1>1, <1>3 DEF Gone
<1>6. ASSUME NEW x \in Entries(Newest) PROVE Reached(x) \subseteq Reached(x)'
  <2>1. \A u \in Threads : \A b : ToStore(u, x, b) => ToStore(u, x, b)'
    BY DEF ToStore, Others
  <2> QED
    BY <1>1, <2>1, ReachedIs, ReachedNext
<1>7. Frame
  BY <1>2, <1>4, <1>6, SameArrays
<1>8. ASSUME NEW b \in Pointers, b = tg PROVE BlockKept(b)'
  <2>1. ASSUME NEW j \in Slots PROVE \E k : k = blocks'[b].slot[j].key /\ Kept(k)'
    <3>1. PICK k \in Keys, x \in Entries(Newest), h \in Pointers :
            /\ k = Target(t).slot[j].key /\ x = EntryOf(k) /\ h = HalfFor(t, x)
            /\ Selects(tg, x) /\ Holds(h, k)
      BY <1>1, PairInHalf
    <3>2. PICK i \in 1 .. Len(w) : w[i][1] = x /\ w[i][2] = h
      BY <3>1
    <3>3. w[i] = <<x, h>>
      <4>1. w[i] \in Entries(Newest) \X Pointers
        BY <3>2
      <4> QED
        BY <3>2, <4>1
    <3>4. ToStore(t, x, h)'
      BY <3>2, <3>3 DEF ToStore
    <3>5. h \in Reached(x)'
      BY <1>1, <3>4, ReachedNext
    <3>6. EntryOf(k)' = x /\ Holds(h, k)' /\ blocks'[b].slot[j].key = k
      BY <1>1, <1>8, <3>1 DEF EntryOf, DepthOf, Holds, Target
    <3>7. Kept(k)'
      BY <3>5, <3>6 DEF Kept, Reached
    <3> QED
      BY <3>6, <3>7
  <2> QED
    BY <2>1, KeptBlock
<1>9. \A b \in Pointers : Gone(b)' => Gone(b) \/ BlockKept(b)'
  BY <1>5, <1>8
<1> QED
  BY <1>1, <1>7, <1>9, OwnContent

-----------------------------------------------------------------------------
(* The stores into the directory                                            *)

\* StoreEntry leads one entry, of the target, to its half.
LEMMA StoredEntry ==
  ASSUME Inv, Shape, NEW t \in Threads, StoreEntry(t), NEW w, w = Head(loc[t].writes)
  PROVE  /\ Newest' = Newest
         /\ w[1] \in Entries(Newest) /\ w[2] \in Pointers /\ w[2] = HalfFor(t, w[1])
         /\ Current[w[1]] \in {loc[t].target, w[2]}
         /\ \A x \in Entries(Newest) : Current'[x] = IF x = w[1] THEN w[2] ELSE Current[x]
         /\ \A a \in 1 .. Newest : a # Newest => arrays'[a] = arrays[a]
<1>1. /\ w \in Entries(Newest) \X Pointers /\ Newest' = Newest
      /\ Current' = [Current EXCEPT ![w[1]] = w[2]]
      /\ \A a \in 1 .. Newest - 1 : arrays'[a] = arrays[a]
  BY StoreEntryInv
<1>2. pc[t] = "i_update" /\ loc[t].writes # <<>>
  BY DEF StoreEntry
<1>3. Newest \in Nat \ {0} /\ Current \in [Entries(Newest) -> Pointers]
  BY CurrentTyped
<1>4. loc[t].writes \in Seq(Entries(Newest) \X Pointers)
  BY <1>2, Facts DEF LocalOK
<1>5. 1 \in 1 .. Len(loc[t].writes) /\ w = loc[t].writes[1]
  BY <1>2, <1>4
<1>6. StoreFits(t, w)
  BY <1>2, <1>5 DEF Shape, StoresOK
<1>7. \A a \in 1 .. Newest : a # Newest => a \in 1 .. Newest - 1
  BY <1>3
<1> QED
  BY <1>1, <1>3, <1>6, <1>7 DEF StoreFits

\* StoreEntry leads an entry of the target to the half that has its keys.
LEMMA StoreEntryContent ==
  ASSUME Inv, Inv', Patterns, KeyBelongs, Shape, Content, NEW t \in Threads, Others(t), BlockMove(t),
         StoreEntry(t)
  PROVE  Content'
<1> DEFINE w == Head(loc[t].writes)
           tg == loc[t].target
<1>1. /\ w \in Entries(Newest) \X Pointers
      /\ loc'[t] = [loc[t] EXCEPT !.writes = Tail(loc[t].writes)]
      /\ Current' = [Current EXCEPT ![w[1]] = w[2]]
      /\ \A a \in 1 .. Newest - 1 : arrays'[a] = arrays[a]
      /\ Newest' = Newest
  BY StoreEntryInv
<1>2. /\ pc[t] = "i_update" /\ loc[t].writes # <<>> /\ blocks' = blocks /\ pc' = pc
      /\ acked' = acked /\ dir' = dir /\ Busy(t) /\ Pointers' = Pointers
  BY DEF StoreEntry, Busy, Pointers
<1>3. /\ Newest \in Nat \ {0} /\ Current = arrays[Newest]
      /\ Current \in [Entries(Newest) -> Pointers] /\ Current' = arrays'[Newest]
  <2>1. Newest \in Nat \ {0} /\ Current = arrays[Newest] /\ Current \in [Entries(Newest) -> Pointers]
    BY CurrentTyped
  <2>2. Current' = arrays'[Newest']
    BY <1>1 DEF Current, Inv, Sizes
  <2> QED
    BY <1>1, <2>1, <2>2
<1>4. /\ tg \in Pointers /\ blocks[tg].split = TRUE /\ Target(t).local_depth < DepthOf(Newest)
      /\ \A u \in Threads \ {t} : ~(Pending(u) /\ loc[u].target = tg)
      /\ \A u \in Threads \ {t} : pc[u] # "i_update"
  <2>1. HalfPair(t)
    BY <1>2 DEF Shape, HalvesOK
  <2>2. \A u \in Threads \ {t} : pc[u] # "i_update"
    BY <1>2, OnlyOwner DEF Owner, OwnerPCs
  <2> QED
    BY <1>2, <2>1, <2>2, BusyFacts, TargetGone DEF HalfPair
<1>5. PICK n \in Nat : n = Len(loc[t].writes) /\ n >= 1
      /\ loc[t].writes \in Seq(Entries(Newest) \X Pointers) /\ w = loc[t].writes[1]
  <2>1. loc[t].writes \in Seq(Entries(Newest) \X Pointers)
    BY <1>2, Facts DEF LocalOK
  <2> QED
    BY <1>2, <2>1
<1>6. /\ loc'[t].target = tg /\ loc'[t].s = loc[t].s /\ Len(loc'[t].writes) = n - 1
      /\ \A i \in 1 .. n - 1 : loc'[t].writes[i] = loc[t].writes[i + 1]
  <2>1. loc[t] \in Locals
    BY DEF Inv, Typed
  <2>2. loc'[t].target = tg /\ loc'[t].s = loc[t].s /\ loc'[t].writes = Tail(loc[t].writes)
    BY <1>1, <2>1 DEF Locals
  <2>3. \A S : \A q \in Seq(S) : Len(q) >= 1 => Len(Tail(q)) = Len(q) - 1
                                 /\ \A i \in 1 .. Len(q) - 1 : Tail(q)[i] = q[i + 1]
    OBVIOUS
  <2> QED
    BY <1>5, <2>2, <2>3
<1>7. ASSUME NEW i \in 1 .. n PROVE StoreFits(t, loc[t].writes[i])
  BY <1>2, <1>5, <1>7 DEF Shape, StoresOK
<1>8. /\ w[1] \in Entries(Newest) /\ w[2] \in Pointers /\ w[2] = HalfFor(t, w[1])
      /\ Current[w[1]] \in {tg, w[2]}
  BY StoredEntry
<1>9. \A x \in Entries(Newest) : Current'[x] = IF x = w[1] THEN w[2] ELSE Current[x]
  BY StoredEntry
<1> HIDE DEF w, tg
<1>10. PairsKept
  BY <1>2 DEF PairsKept, SameSlot
<1>11. \A u \in Threads : (Pending(u)' <=> Pending(u)) /\ loc'[u].target = loc[u].target
  BY <1>2, <1>6 DEF Others, Pending, tg
<1>12. \A b \in Pointers : Gone(b)' <=> Gone(b)
  BY <1>2, <1>11 DEF Gone
<1>13. Gone(tg)
  BY <1>2, <1>4 DEF Gone, Pending
<1>14. ASSUME NEW x \in Entries(Newest), x # w[1] PROVE Reached(x) \subseteq Reached(x)'
  <2>1. ASSUME NEW u \in Threads, NEW b, ToStore(u, x, b) PROVE ToStore(u, x, b)'
    <3>1. u = t
      BY <1>4, <2>1 DEF ToStore
    <3>2. PICK i \in 1 .. n : loc[t].writes[i] = <<x, b>>
      BY <1>5, <2>1, <3>1 DEF ToStore
    <3>3. i # 1
      BY <1>5, <1>14, <3>2
    <3>4. PICK j \in 1 .. n - 1 : j + 1 = i
      BY <1>5, <3>3
    <3>5. loc'[t].writes[j] = <<x, b>>
      BY <1>6, <3>2, <3>4
    <3> QED
      BY <1>2, <1>6, <3>1, <3>5 DEF ToStore
  <2>2. Current'[x] = Current[x]
    BY <1>9, <1>14
  <2> QED
    BY <1>2, <2>1, <2>2, ReachedIs, ReachedNext
<1>15. Reached(w[1]) \subseteq {tg, w[2]}
  <2>1. ASSUME NEW u \in Threads, NEW b, ToStore(u, w[1], b) PROVE b = w[2]
    <3>1. u = t
      BY <1>4, <2>1 DEF ToStore
    <3>2. PICK i \in 1 .. n : loc[t].writes[i] = <<w[1], b>>
      BY <1>5, <2>1, <3>1 DEF ToStore
    <3>3. b = HalfFor(t, w[1])
      BY <1>7, <3>2 DEF StoreFits
    <3> QED
      BY <1>8, <3>3
  <2> QED
    BY <1>8, <2>1, ReachedIs
<1>16. ASSUME NEW k \in Keys, Kept(k) PROVE Kept(k)'
  <2>1. PICK x \in Entries(Newest) : x = EntryOf(k) /\ EntryOf(k)' = x
    BY <1>1, EntryTyped DEF EntryOf, DepthOf
  <2>2. PICK b \in Reached(x) : Holds(b, k)
    BY <1>16, <2>1 DEF Kept
  <2>3. PICK d \in Pointers : d \in Reached(x)' /\ Holds(d, k)
    <3>1. CASE x # w[1]
      BY <1>14, <2>2, <3>1, ReachedTyped
    <3>2. CASE x = w[1]
      <4>1. w[2] \in Reached(x)'
        BY <1>9, <3>2, ReachedNext
      <4>2. CASE b = w[2]
        BY <1>8, <2>2, <4>1, <4>2
      <4>3. CASE b = tg
        <5>1. PICK j \in Slots : k = Target(t).slot[j].key
          BY <2>2, <4>3 DEF Holds, Target, tg
        <5>2. Holds(HalfFor(t, EntryOf(k)), k)
          BY <1>2, <1>4, <5>1, PairInHalf
        <5> QED
          BY <1>8, <2>1, <3>2, <4>1, <5>2
      <4> QED
        BY <1>15, <2>2, <3>2, <4>2, <4>3
    <3> QED
      BY <3>1, <3>2
  <2>4. Holds(d, k)'
    BY <1>2, <2>3 DEF Holds
  <2> QED
    BY <2>1, <2>3, <2>4 DEF Kept, Reached
<1>17. ASSUME NEW b \in Pointers, NEW x \in Entries(Newest), Current[x] = b
       PROVE  Current'[x] = b \/ Gone(b)'
  <2>1. CASE x = w[1]
    BY <1>8, <1>9, <1>12, <1>13, <1>17, <2>1
  <2>2. CASE x # w[1]
    BY <1>9, <1>17, <2>2
  <2> QED
    BY <2>1, <2>2
<1>18. ASSUME NEW b \in Pointers, NEW a \in 1 .. Newest, NEW x \in Entries(a), arrays[a][x] = b
       PROVE  arrays'[a][x] = b \/ Gone(b)'
  <2>1. CASE a = Newest
    BY <1>3, <1>17, <1>18, <2>1
  <2>2. CASE a # Newest
    <3>1. a \in 1 .. Newest - 1
      BY <1>3, <2>2
    <3> QED
      BY <1>1, <1>18, <3>1
  <2> QED
    BY <2>1, <2>2
<1>19. \A a \in 1 .. Newest' : a # Newest' => a \in 1 .. Newest /\ arrays'[a] = arrays[a]
  <2>1. \A a \in 1 .. Newest : a # Newest => a \in 1 .. Newest - 1
    BY <1>3
  <2> QED
    BY <1>1, <2>1
<1>20. Frame
  BY <1>1, <1>3, <1>10, <1>12, <1>16, <1>17, <1>18, <1>19 DEF Frame
<1> QED
  BY <1>2, <1>6, <1>12, <1>20, OwnContent DEF tg

\* The doubled array: its two halves lead where the old array led, but for
\* the entry of t's target, which was split.
LEMMA DoubledEntries ==
  ASSUME Inv, Patterns, KeyBelongs, Shape, NEW t \in Threads, PublishArray(t)
  PROVE  /\ Newest' = Newest + 1 /\ DepthOf(Newest + 1) = DepthOf(Newest) + 1
         /\ \A a \in 1 .. Newest : arrays'[a] = arrays[a]
         /\ dir.capacity \in Nat \ {0} /\ dir.capacity = Pow2[DepthOf(Newest)]
         /\ Pow2[DepthOf(Newest) + 1] = 2 * dir.capacity
         /\ Entries(Newest) = 0 .. dir.capacity - 1
         /\ loc[t].target \in Pointers /\ blocks[loc[t].target].split = TRUE
         /\ loc[t].s[1] \in Pointers /\ loc[t].s[2] \in Pointers
         /\ blocks[loc[t].s[1]].local_depth = DepthOf(Newest) + 1
         /\ blocks[loc[t].s[2]].local_depth = DepthOf(Newest) + 1
         /\ loc[t].x \in 0 .. dir.capacity - 1 /\ Current[loc[t].x] = loc[t].target
         /\ blocks[loc[t].s[1]].pattern = loc[t].x
         /\ blocks[loc[t].s[2]].pattern = loc[t].x + dir.capacity
         /\ \A y \in 0 .. 2 * dir.capacity - 1 :
              Current'[y] = IF y = loc[t].x THEN loc[t].s[1]
                            ELSE IF y = loc[t].x + dir.capacity THEN loc[t].s[2]
                            ELSE Current[y % dir.capacity]
<1> DEFINE tg == loc[t].target
           x == loc[t].x
           g == DepthOf(Newest)
           c == dir.capacity
           s1 == loc[t].s[1]
           s2 == loc[t].s[2]
           D == Doubled(t)
<1>1. /\ Newest' = Newest + 1 /\ Current' = D
      /\ DepthOf(Newest + 1) = g + 1
      /\ Entries(Newest + 1) = 0 .. 2 * c - 1
      /\ \A a \in 1 .. Newest : arrays'[a] = arrays[a]
  BY PublishArrayInv
<1>2. pc[t] = "i_double"
  BY DEF PublishArray
<1>3. Pending(t) /\ Busy(t)
  BY <1>2 DEF Pending, Busy
<1>4. /\ g \in Nat /\ c \in Nat \ {0} /\ c = Pow2[g] /\ Pow2[g + 1] = 2 * c
      /\ Entries(Newest) = 0 .. c - 1 /\ Newest \in Nat
      /\ Current = arrays[Newest] /\ Current \in [Entries(Newest) -> Pointers]
  BY <1>2, OwnerFacts, CurrentTyped, Pow2Step
<1>5. /\ \A u \in Threads : \A z : ~Awaits(u, z)
      /\ HalfPair(t)
      /\ \A z \in Entries(Newest) : Current[z] = tg <=> Selects(tg, z)
  BY <1>2, <1>3, PendingFacts
<1>6. /\ tg \in Pointers /\ s1 \in Pointers /\ s2 \in Pointers
      /\ blocks[tg].split = TRUE
      /\ blocks[s1].local_depth = g + 1 /\ blocks[s2].local_depth = g + 1
      /\ x \in 0 .. c - 1 /\ Current[x] = tg
      /\ blocks[s1].pattern = x /\ blocks[s2].pattern = x + c
  <2>1. /\ x \in 0 .. c - 1 /\ blocks[tg].local_depth = g /\ x % c = blocks[tg].pattern
        /\ Selects(tg, x)
    BY <1>2, <1>4, <1>5 DEF HalfPair, Target, Selects
  <2>2. x % c = x
    <3>1. c \in Nat \ {0} /\ 0 \in 0 .. 2 * c - 1
      BY <1>4
    <3> HIDE DEF x, c
    <3> QED
      BY <2>1, <3>1, DoubleArith
  <2> QED
    BY <1>3, <1>4, <1>5, <2>1, <2>2, BusyFacts DEF HalfPair, Target
<1>7. \A y \in 0 .. 2 * c - 1 :
        D[y] = IF y = x THEN s1 ELSE IF y = x + c THEN s2 ELSE Current[y % c]
  <2> SUFFICES ASSUME NEW y \in 0 .. 2 * c - 1
               PROVE  D[y] = IF y = x THEN s1 ELSE IF y = x + c THEN s2 ELSE Current[y % c]
    OBVIOUS
  <2>1. x \in Nat /\ c \in Nat \ {0} /\ x # x + c
    BY <1>4, <1>6
  <2>2. D[y] = CASE y = x -> s1 [] y = x + c -> s2 [] OTHER -> Current[y % c]
    BY DEF Doubled
  <2> QED
    BY <2>1, <2>2
<1> QED
  BY <1>1, <1>4, <1>6, <1>7

\* The doubled array leads the keys of the target to its halves, and all
\* others where they were.
LEMMA PublishArrayContent ==
  ASSUME Inv, Inv', Patterns, KeyBelongs, Shape, Content, NEW t \in Threads, Others(t), BlockMove(t),
         PublishArray(t)
  PROVE  Content'
<1> DEFINE tg == loc[t].target
           x == loc[t].x
           g == DepthOf(Newest)
           c == dir.capacity
           s1 == loc[t].s[1]
           s2 == loc[t].s[2]
           D == Doubled(t)
<1>1. /\ Newest' = Newest + 1 /\ Current' = D
      /\ DepthOf(Newest + 1) = g + 1
      /\ Entries(Newest + 1) = 0 .. 2 * c - 1
      /\ \A a \in 1 .. Newest : arrays'[a] = arrays[a]
  BY PublishArrayInv
<1>2. /\ pc[t] = "i_double" /\ blocks' = blocks /\ pc'[t] = "i_capacity" /\ acked' = acked
  BY GotoOthers DEF PublishArray
<1>3. Pending(t) /\ Busy(t) /\ ~Pending(t)' /\ ~Busy(t)' /\ Pointers' = Pointers
  BY <1>2 DEF Pending, Busy, Pointers
<1>4. /\ g \in Nat /\ c \in Nat \ {0} /\ c = Pow2[g] /\ Pow2[g + 1] = 2 * c
      /\ Entries(Newest) = 0 .. c - 1 /\ Newest \in Nat
      /\ Current = arrays[Newest] /\ Current \in [Entries(Newest) -> Pointers]
  BY <1>2, OwnerFacts, CurrentTyped, Pow2Step
<1>5. /\ \A u \in Threads : \A z : ~Awaits(u, z)
      /\ HalfPair(t)
      /\ \A z \in Entries(Newest) : Current[z] = tg <=> Selects(tg, z)
  BY <1>2, <1>3, PendingFacts
<1>6. /\ tg \in Pointers /\ s1 \in Pointers /\ s2 \in Pointers
      /\ blocks[tg].split = TRUE
      /\ blocks[s1].local_depth = g + 1 /\ blocks[s2].local_depth = g + 1
      /\ x \in 0 .. c - 1 /\ Current[x] = tg
      /\ blocks[s1].pattern = x /\ blocks[s2].pattern = x + c
  BY DoubledEntries
<1>7. \A y \in 0 .. 2 * c - 1 :
        D[y] = IF y = x THEN s1 ELSE IF y = x + c THEN s2 ELSE Current[y % c]
  BY <1>1, DoubledEntries
<1>8. /\ \A u \in Threads \ {t} : /\ ~(Pending(u) /\ loc[u].target = tg)
                                  /\ Pending(u)' <=> Pending(u)
                                  /\ loc'[u] = loc[u]
  BY <1>3, TargetGone DEF Others, Pending
<1> HIDE DEF tg, x, g, c, s1, s2, D
<1>9. \A b \in Pointers : Gone(b) => Gone(b)'
  BY <1>2, <1>3, <1>8 DEF Gone
<1>10. \A b \in Pointers : Gone(b)' => Gone(b) \/ b = tg
  BY <1>2, <1>3, <1>8 DEF Gone, tg
<1>11. ASSUME NEW b \in Pointers, b = tg PROVE Gone(b)'
  BY <1>2, <1>3, <1>6, <1>8, <1>11 DEF Gone
\* The entry of a key in the doubled array, and in the old one.
<1>12. ASSUME NEW k \in Keys
       PROVE  EntryOf(k)' \in 0 .. 2 * c - 1 /\ EntryOf(k)' = Hash[k] % (2 * c)
              /\ EntryOf(k)' % c = EntryOf(k) /\ EntryOf(k) \in 0 .. c - 1
  <2>1. PICK h \in Nat : h = Hash[k]
    <3>1. Pow2[HashBits] \in Nat
      BY Pow2Step, ExtendibleAssumption
    <3>2. Hash[k] \in 0 .. Pow2[HashBits] - 1
      BY ExtendibleAssumption DEF KeyWords
    <3> QED
      BY <3>1, <3>2
  <2>2. EntryOf(k) = h % c
    BY <1>4, <2>1 DEF EntryOf, g
  <2>3. EntryOf(k)' = h % (2 * c)
    BY <1>1, <1>4, <2>1 DEF EntryOf, DepthOf
  <2>4. (h % (c * 2)) % c = h % c
    <3>1. PICK q \in Nat \ {0} : q = 2
      OBVIOUS
    <3>2. (h % (c * q)) % c = h % c
      BY <1>4, ModMod
    <3> QED
      BY <3>1, <3>2
  <2>5. c * 2 = 2 * c /\ 2 * c \in Nat \ {0}
    BY <1>4
  <2>6. h % (2 * c) \in 0 .. 2 * c - 1
    BY <2>5
  <2>7. h % c \in 0 .. c - 1
    BY <1>4
  <2> QED
    BY <2>1, <2>2, <2>3, <2>4, <2>5, <2>6, <2>7
\* A half that has a key is where the key is looked up.
<1>13. ASSUME NEW k \in Keys, NEW h \in {s1, s2}, Holds(h, k) PROVE Kept(k)'
  <2>1. h \in Pointers /\ Belongs(blocks[h], k)
    BY <1>6, <1>13 DEF Content, BlocksOK, KeysBelong, Holds
  <2>2. PICK y \in 0 .. 2 * c - 1 : y = EntryOf(k)' /\ y = Hash[k] % (2 * c)
    BY <1>12
  <2>3. y = blocks[h].pattern
    BY <1>4, <1>6, <2>1, <2>2 DEF Belongs
  <2>4. D[y] = h
    <3>1. x # x + c
      BY <1>4, <1>6
    <3> QED
      BY <1>6, <1>7, <2>3, <3>1
  <2>5. h \in Reached(y)' /\ Holds(h, k)'
    BY <1>1, <1>2, <1>13, <2>4, ReachedNext DEF Holds
  <2> QED
    BY <2>2, <2>5 DEF Kept, Reached
<1>14. ASSUME NEW k \in Keys, NEW j \in Slots, k = blocks[tg].slot[j].key PROVE Kept(k)'
  <2>1. PICK h \in {s1, s2} : Holds(h, k)
    BY <1>3, <1>14 DEF Content, HalvesHold, HalvesAt, Target, tg, s1, s2
  <2> QED
    BY <1>13, <2>1
<1>15. ASSUME NEW k \in Keys, Kept(k) PROVE Kept(k)'
  <2>1. PICK y \in 0 .. 2 * c - 1, z \in Entries(Newest) :
          y = EntryOf(k)' /\ z = EntryOf(k) /\ y % c = z
    BY <1>4, <1>12
  <2>2. PICK b \in Reached(z) : Holds(b, k)
    BY <1>15, <2>1 DEF Kept
  <2>3. b = Current[z] /\ b \in Pointers
    <3>1. ASSUME NEW u \in Threads, ToStore(u, z, b) PROVE FALSE
      <4>1. Awaits(u, z)
        BY <3>1 DEF ToStore, Awaits
      <4> QED
        BY <1>5, <4>1
    <3> QED
      BY <1>4, <2>2, <3>1, ReachedIs
  <2>4. CASE y = x \/ y = x + c
    <3>1. z = x
      <4>1. c \in Nat \ {0} /\ x \in 0 .. c - 1
        BY <1>4, <1>6
      <4>2. y % c = x <=> (y = x \/ y = x + c)
        BY <4>1, DoubleArith
      <4> QED
        BY <2>1, <2>4, <4>2
    <3>2. b = tg
      BY <1>6, <2>3, <3>1
    <3>3. PICK j \in Slots : k = blocks[tg].slot[j].key
      BY <2>2, <3>2 DEF Holds
    <3> QED
      BY <1>14, <3>3
  <2>5. CASE y # x /\ y # x + c
    <3>1. D[y] = b
      BY <1>7, <2>1, <2>3, <2>5
    <3>2. b \in Reached(y)' /\ Holds(b, k)'
      BY <1>1, <1>2, <2>2, <3>1, ReachedNext DEF Holds
    <3> QED
      BY <2>1, <3>2 DEF Kept, Reached
  <2> QED
    BY <2>4, <2>5
<1>16. ASSUME NEW b \in Pointers, NEW z \in Entries(Newest), Current[z] = b
       PROVE  Current'[z] = b \/ Gone(b)'
  <2>1. CASE z = x
    BY <1>6, <1>11, <1>16, <2>1
  <2>2. CASE z # x
    <3>1. z \in 0 .. 2 * c - 1 /\ z # x + c /\ c \in Nat \ {0} /\ z \in 0 .. c - 1
      BY <1>4, <1>6
    <3>2. z % c = z
      BY <3>1, DoubleArith
    <3> QED
      BY <1>1, <1>7, <1>16, <2>2, <3>1, <3>2
  <2> QED
    BY <2>1, <2>2
<1>17. PairsKept
  BY <1>2, <1>3 DEF PairsKept, SameSlot
<1>18. /\ \A a \in 1 .. Newest' : a # Newest' => a \in 1 .. Newest
       /\ Newest' >= Newest
  BY <1>1, <1>4
<1>19. Frame
  BY <1>1, <1>9, <1>15, <1>16, <1>17, <1>18 DEF Frame
<1>20. ASSUME NEW b \in Pointers, b = tg PROVE BlockKept(b)'
  <2>1. ASSUME NEW j \in Slots PROVE \E k : k = blocks'[b].slot[j].key /\ Kept(k)'
    <3>1. PICK k \in Keys : k = blocks[tg].slot[j].key
      BY <1>6 DEF Content, BlocksOK, SplitFull
    <3> QED
      BY <1>2, <1>14, <1>20, <3>1
  <2> QED
    BY <2>1, KeptBlock
<1>21. BlocksOK' /\ HalvesAt(t)' /\ FoundAt(t)' /\ PairAt(t)'
  <2>1. BlocksOK'
    BY MoveBlocks DEF Content
  <2> QED
    BY <1>2, <1>3, <2>1 DEF HalvesAt, FoundAt, PairAt, FoundPCs
<1> QED
  BY <1>2, <1>3, <1>10, <1>19, <1>20, <1>21, FrameContent

-----------------------------------------------------------------------------
(* The theorem                                                              *)

\* The blocks are empty at first.
LEMMA InitContent ==
  ASSUME Init, Inv
  PROVE  Content
<1>0. InitDepth \in Nat /\ INVALID \notin Keys /\ INVALID # SENTINEL
  BY ExtendibleAssumption
<1>1. PICK c \in Nat \ {0} : c = Pow2[InitDepth]
  BY <1>0, Pow2Step
<1>2. /\ Pointers = 1 .. c
      /\ \A b \in Pointers : /\ blocks[b].split = FALSE /\ blocks[b].sema = 0
                             /\ \A j \in Slots : blocks[b].slot[j].key = INVALID
  <2>1. blocks = [i \in 1 .. c |-> NewBlock(InitDepth, i - 1)]
    BY <1>1 DEF Init
  <2>2. Len(blocks) = c
    BY <2>1
  <2> QED
    BY <2>1, <2>2 DEF Pointers, NewBlock, Empty
<1>3. \A t \in Threads : pc[t] = "idle"
  BY DEF Init
<1>4. \A b : Holders(b) = {}
  BY <1>3 DEF Holders, HoldPCs
<1>5. SemaOK
  <2> SUFFICES ASSUME NEW b \in Pointers
               PROVE  blocks[b].sema = Cardinality(Holders(b)) - (IF blocks[b].split = TRUE THEN 1 ELSE 0)
    BY DEF SemaOK
  <2>1. Cardinality(Holders(b)) = 0
    BY <1>4, FS_EmptySet
  <2> QED
    BY <1>2, <2>1
<1>6. SlotsOwned /\ FullSeen /\ SplitFull /\ KeysBelong
  BY <1>0, <1>2, <1>3 DEF SlotsOwned, FullSeen, SplitFull, KeysBelong, Taken, SawFull
<1>7. HalvesHold /\ PairOK
  BY <1>3 DEF HalvesHold, HalvesAt, PairOK, PairAt, Busy
<1>8. FoundOK
  <2>1. Newest = 1 /\ Current = arrays[Newest]
    BY CurrentTyped DEF Init, Newest
  <2>2. EntriesFound
    BY <2>1 DEF EntriesFound
  <2> QED
    BY <1>3, <2>2 DEF FoundOK, FoundAt, FoundPCs
<1>9. GoneKept /\ AckedKept
  BY <1>2 DEF GoneKept, Gone, AckedKept, Init
<1> QED
  BY <1>5, <1>6, <1>7, <1>8, <1>9 DEF Content, BlocksOK

\* Acquire keeps the contents, whichever way it goes.
LEMMA AcquireContent ==
  ASSUME Inv, Inv', Patterns, KeyBelongs, Shape, Content, NEW t \in Threads, Others(t), BlockMove(t),
         Acquire(t), pc'[t] # "lost"
  PROVE  Content'
<1> DEFINE x == Hash[Key(t)] % dir.capacity
           dd == global_depth - blocks[loc[t].s[1]].local_depth
           w == LSBUpdate(dd, dir.capacity, x, loc[t].s)
           normal == blocks[Current[x]].local_depth < global_depth
<1>1. /\ pc[t] = "i_acquire" /\ ~dir.lock /\ dir'.arr = dir.arr
      /\ UNCHANGED <<blocks, arrays, todo, acked>>
      /\ \/ normal /\ dd >= 0 /\ Goto(t, "i_update") /\ Put(t, "writes", w)
         \/ normal /\ dd < 0 /\ Goto(t, "lost") /\ UNCHANGED loc
         \/ ~normal /\ Goto(t, "i_double") /\ Put(t, "x", x)
  BY DEF Acquire, Inv, Typed
<1>2. loc \in [Threads -> Locals] /\ loc[t] \in Locals
  BY DEF Inv, Typed
<1>3. normal => /\ Target(t).local_depth < DepthOf(Newest)
                /\ w \in Seq(Entries(Newest) \X Pointers)
                /\ \A i \in 1 .. Len(w) :
                     Selects(loc[t].target, w[i][1]) /\ w[i][2] = HalfFor(t, w[i][1])
                /\ \A z \in Entries(Newest) :
                     Selects(loc[t].target, z) => \E i \in 1 .. Len(w) : w[i][1] = z
  BY <1>1, AcquireStores
<1> HIDE DEF x, dd, w, normal
<1>4. CASE normal /\ Goto(t, "i_update") /\ Put(t, "writes", w)
  <2>1. loc' = [loc EXCEPT ![t] = [loc[t] EXCEPT !["writes"] = w]]
    BY <1>4 DEF Put
  <2>2. /\ [loc[t] EXCEPT !["writes"] = w].target = loc[t].target
        /\ [loc[t] EXCEPT !["writes"] = w].s = loc[t].s
        /\ [loc[t] EXCEPT !["writes"] = w].writes = w
    BY <1>2 DEF Locals
  <2>3. /\ loc'[t].target = loc[t].target /\ loc'[t].s = loc[t].s /\ loc'[t].writes = w
        /\ pc'[t] = "i_update"
    BY <1>2, <1>4, <2>1, <2>2, GotoOthers
  <2> QED
    BY <1>1, <1>3, <1>4, <2>3, UpdateContent
<1>5. CASE Goto(t, "lost")
  BY <1>5, GotoOthers
<1>6. CASE Goto(t, "i_double") /\ Put(t, "x", x)
  <2>1. loc' = [loc EXCEPT ![t] = [loc[t] EXCEPT !["x"] = x]]
    BY <1>6 DEF Put
  <2>2. /\ [loc[t] EXCEPT !["x"] = x].target = loc[t].target
        /\ [loc[t] EXCEPT !["x"] = x].s = loc[t].s
    BY <1>2 DEF Locals
  <2>3. /\ loc'[t].target = loc[t].target /\ loc'[t].s = loc[t].s /\ pc'[t] = "i_double"
    BY <1>2, <1>6, <2>1, <2>2, GotoOthers
  <2> QED
    BY <1>1, <2>3, DoubleContent
<1> QED
  BY <1>1, <1>4, <1>5, <1>6

\* What is recorded in races stays there.
LEMMA RacesGrow ==
  ASSUME NEW t \in Threads, Step(t)
  PROVE  races \subseteq races'
<1>1. CASE Start(t) \/ ReadCapacity(t) \/ ReadArray(t) \/ ReadFlushArray(t) \/ GetCapacity(t)
           \/ GetArray(t) \/ GetScan(t)
  BY <1>1 DEF Start, ReadCapacity, ReadArray, ReadFlushArray, GetCapacity, GetArray, GetScan, Read
<1>2. CASE ReadTarget(t) \/ ReadFlushBlock(t) \/ GetTarget(t)
  BY <1>2 DEF ReadTarget, ReadFlushBlock, GetTarget, ReadEntry
<1>3. CASE Gate(t) \/ Lock(t) \/ Probe(t) \/ StoreValue(t) \/ StoreKey(t) \/ Unlock(t)
           \/ FlushPair(t) \/ ReturnGet(t)
  BY <1>3 DEF Gate, Lock, Probe, StoreValue, StoreKey, Unlock, FlushPair, ReturnGet
<1>4. CASE Split(t)
  BY <1>4 DEF Split
<1>5. CASE Acquire(t) \/ StoreEntry(t) \/ EndUpdate(t) \/ PublishArray(t) \/ PublishCapacity(t)
           \/ DeleteOld(t) \/ Release(t)
  BY <1>5 DEF Acquire, StoreEntry, EndUpdate, PublishArray, PublishCapacity, DeleteOld, Release
<1> QED
  BY <1>1, <1>2, <1>3, <1>4, <1>5 DEF Step

\* Every step of a thread keeps the contents, unless it splits a block again.
LEMMA StepContents ==
  ASSUME Inv, Inv', Directory, Contents, NEW t \in Threads, Step(t)
  PROVE  Contents'
<1> SUFFICES ASSUME "resplit" \notin races' PROVE Content'
  BY DEF Contents
<1>0. races \subseteq races'
  BY RacesGrow
<1>1. "resplit" \notin races /\ Patterns /\ KeyBelongs /\ Shape /\ Content /\ Others(t)
  BY <1>0, OthersStay DEF Directory, Contents
<1>2. CASE Split(t) /\ Target(t).sema = 0
  <2>1. PICK c \in Block, h1 \in Block, h2 \in Block : SplitStep(t, c, h1, h2)
    BY <1>2, SplitSteps
  <2>2. Target(t).split = FALSE
    <3>1. Target(t).split # TRUE
      BY <2>1 DEF SplitStep
    <3> QED
      BY <3>1, BusyFacts DEF Block
  <2> QED
    BY <1>1, <2>1, <2>2, SplitContent
<1>3. CASE ~(Split(t) /\ Target(t).sema = 0)
  <2>1. BlockMove(t)
    BY <1>3, BlockMoves
  <2>2. CASE Acquire(t)
    BY <1>1, <2>1, <2>2, AcquireDirectory, AcquireContent
  <2>3. CASE StoreEntry(t)
    BY <1>1, <2>1, <2>3, StoreEntryContent
  <2>4. CASE PublishArray(t)
    BY <1>1, <2>1, <2>4, PublishArrayContent
  <2>5. CASE ~Acquire(t) /\ ~StoreEntry(t) /\ ~PublishArray(t)
    BY <1>1, <1>3, <2>1, <2>5, CalmSteps, CalmOwn, CalmContent
  <2> QED
    BY <2>2, <2>3, <2>4, <2>5
<1> QED
  BY <1>2, <1>3

\* A stuttering step keeps the contents.
LEMMA StutterContents ==
  ASSUME Contents, UNCHANGED vars
  PROVE  Contents'
<1> SUFFICES ASSUME Content PROVE Content'
  BY DEF Contents, vars
<1>0. blocks' = blocks /\ arrays' = arrays /\ dir' = dir /\ pc' = pc /\ loc' = loc /\ todo' = todo
      /\ acked' = acked
  BY DEF vars
<1>1. Newest' = Newest /\ Pointers' = Pointers /\ Current' = Current
  BY <1>0 DEF Newest, Pointers, Current
<1>2. SemaOK'
  BY <1>0, <1>1 DEF Content, BlocksOK, SemaOK, Holders
<1>3. SlotsOwned' /\ FullSeen' /\ SplitFull' /\ KeysBelong'
  BY <1>0, <1>1 DEF Content, BlocksOK, SlotsOwned, Taken, FullSeen, SawFull, SplitFull, KeysBelong,
     Belongs, Target
<1>4. HalvesHold'
  BY <1>0 DEF Content, HalvesHold, HalvesAt, Busy, Holds, Target
<1>5. \A b : Gone(b)' <=> Gone(b)
  BY <1>0 DEF Gone, Pending
<1>6. FoundOK'
  <2>1. EntriesFound'
    BY <1>0, <1>1 DEF Content, FoundOK, EntriesFound, Gone, Pending, Entries, DepthOf
  <2>2. \A t \in Threads : FoundAt(t)'
    BY <1>0, <1>1 DEF Content, FoundOK, FoundAt, Gone, Pending
  <2> QED
    BY <2>1, <2>2 DEF FoundOK
<1>7. \A k : Kept(k)' <=> Kept(k)
  BY <1>0, <1>1 DEF Kept, EntryOf, DepthOf, Reached, Holds
<1>8. PairOK'
  <2> SUFFICES ASSUME NEW t \in Threads PROVE PairAt(t)'
    BY DEF PairOK
  <2>1. PairAt(t) /\ HasPair(t)' = HasPair(t) /\ Key(t)' = Key(t)
    BY <1>0 DEF Content, PairOK, HasPair, Target, Key, Call
  <2>2. Kept(Key(t))' <=> Kept(Key(t))
    BY <1>0, <1>1 DEF Kept, EntryOf, DepthOf, Reached, Holds, Key, Call
  <2> QED
    BY <1>0, <2>1, <2>2 DEF PairAt
<1>9. GoneKept'
  BY <1>0, <1>1, <1>5, <1>7, KeptBlock DEF Content, GoneKept, BlockKept
<1>10. AckedKept'
  BY <1>0, <1>7 DEF Content, AckedKept
<1> QED
  BY <1>2, <1>3, <1>4, <1>6, <1>8, <1>9, <1>10 DEF Content, BlocksOK

\* What the blocks hold, for any threads, calls, hash function, block size and
\* initial depth.
THEOREM ContentsHold == Spec => []Contents
<1>1. Init /\ Inv => Contents
  BY InitContent DEF Contents
<1>2. Inv /\ Inv' /\ Directory /\ Contents /\ [Next]_vars => Contents'
  <2> SUFFICES ASSUME Inv, Inv', Directory, Contents, [Next]_vars PROVE Contents'
    OBVIOUS
  <2>1. ASSUME NEW t \in Threads, Step(t) PROVE Contents'
    BY <2>1, StepContents
  <2>2. CASE UNCHANGED vars
    BY <2>2, StutterContents
  <2> QED
    BY <2>1, <2>2 DEF Next, Terminating
<1> QED
  BY <1>1, <1>2, InvHolds, DirectoryHolds, PTL DEF Spec

\* AckedStay: a key whose Insert has returned stays in the block of its hash,
\* written back, unless a block is split twice.
THEOREM AckedStays == Spec => []AckedStay
<1>1. Inv /\ Contents => AckedStay
  <2> SUFFICES ASSUME Inv, Contents, "resplit" \notin races, NEW k \in acked
               PROVE  \E b \in Reached(Hash[k] % Size(dir.arr)) : Holds(b, k)
    BY DEF AckedStay
  <2>1. Size(dir.arr) = Pow2[DepthOf(Newest)]
    BY DirectorySize
  <2>2. Kept(k)
    BY DEF Contents, Content, AckedKept
  <2> QED
    BY <2>1, <2>2 DEF Kept, EntryOf
<1> QED
  BY <1>1, InvHolds, ContentsHold, PTL

-----------------------------------------------------------------------------
(* GetSound: where a key is looked up, and with which value                  *)

HasKey(b, k) == \E j \in Slots : blocks[b].slot[j].key = k

\* Get finds the key in the block that the newest array has for it.
Shown(k) == HasKey(Current[EntryOf(k)], k)

\* The entry of a key in array a, and the block that t's array has for its key.
EntryIn(a, k) == Hash[k] % Pow2[DepthOf(a)]
Home(t) == arrays[loc[t].arr][EntryIn(loc[t].arr, Key(t))]

\* An entry of an older array leads to a block that was split or that the
\* newest array still has, wherever a larger index selects it.
OldLead ==
  \A a \in 1 .. Newest : \A y \in Entries(Newest) :
    LET b == arrays[a][y % Pow2[DepthOf(a)]]
    IN  blocks[b].split = TRUE \/ Current[y] = b

\* A key has a value, once it is in its slot or its thread is about to store it.
ValuesOK ==
  /\ \A b \in Pointers : \A j \in Slots :
       blocks[b].slot[j].key \in Keys => blocks[b].slot[j].value \in Values
  /\ \A t \in Threads : pc[t] = "i_key" => Target(t).slot[loc[t].ret].value \in Values

\* Until t stores its key, its target is the block of the key, or was split,
SeekAt(t) ==
  pc[t] \in SeekPCs => Target(t).split = TRUE \/ Current[EntryOf(Key(t))] = loc[t].target

\* from then on the key is found,
PutAt(t) ==
  (pc[t] = "i_unlock" /\ loc[t].ret # -1) \/ pc[t] \in {"i_flusharr", "i_flushentry", "i_flush"} =>
    Shown(Key(t))

\* and a Get that must find it is on its way to it.
AskAt(t) ==
  loc[t].must = TRUE =>
    /\ pc[t] \in {"g_cap", "g_arr", "g_entry"} => Key(t) \in acked
    /\ pc[t] = "g_entry" /\ loc[t].arr # Newest => HasKey(Home(t), Key(t))
    /\ pc[t] = "g_scan" => HasKey(loc[t].target, Key(t))
    /\ pc[t] = "g_return" => loc[t].result # NONE

AckedShown == \A k \in acked : Shown(k)

Seen ==
  /\ OldLead /\ ValuesOK /\ AckedShown
  /\ \A t \in Threads : SeekAt(t) /\ PutAt(t) /\ AskAt(t)

Unraced == races \cap {"resplit", "torn"} = {}

Seeing == Unraced => Seen

\* The low bits that a smaller array uses are the low bits of a larger index.
LEMMA LowBits ==
  ASSUME NEW a \in Nat \ {0}, NEW d \in Nat \ {0}, a <= d, NEW h \in Nat
  PROVE  /\ (h % Pow2[DepthOf(d)]) % Pow2[DepthOf(a)] = h % Pow2[DepthOf(a)]
         /\ h % Pow2[DepthOf(a)] \in Entries(a)
<1>1. PICK m \in Nat, n \in Nat : m = DepthOf(a) /\ n = DepthOf(d) /\ m <= n
  <2>1. InitDepth \in Nat
    BY ExtendibleAssumption
  <2> QED
    BY <2>1 DEF DepthOf
<1>2. PICK p \in Nat \ {0}, q \in Nat \ {0} : p = Pow2[m] /\ q = Pow2[n - m] /\ Pow2[n] = p * q
  <2>1. n - m \in Nat
    BY <1>1
  <2>2. Pow2[m] \in Nat \ {0} /\ Pow2[n - m] \in Nat \ {0}
    BY <1>1, <2>1, Pow2Step
  <2>3. Pow2[n] = Pow2[m] * Pow2[n - m]
    BY <1>1, Pow2Diff
  <2> QED
    BY <2>2, <2>3
<1>3. (h % (p * q)) % p = h % p
  BY ModMod
<1>4. h % p \in 0 .. p - 1
  BY <1>2
<1> QED
  BY <1>1, <1>2, <1>3, <1>4 DEF Entries

\* The hash of a key is a number.
LEMMA HashTyped ==
  ASSUME NEW k \in Keys
  PROVE  Hash[k] \in Nat
<1>1. Pow2[HashBits] \in Nat
  BY Pow2Step, ExtendibleAssumption
<1>2. Hash[k] \in 0 .. Pow2[HashBits] - 1
  BY ExtendibleAssumption DEF KeyWords
<1> QED
  BY <1>1, <1>2

\* Array number a has as many entries as its depth says.
LEMMA ArraySize ==
  ASSUME Inv, NEW a \in 1 .. Newest
  PROVE  Size(a) = Pow2[DepthOf(a)]
<1>1. a \in Nat \ {0} /\ DOMAIN arrays[a] = Entries(a)
  BY CurrentTyped DEF Inv, Typed
<1>2. PICK c \in Nat \ {0} : c = Pow2[DepthOf(a)]
  BY <1>1, DepthTyped
<1>3. Cardinality(0 .. c - 1) = c
  <2>1. 0 \in Int /\ c - 1 \in Int /\ 0 <= c - 1
    OBVIOUS
  <2>2. Cardinality(0 .. c - 1) = (c - 1) - 0 + 1
    BY <2>1, FS_Interval
  <2> QED
    BY <2>2
<1> QED
  BY <1>1, <1>2, <1>3 DEF Size, Entries

\* An index that was not torn is the index of the key.
LEMMA NotTorn ==
  ASSUME Inv, NEW t \in Threads, Torn(t) \subseteq races', "torn" \notin races'
  PROVE  arrays[loc[t].arr][loc[t].x] = Home(t)
<1>1. loc[t].arr \in 1 .. Newest
  BY Facts DEF LocalOK
<1>2. Size(loc[t].arr) = Pow2[DepthOf(loc[t].arr)]
  BY <1>1, ArraySize
<1>3. arrays[loc[t].arr][loc[t].x] = arrays[loc[t].arr][Hash[Key(t)] % Size(loc[t].arr)]
  BY DEF Torn
<1> QED
  BY <1>2, <1>3 DEF Home, EntryIn

-----------------------------------------------------------------------------
(* What a step leaves of it                                                 *)

\* A step keeps what is found found, and an entry that it changes led to a
\* block that was split.
LeadsOn(y) ==
  \A z \in Entries(Newest) : z = y % Pow2[DepthOf(Newest)] =>
    Current'[y] = Current[z] \/ blocks'[Current[z]].split = TRUE

SeeFrame ==
  /\ PairsKept
  /\ \A b \in Pointers : blocks[b].split = TRUE => blocks'[b].split = TRUE
  /\ Newest' >= Newest
  /\ \A a \in 1 .. Newest' : a # Newest' => a \in 1 .. Newest /\ arrays'[a] = arrays[a]
  /\ \A y \in 0 .. Pow2[DepthOf(Newest')] - 1 : LeadsOn(y)
  /\ \A k \in Keys : Shown(k) => Shown(k)'
  /\ acked \subseteq acked'

\* There is always an array.
LEMMA NewestTyped ==
  ASSUME Inv, Inv'
  PROVE  Newest \in Nat \ {0} /\ Newest' \in Nat \ {0}
BY DEF Inv, Typed, Newest

\* The index of a key before and after a step.
LEMMA KeyIndex ==
  ASSUME Inv, Inv', Newest' >= Newest, NEW k \in Keys
  PROVE  /\ EntryOf(k) \in Entries(Newest)
         /\ EntryOf(k)' \in 0 .. Pow2[DepthOf(Newest')] - 1
         /\ EntryOf(k)' % Pow2[DepthOf(Newest)] = EntryOf(k)
         /\ \A a \in 1 .. Newest : EntryIn(a, k) \in Entries(a)
                                   /\ EntryOf(k) % Pow2[DepthOf(a)] = EntryIn(a, k)
<1>1. Newest \in Nat \ {0} /\ Newest' \in Nat \ {0} /\ Hash[k] \in Nat
  BY NewestTyped, HashTyped
<1>2. PICK n \in Nat \ {0}, m \in Nat \ {0}, h \in Nat :
        n = Newest /\ m = Newest' /\ h = Hash[k] /\ n <= m
  BY <1>1
<1>3. /\ (h % Pow2[DepthOf(m)]) % Pow2[DepthOf(n)] = h % Pow2[DepthOf(n)]
      /\ h % Pow2[DepthOf(n)] \in Entries(n) /\ h % Pow2[DepthOf(m)] \in Entries(m)
  BY <1>2, LowBits
<1>4. ASSUME NEW a \in 1 .. Newest
      PROVE  /\ (h % Pow2[DepthOf(n)]) % Pow2[DepthOf(a)] = h % Pow2[DepthOf(a)]
             /\ h % Pow2[DepthOf(a)] \in Entries(a)
  <2>1. a \in Nat \ {0} /\ a <= n
    BY <1>2
  <2> QED
    BY <1>2, <2>1, LowBits
<1>5. EntryOf(k) = h % Pow2[DepthOf(n)] /\ EntryOf(k)' = h % Pow2[DepthOf(m)]
  BY <1>2 DEF EntryOf, DepthOf
<1>6. h % Pow2[DepthOf(m)] \in 0 .. Pow2[DepthOf(Newest')] - 1
  BY <1>2, <1>3 DEF Entries
<1> QED
  BY <1>2, <1>3, <1>4, <1>5, <1>6 DEF EntryIn

\* A key stays in the block that has it.
LEMMA HasKeyStays ==
  ASSUME PairsKept, NEW b \in Pointers, NEW k \in Keys, HasKey(b, k)
  PROVE  HasKey(b, k)'
BY DEF PairsKept, HasKey, SameSlot

\* Where a key was looked up, it is, or a split has taken it.
LEMMA LeadStays ==
  ASSUME Inv, Inv', SeeFrame, NEW k \in Keys, NEW b \in Pointers,
         blocks[b].split = TRUE \/ Current[EntryOf(k)] = b
  PROVE  blocks'[b].split = TRUE \/ Current'[EntryOf(k)'] = b
<1>1. PICK z \in Entries(Newest), y \in 0 .. Pow2[DepthOf(Newest')] - 1 :
        /\ y = EntryOf(k)' /\ z = EntryOf(k)
        /\ z = y % Pow2[DepthOf(Newest)]
  BY KeyIndex DEF SeeFrame
<1>2. LeadsOn(y)
  BY <1>1 DEF SeeFrame
<1>3. CASE blocks[b].split = TRUE
  BY <1>3 DEF SeeFrame
<1>4. CASE Current[z] = b
  BY <1>1, <1>2, <1>4 DEF LeadsOn
<1>5. blocks[b].split = TRUE \/ Current[z] = b
  BY <1>1, Zenon
<1> QED
  BY <1>3, <1>4, <1>5, Zenon

\* The older arrays lead where they did.
LEMMA OldLeadKept ==
  ASSUME Inv, Inv', OldLead, SeeFrame
  PROVE  OldLead'
<1>1. PICK n \in Nat \ {0}, m \in Nat \ {0}, c \in Nat \ {0} :
        /\ n = Newest /\ m = Newest' /\ n <= m /\ c = Pow2[DepthOf(m)]
  <2>1. Newest \in Nat \ {0} /\ Newest' \in Nat \ {0} /\ Newest' >= Newest
    BY NewestTyped DEF SeeFrame
  <2>2. Pow2[DepthOf(Newest')] \in Nat \ {0}
    BY <2>1, DepthTyped
  <2> QED
    BY <2>1, <2>2
<1> SUFFICES ASSUME NEW a \in 1 .. m, NEW y \in 0 .. c - 1
             PROVE  \/ blocks'[arrays'[a][y % Pow2[DepthOf(a)]]].split = TRUE
                    \/ Current'[y] = arrays'[a][y % Pow2[DepthOf(a)]]
  <2>1. 1 .. m = 1 .. Newest' /\ 0 .. c - 1 = 0 .. Pow2[InitDepth + Newest' - 1] - 1
    BY <1>1 DEF DepthOf
  <2> QED
    BY <2>1 DEF OldLead, Entries, DepthOf
<1>2. PICK b : b = arrays'[a][y % Pow2[DepthOf(a)]]
  OBVIOUS
<1> SUFFICES blocks'[b].split = TRUE \/ Current'[y] = b
  BY <1>2
<1>3. CASE a = m
  <2>1. y % c = y
    BY <1>1, DivModUnique
  <2>2. Current' = arrays'[m]
    BY <1>1 DEF Current, Inv, Sizes
  <2> QED
    BY <1>1, <1>2, <1>3, <2>1, <2>2
<1>4. CASE a # m
  <2>1. a \in 1 .. Newest /\ arrays'[a] = arrays[a] /\ a \in Nat \ {0} /\ a <= n
    BY <1>1, <1>4 DEF SeeFrame
  <2>2. PICK z \in Entries(Newest) : z = y % Pow2[DepthOf(Newest)]
    BY <1>1, LowBits
  <2>3. y % Pow2[DepthOf(a)] = z % Pow2[DepthOf(a)] /\ y % Pow2[DepthOf(a)] \in Entries(a)
    BY <1>1, <2>1, <2>2, LowBits
  <2>4. b = arrays[a][z % Pow2[DepthOf(a)]] /\ b \in Pointers
    BY <1>2, <2>1, <2>3 DEF Inv, Typed
  <2>5. blocks[b].split = TRUE \/ Current[z] = b
    BY <2>1, <2>4 DEF OldLead
  <2>6. LeadsOn(y)
    BY <1>1 DEF SeeFrame
  <2> QED
    BY <2>2, <2>4, <2>5, <2>6 DEF LeadsOn, SeeFrame
<1> QED
  BY <1>3, <1>4

\* What a step of t leaves to the others.
LEMMA SeenElsewhere ==
  ASSUME Inv, Inv', Seen, NEW t \in Threads, Others(t), SeeFrame
  PROVE  /\ OldLead' /\ \A k \in acked : Shown(k)'
         /\ \A u \in Threads \ {t} : SeekAt(u)' /\ PutAt(u)' /\ AskAt(u)'
<1>1. OldLead'
  BY OldLeadKept DEF Seen
<1>2. \A k \in acked : Shown(k)'
  BY DEF Seen, AckedShown, SeeFrame, Inv, Typed
<1> SUFFICES ASSUME NEW u \in Threads \ {t} PROVE SeekAt(u)' /\ PutAt(u)' /\ AskAt(u)'
  BY <1>1, <1>2
<1>3. /\ pc'[u] = pc[u] /\ loc'[u] = loc[u] /\ Key(u)' = Key(u)
      /\ loc[u].target \in Pointers /\ loc[u].arr \in 1 .. Newest
      /\ pc[u] # "idle" => Key(u) \in Keys
  BY Facts DEF Others, Key, Call, LocalOK
<1>4. SeekAt(u) /\ PutAt(u) /\ AskAt(u)
  BY DEF Seen
<1>5. CASE pc[u] = "idle"
  BY <1>3, <1>5 DEF SeekAt, PutAt, AskAt, SeekPCs
<1> SUFFICES ASSUME NEW k \in Keys, k = Key(u) PROVE SeekAt(u)' /\ PutAt(u)' /\ AskAt(u)'
  BY <1>3, <1>5
<1>6. EntryOf(Key(u))' = EntryOf(k)' /\ Shown(Key(u))' <=> Shown(k)'
  BY <1>3 DEF EntryOf, Shown, HasKey, DepthOf
<1>7. PICK b \in Pointers : b = loc[u].target
  BY <1>3
<1>8. SeekAt(u)'
  <2> SUFFICES ASSUME pc[u] \in SeekPCs
               PROVE  blocks'[b].split = TRUE \/ Current'[EntryOf(k)'] = b
    BY <1>3, <1>6, <1>7 DEF SeekAt, Target
  <2>1. blocks[b].split = TRUE \/ Current[EntryOf(k)] = b
    BY <1>4, <1>7 DEF SeekAt, Target
  <2> QED
    BY <2>1, LeadStays
<1>9. PutAt(u)'
  <2> SUFFICES ASSUME (pc[u] = "i_unlock" /\ loc[u].ret # -1)
                      \/ pc[u] \in {"i_flusharr", "i_flushentry", "i_flush"}
               PROVE  Shown(k)'
    BY <1>3, <1>6 DEF PutAt
  <2>1. Shown(k)
    BY <1>4 DEF PutAt
  <2> QED
    BY <2>1 DEF SeeFrame
<1>10. AskAt(u)'
  <2> SUFFICES ASSUME loc[u].must = TRUE
               PROVE  /\ pc[u] \in {"g_cap", "g_arr", "g_entry"} => k \in acked'
                      /\ pc[u] = "g_entry" /\ loc[u].arr # Newest' =>
                           \E d : d = arrays'[loc[u].arr][EntryIn(loc[u].arr, k)] /\ HasKey(d, k)'
                      /\ pc[u] = "g_scan" => HasKey(b, k)'
                      /\ pc[u] = "g_return" => loc[u].result # NONE
    BY <1>3, <1>7 DEF AskAt, HasKey, Home, EntryIn, DepthOf
  <2>1. pc[u] \in {"g_cap", "g_arr", "g_entry"} => k \in acked
    BY <1>4 DEF AskAt
  <2>2. pc[u] \in {"g_cap", "g_arr", "g_entry"} => k \in acked'
    BY <2>1 DEF SeeFrame
  <2>3. ASSUME pc[u] = "g_entry", loc[u].arr # Newest'
        PROVE  \E d \in Pointers : d = arrays'[loc[u].arr][EntryIn(loc[u].arr, k)] /\ HasKey(d, k)
    <3>1. PICK a \in 1 .. Newest : a = loc[u].arr /\ a # Newest'
      BY <1>3, <2>3
    <3>2. arrays'[a] = arrays[a]
      <4>1. Newest \in Nat /\ Newest' \in Nat
        BY NewestTyped
      <4>2. a \in 1 .. Newest'
        BY <4>1 DEF SeeFrame
      <4> QED
        BY <3>1, <4>2 DEF SeeFrame
    <3>3. EntryIn(a, k) \in Entries(a) /\ EntryIn(Newest, k) = EntryOf(k)
      BY KeyIndex DEF SeeFrame, EntryIn, EntryOf
    <3>4. PICK d \in Pointers : d = arrays[a][EntryIn(a, k)]
      BY <3>3 DEF Inv, Typed
    <3>5. HasKey(d, k)
      <4>1. CASE a = Newest
        <5>1. Current = arrays[Newest]
          BY CurrentTyped
        <5> QED
          BY <1>2, <2>1, <2>3, <3>3, <3>4, <4>1, <5>1 DEF Seen, AckedShown, Shown
      <4>2. CASE a # Newest
        BY <1>4, <2>3, <3>1, <3>4, <4>2 DEF AskAt, Home
      <4> QED
        BY <4>1, <4>2
    <3> QED
      BY <3>1, <3>2, <3>4, <3>5
  <2>4. ASSUME pc[u] = "g_entry", loc[u].arr # Newest'
        PROVE  \E d : d = arrays'[loc[u].arr][EntryIn(loc[u].arr, k)] /\ HasKey(d, k)'
    <3>1. PICK d \in Pointers : d = arrays'[loc[u].arr][EntryIn(loc[u].arr, k)] /\ HasKey(d, k)
      BY <2>3, <2>4
    <3>2. HasKey(d, k)'
      BY <3>1, HasKeyStays DEF SeeFrame
    <3> QED
      BY <3>1, <3>2
  <2>5. pc[u] = "g_scan" => HasKey(b, k)'
    BY <1>4, <1>7, HasKeyStays DEF AskAt, SeeFrame
  <2>6. pc[u] = "g_return" => loc[u].result # NONE
    BY <1>4 DEF AskAt
  <2> QED
    BY <2>2, <2>4, <2>5, <2>6
<1> QED
  BY <1>8, <1>9, <1>10

\* A step that leaves the directory alone.
LEMMA SameArraysSee ==
  ASSUME Inv, Inv', PairsKept, arrays' = arrays, dir'.arr = dir.arr, acked \subseteq acked',
         \A b \in Pointers : blocks[b].split = TRUE => blocks'[b].split = TRUE
  PROVE  SeeFrame
<1>1. Newest' = Newest /\ Current' = Current /\ Newest \in Nat \ {0}
  BY CurrentTyped DEF Newest, Current
<1>2. ASSUME NEW y \in 0 .. Pow2[DepthOf(Newest')] - 1 PROVE LeadsOn(y)
  <2>1. PICK c \in Nat \ {0} : c = Pow2[DepthOf(Newest)] /\ y \in 0 .. c - 1
    BY <1>1, CurrentTyped
  <2>2. y % c = y
    BY <2>1, DivModUnique
  <2> QED
    BY <1>1, <2>1, <2>2 DEF LeadsOn
<1>3. ASSUME NEW k \in Keys, Shown(k) PROVE Shown(k)'
  <2>1. EntryOf(k)' = EntryOf(k) /\ EntryOf(k) \in Entries(Newest)
    BY <1>1, EntryTyped DEF EntryOf, DepthOf
  <2>2. PICK b \in Pointers : b = Current[EntryOf(k)]
    BY <2>1, CurrentTyped
  <2>3. HasKey(b, k)
    BY <1>3, <2>2 DEF Shown
  <2>4. HasKey(b, k)'
    BY <2>3, HasKeyStays
  <2> QED
    BY <1>1, <2>1, <2>2, <2>4 DEF Shown, HasKey
<1>4. \A a \in 1 .. Newest' : a # Newest' => a \in 1 .. Newest /\ arrays'[a] = arrays[a]
  BY <1>1
<1>5. Newest' >= Newest
  BY <1>1
<1> QED
  BY <1>2, <1>3, <1>4, <1>5 DEF SeeFrame

\* A stored entry leads to the half that has the target's key.
LEMMA StoreSee ==
  ASSUME Inv, Inv', Patterns, Shape, Content, NEW t \in Threads, StoreEntry(t)
  PROVE  SeeFrame
<1>1. PICK w : w = Head(loc[t].writes)
  OBVIOUS
<1>2. /\ Newest' = Newest
      /\ w[1] \in Entries(Newest) /\ w[2] \in Pointers /\ w[2] = HalfFor(t, w[1])
      /\ Current[w[1]] \in {loc[t].target, w[2]}
      /\ \A x \in Entries(Newest) : Current'[x] = IF x = w[1] THEN w[2] ELSE Current[x]
      /\ \A a \in 1 .. Newest : a # Newest => arrays'[a] = arrays[a]
  BY <1>1, StoredEntry
<1>3. /\ pc[t] = "i_update" /\ blocks' = blocks /\ acked' = acked /\ Busy(t) /\ Pointers' = Pointers
  BY DEF StoreEntry, Busy, Pointers
<1>4. /\ loc[t].target \in Pointers /\ blocks[loc[t].target].split = TRUE
      /\ Target(t).local_depth < DepthOf(Newest)
  <2>1. HalfPair(t)
    BY <1>3 DEF Shape, HalvesOK
  <2> QED
    BY <1>3, <2>1, BusyFacts DEF HalfPair, Target
<1>5. Newest \in Nat \ {0} /\ Current \in [Entries(Newest) -> Pointers]
  BY CurrentTyped
<1>6. PairsKept
  BY <1>3 DEF PairsKept, SameSlot
<1>7. ASSUME NEW y \in 0 .. Pow2[DepthOf(Newest')] - 1 PROVE LeadsOn(y)
  <2>1. PICK c \in Nat \ {0} : c = Pow2[DepthOf(Newest)] /\ y \in 0 .. c - 1 /\ Entries(Newest) = 0 .. c - 1
    BY <1>2, CurrentTyped
  <2>2. y % c = y
    BY <2>1, DivModUnique
  <2>3. Current'[y] = Current[y] \/ blocks'[Current[y]].split = TRUE
    <3>1. Current'[y] = IF y = w[1] THEN w[2] ELSE Current[y]
      BY <1>2, <2>1
    <3> QED
      BY <1>2, <1>3, <1>4, <3>1
  <2> QED
    BY <2>1, <2>2, <2>3 DEF LeadsOn
<1>8. ASSUME NEW k \in Keys, Shown(k) PROVE Shown(k)'
  <2>1. PICK x \in Entries(Newest) : x = EntryOf(k) /\ EntryOf(k)' = x
    BY <1>2, EntryTyped DEF EntryOf, DepthOf
  <2>2. HasKey(Current[x], k)
    BY <1>8, <2>1 DEF Shown
  <2>3. PICK d : d = Current'[x] /\ HasKey(d, k)
    <3>1. CASE x # w[1]
      BY <1>2, <2>2, <3>1
    <3>2. CASE x = w[1] /\ Current[x] = w[2]
      BY <1>2, <2>2, <3>2
    <3>3. CASE x = w[1] /\ Current[x] = loc[t].target
      <4>1. PICK j \in Slots : k = Target(t).slot[j].key
        BY <2>2, <3>3 DEF HasKey, Target
      <4>2. Holds(HalfFor(t, EntryOf(k)), k)
        BY <1>3, <1>4, <4>1, PairInHalf
      <4>3. HasKey(w[2], k)
        BY <1>2, <2>1, <3>3, <4>2 DEF Holds, HasKey
      <4> QED
        BY <1>2, <3>3, <4>3
    <3> QED
      BY <1>2, <3>1, <3>2, <3>3
  <2> QED
    BY <1>3, <2>1, <2>3 DEF Shown, HasKey
<1>9. \A a \in 1 .. Newest' : a # Newest' => a \in 1 .. Newest /\ arrays'[a] = arrays[a]
  BY <1>2
<1>10. Newest' >= Newest
  BY <1>2, <1>5
<1> QED
  BY <1>3, <1>6, <1>7, <1>8, <1>9, <1>10 DEF SeeFrame

\* The doubled array leads to the halves that have the target's keys, and
\* elsewhere where the old one led.
LEMMA PublishSee ==
  ASSUME Inv, Inv', Patterns, KeyBelongs, Shape, Content, NEW t \in Threads, PublishArray(t)
  PROVE  SeeFrame
<1> DEFINE tg == loc[t].target
           x == loc[t].x
           c == dir.capacity
           s1 == loc[t].s[1]
           s2 == loc[t].s[2]
<1>1. /\ Newest' = Newest + 1 /\ DepthOf(Newest + 1) = DepthOf(Newest) + 1
      /\ \A a \in 1 .. Newest : arrays'[a] = arrays[a]
      /\ c \in Nat \ {0} /\ c = Pow2[DepthOf(Newest)]
      /\ Pow2[DepthOf(Newest) + 1] = 2 * c
      /\ Entries(Newest) = 0 .. c - 1
      /\ tg \in Pointers /\ blocks[tg].split = TRUE /\ s1 \in Pointers /\ s2 \in Pointers
      /\ blocks[s1].local_depth = DepthOf(Newest) + 1
      /\ blocks[s2].local_depth = DepthOf(Newest) + 1
      /\ x \in 0 .. c - 1 /\ Current[x] = tg
      /\ blocks[s1].pattern = x /\ blocks[s2].pattern = x + c
      /\ \A y \in 0 .. 2 * c - 1 :
           Current'[y] = IF y = x THEN s1 ELSE IF y = x + c THEN s2 ELSE Current[y % c]
  BY DoubledEntries
<1>2. /\ pc[t] = "i_double" /\ blocks' = blocks /\ acked' = acked /\ Busy(t) /\ Pointers' = Pointers
  BY DEF PublishArray, Busy, Pointers
<1>3. Newest \in Nat \ {0} /\ Current \in [Entries(Newest) -> Pointers]
  BY CurrentTyped
<1> HIDE DEF tg, x, c, s1, s2
<1>4. PairsKept
  BY <1>2 DEF PairsKept, SameSlot
<1>5. ASSUME NEW y \in 0 .. 2 * c - 1
      PROVE  /\ y % c \in 0 .. c - 1 /\ (y % c = x <=> (y = x \/ y = x + c))
             /\ Current'[y] = Current[y % c] \/ Current[y % c] = tg
  <2>1. y % c \in 0 .. c - 1 /\ (y % c = x <=> (y = x \/ y = x + c))
    <3>1. c \in Nat \ {0} /\ x \in 0 .. c - 1 /\ y \in 0 .. 2 * c - 1
      BY <1>1
    <3>2. y % c \in 0 .. c - 1
      BY <3>1, DoubleArith
    <3>3. y % c = x <=> (y = x \/ y = x + c)
      BY <3>1, DoubleArith
    <3> QED
      BY <3>2, <3>3
  <2> QED
    BY <1>1, <2>1
<1>6. ASSUME NEW y \in 0 .. Pow2[DepthOf(Newest')] - 1 PROVE LeadsOn(y)
  <2>1. y \in 0 .. 2 * c - 1
    BY <1>1
  <2> QED
    BY <1>1, <1>2, <1>5, <2>1 DEF LeadsOn
\* A half that has a key is where the key is looked up.
<1>7. ASSUME NEW k \in Keys, NEW h \in {s1, s2}, Holds(h, k)
      PROVE  Current'[EntryOf(k)'] = h
  <2>1. h \in Pointers /\ Belongs(blocks[h], k)
    BY <1>1, <1>7 DEF Content, BlocksOK, KeysBelong, Holds
  <2>2. EntryOf(k)' = Hash[k] % (2 * c)
    BY <1>1 DEF EntryOf, DepthOf
  <2>3. EntryOf(k)' = blocks[h].pattern
    BY <1>1, <2>1, <2>2 DEF Belongs
  <2>4. x \in 0 .. 2 * c - 1 /\ x + c \in 0 .. 2 * c - 1 /\ x # x + c
    BY <1>1
  <2> QED
    BY <1>1, <2>3, <2>4
<1>8. ASSUME NEW k \in Keys, Shown(k) PROVE Shown(k)'
  <2>1. PICK y \in 0 .. 2 * c - 1 : y = EntryOf(k)' /\ y % c = EntryOf(k)
    <3>1. Newest' >= Newest
      BY <1>1, <1>3
    <3>2. /\ EntryOf(k)' \in 0 .. Pow2[DepthOf(Newest')] - 1
          /\ EntryOf(k)' % Pow2[DepthOf(Newest)] = EntryOf(k)
      BY <3>1, KeyIndex
    <3> QED
      BY <1>1, <3>2
  <2>2. HasKey(Current[y % c], k)
    BY <1>8, <2>1 DEF Shown
  <2>3. PICK d : d = Current'[y] /\ HasKey(d, k)
    <3>1. CASE Current[y % c] = tg
      <4>1. PICK j \in Slots : k = blocks[tg].slot[j].key
        BY <2>2, <3>1 DEF HasKey
      <4>2. PICK h \in {s1, s2} : Holds(h, k)
        BY <1>2, <4>1 DEF Content, HalvesHold, HalvesAt, Target, tg, s1, s2
      <4>3. Current'[y] = h /\ HasKey(h, k)
        BY <1>7, <2>1, <4>2 DEF Holds, HasKey
      <4> QED
        BY <4>3
    <3>2. CASE Current'[y] = Current[y % c]
      BY <2>2, <3>2
    <3> QED
      BY <1>5, <3>1, <3>2
  <2> QED
    BY <1>2, <2>1, <2>3 DEF Shown, HasKey
<1>9. /\ \A a \in 1 .. Newest' : a # Newest' => a \in 1 .. Newest
      /\ Newest' >= Newest
  BY <1>1, <1>3
<1> QED
  BY <1>1, <1>2, <1>4, <1>6, <1>8, <1>9 DEF SeeFrame

-----------------------------------------------------------------------------
(* Values                                                                   *)

\* A step that is not a split stores no value but that of a call, and t has
\* stored one when it goes to store its key.
StoresValues(t) ==
  /\ \A b \in Pointers, j \in Slots :
       \/ blocks'[b].slot[j].value = blocks[b].slot[j].value
       \/ blocks'[b].slot[j].value \in Values
  /\ pc'[t] = "i_key" => blocks'[loc'[t].target].slot[loc'[t].ret].value \in Values

\* A store into the target.
LEMMA ValuePut ==
  ASSUME Inv, NEW t \in Threads, NEW i \in Slots, NEW e \in Pair,
         e.value = Target(t).slot[i].value \/ e.value \in Values,
         blocks' = [blocks EXCEPT ![loc[t].target] = [Target(t) EXCEPT !.slot[i] = e]]
  PROVE  /\ \A b \in Pointers, j \in Slots :
              \/ blocks'[b].slot[j].value = blocks[b].slot[j].value
              \/ blocks'[b].slot[j].value \in Values
         /\ blocks'[loc[t].target].slot[i] = e
<1>1. PICK c \in Block : c = [Target(t) EXCEPT !.slot[i] = e] /\ SameBits(c, Target(t))
  BY BusyFacts, SlotStore
<1>2. c.slot[i] = e /\ \A j \in Slots \ {i} : c.slot[j] = Target(t).slot[j]
  BY <1>1, BusyFacts, BlockStores
<1>3. /\ loc[t].target \in Pointers /\ blocks'[loc[t].target] = c
      /\ \A b \in Pointers \ {loc[t].target} : blocks'[b] = blocks[b]
  BY <1>1, BusyFacts, TargetStore
<1>4. ASSUME NEW j \in Slots
      PROVE  c.slot[j].value = blocks[loc[t].target].slot[j].value \/ c.slot[j].value \in Values
  BY <1>2 DEF Target
<1>5. ASSUME NEW b \in Pointers, NEW j \in Slots
      PROVE  \/ blocks'[b].slot[j].value = blocks[b].slot[j].value
             \/ blocks'[b].slot[j].value \in Values
  <2>1. CASE b = loc[t].target
    BY <1>3, <1>4, <2>1
  <2>2. CASE b # loc[t].target
    BY <1>3, <2>2
  <2> QED
    BY <2>1, <2>2
<1> QED
  BY <1>2, <1>3, <1>5

\* A lock of the target.
LEMMA SemaPut ==
  ASSUME Inv, NEW t \in Threads, NEW n \in Int,
         blocks' = [blocks EXCEPT ![loc[t].target] = [Target(t) EXCEPT !.sema = n]]
  PROVE  \A b \in Pointers, j \in Slots : blocks'[b].slot[j].value = blocks[b].slot[j].value
<1> DEFINE c == [Target(t) EXCEPT !.sema = n]
<1>1. c \in Block /\ SameBits(c, Target(t)) /\ c.slot = Target(t).slot
  <2>1. 0 \in Slots /\ Target(t) \in Block
    BY BusyFacts, ExtendibleAssumption DEF Slots
  <2> QED
    BY <2>1, SlotStore, BlockStores
<1> HIDE DEF c
<1>2. /\ blocks'[loc[t].target] = c
      /\ \A b \in Pointers \ {loc[t].target} : blocks'[b] = blocks[b]
  BY <1>1, TargetStore DEF c
<1>3. ASSUME NEW b \in Pointers PROVE blocks'[b].slot = blocks[b].slot
  BY <1>1, <1>2 DEF Target
<1> QED
  BY <1>3

\* What a store into a pair leaves of its value.
LEMMA PairStores ==
  ASSUME NEW p \in Pair
  PROVE  /\ \A v \in Values : [p EXCEPT !.value = v] \in Pair /\ [p EXCEPT !.value = v].value = v
         /\ [p EXCEPT !.durable = TRUE] \in Pair /\ [p EXCEPT !.durable = TRUE].value = p.value
         /\ \A k \in KeyWords :
              /\ [p EXCEPT !.key = k] \in Pair /\ [p EXCEPT !.key = k].value = p.value
              /\ [p EXCEPT !.key = k, !.durable = FALSE] \in Pair
              /\ [p EXCEPT !.key = k, !.durable = FALSE].value = p.value
BY DEF Pair

\* Every step but a split that succeeds.
LEMMA ValueMoves ==
  ASSUME Inv, NEW t \in Threads, Step(t), ~(Split(t) /\ Target(t).sema = 0)
  PROVE  StoresValues(t)
<1>0. /\ pc \in [Threads -> PCs] /\ loc[t] \in Locals /\ LocalOK(t) /\ loc[t].ret \in -1 .. NumSlot - 1
      /\ Target(t) \in Block /\ Target(t).sema \in Int
      /\ \A i \in Slots : Target(t).slot[i] \in Pair
      /\ todo[t] # <<>> => Key(t) \in KeyWords /\ Call(t).value \in Values
  <2>1. pc \in [Threads -> PCs] /\ loc[t] \in Locals /\ LocalOK(t) /\ Target(t) \in Block
    BY Facts, BusyFacts DEF Inv, Typed
  <2>2. loc[t].ret \in -1 .. NumSlot - 1
    BY <2>1 DEF Locals
  <2>3. Target(t).sema \in Int /\ \A i \in Slots : Target(t).slot[i] \in Pair
    BY <2>1 DEF Block
  <2>4. todo[t] # <<>> => Key(t) \in KeyWords /\ Call(t).value \in Values
    <3>1. todo[t] # <<>> => Call(t) \in Calls /\ Key(t) \in Keys
      BY Facts
    <3> QED
      BY <3>1 DEF Calls, KeyWords
  <2> QED
    BY <2>1, <2>2, <2>3, <2>4
<1>1. loc[t].ret # -1 => loc[t].ret \in Slots
  BY <1>0, ExtendibleAssumption DEF Slots
<1>2. ASSUME blocks' = blocks, pc'[t] # "i_key" PROVE StoresValues(t)
  BY <1>2 DEF StoresValues
<1>3. CASE Start(t) \/ ReadCapacity(t) \/ ReadArray(t) \/ ReadFlushArray(t) \/ GetCapacity(t)
           \/ GetArray(t) \/ GetScan(t)
  <2>1. blocks' = blocks /\ pc'[t] # "i_key"
    BY <1>0, <1>3 DEF Start, ReadCapacity, ReadArray, ReadFlushArray, GetCapacity, GetArray,
       GetScan, Read, Goto
  <2> QED
    BY <1>2, <2>1
<1>4. CASE ReadTarget(t) \/ ReadFlushBlock(t) \/ GetTarget(t)
  <2>1. blocks' = blocks /\ pc'[t] # "i_key"
    BY <1>0, <1>4 DEF ReadTarget, ReadFlushBlock, GetTarget, ReadEntry, Goto
  <2> QED
    BY <1>2, <2>1
<1>5. CASE Gate(t) \/ ReturnGet(t)
  <2>1. blocks' = blocks /\ pc'[t] # "i_key"
    BY <1>0, <1>5 DEF Gate, ReturnGet, Goto, Return
  <2> QED
    BY <1>2, <2>1
<1>6. CASE Split(t) \/ Acquire(t)
  <2>1. blocks' = blocks /\ pc'[t] # "i_key"
    BY <1>0, <1>6 DEF Split, Acquire, Goto
  <2> QED
    BY <1>2, <2>1
<1>7. CASE StoreEntry(t) \/ EndUpdate(t) \/ PublishArray(t) \/ PublishCapacity(t) \/ DeleteOld(t)
           \/ Release(t)
  <2>1. blocks' = blocks /\ pc'[t] # "i_key"
    BY <1>0, <1>7 DEF StoreEntry, EndUpdate, PublishArray, PublishCapacity, DeleteOld, Release, Goto
  <2> QED
    BY <1>2, <2>1
<1>8. CASE Lock(t)
  <2>1. /\ pc'[t] # "i_key"
        /\ blocks' = [blocks EXCEPT ![loc[t].target] = [Target(t) EXCEPT !.sema = Target(t).sema + 1]]
    BY <1>0, <1>8 DEF Lock, Goto, Target
  <2>2. Target(t).sema + 1 \in Int
    BY <1>0
  <2> QED
    BY <2>1, <2>2, SemaPut DEF StoresValues
<1>9. CASE Unlock(t)
  <2>1. /\ pc'[t] # "i_key"
        /\ blocks' = [blocks EXCEPT ![loc[t].target] = [Target(t) EXCEPT !.sema = Target(t).sema - 1]]
    BY <1>0, <1>9 DEF Unlock, Goto, Return, Target
  <2>2. Target(t).sema - 1 \in Int
    BY <1>0
  <2> QED
    BY <2>1, <2>2, SemaPut DEF StoresValues
<1>10. CASE Probe(t)
  <2>1. CASE FreeSlots(Target(t)) = {}
    <3>1. blocks' = blocks /\ pc'[t] # "i_key"
      BY <1>0, <1>10, <2>1 DEF Probe, Goto
    <3> QED
      BY <1>2, <3>1
  <2>2. CASE FreeSlots(Target(t)) # {}
    <3>1. FreeSlots(Target(t)) \in SUBSET Nat /\ FreeSlots(Target(t)) \subseteq Slots
      BY DEF FreeSlots, Slots
    <3>2. PICK i \in Slots : i = First(FreeSlots(Target(t)))
      BY <2>2, <3>1, FirstIn
    <3>3. PICK e : e = [Target(t).slot[i] EXCEPT !.key = SENTINEL]
      OBVIOUS
    <3>4. /\ pc'[t] # "i_key"
          /\ blocks' = [blocks EXCEPT ![loc[t].target] = [Target(t) EXCEPT !.slot[i] = e]]
      BY <1>0, <1>10, <2>2, <3>2, <3>3 DEF Probe, Goto, Target
    <3>5. e \in Pair /\ e.value = Target(t).slot[i].value
      <4>1. SENTINEL \in KeyWords /\ Target(t).slot[i] \in Pair
        BY <1>0 DEF KeyWords
      <4> QED
        BY <3>3, <4>1, PairStores
    <3> QED
      BY <3>4, <3>5, ValuePut DEF StoresValues
  <2> QED
    BY <2>1, <2>2
<1>11. CASE StoreValue(t)
  <2>1. PICK i \in Slots : i = loc[t].ret
    BY <1>0, <1>1, <1>11 DEF StoreValue, LocalOK
  <2>2. PICK v \in Values : v = Call(t).value
    BY <1>0, <1>11 DEF StoreValue, LocalOK
  <2>3. PICK e : e = [Target(t).slot[i] EXCEPT !.value = v]
    OBVIOUS
  <2>4. /\ loc' = loc
        /\ blocks' = [blocks EXCEPT ![loc[t].target] = [Target(t) EXCEPT !.slot[i] = e]]
    BY <1>0, <1>11, <2>1, <2>2, <2>3 DEF StoreValue, Target
  <2>5. e \in Pair /\ e.value = v
    BY <1>0, <2>3, PairStores
  <2>6. /\ \A b \in Pointers, j \in Slots :
             \/ blocks'[b].slot[j].value = blocks[b].slot[j].value
             \/ blocks'[b].slot[j].value \in Values
        /\ blocks'[loc[t].target].slot[i] = e
    BY <2>4, <2>5, ValuePut
  <2> QED
    BY <2>1, <2>4, <2>5, <2>6 DEF StoresValues
<1>12. CASE StoreKey(t)
  <2>1. PICK i \in Slots : i = loc[t].ret
    BY <1>0, <1>1, <1>12 DEF StoreKey, LocalOK
  <2>2. PICK k \in KeyWords : k = Key(t)
    BY <1>0, <1>12 DEF StoreKey, LocalOK
  <2>3. PICK e : e = [Target(t).slot[i] EXCEPT !.key = k, !.durable = FALSE]
    OBVIOUS
  <2>4. /\ pc'[t] # "i_key"
        /\ blocks' = [blocks EXCEPT ![loc[t].target] = [Target(t) EXCEPT !.slot[i] = e]]
    BY <1>0, <1>12, <2>1, <2>2, <2>3 DEF StoreKey, Goto, Target
  <2>5. e \in Pair /\ e.value = Target(t).slot[i].value
    BY <1>0, <2>3, PairStores
  <2> QED
    BY <2>4, <2>5, ValuePut DEF StoresValues
<1>13. CASE FlushPair(t)
  <2>1. PICK i \in Slots : i = loc[t].ret
    BY <1>0, <1>1, <1>13 DEF FlushPair, LocalOK
  <2>2. PICK e : e = [Target(t).slot[i] EXCEPT !.durable = TRUE]
    OBVIOUS
  <2>3. /\ pc'[t] # "i_key"
        /\ blocks' = [blocks EXCEPT ![loc[t].target] = [Target(t) EXCEPT !.slot[i] = e]]
    BY <1>0, <1>13, <2>1, <2>2 DEF FlushPair, Return, Goto, Target
  <2>4. e \in Pair /\ e.value = Target(t).slot[i].value
    BY <1>0, <2>2, PairStores
  <2> QED
    BY <2>3, <2>4, ValuePut DEF StoresValues
<1> QED
  BY <1>3, <1>4, <1>5, <1>6, <1>7, <1>8, <1>9, <1>10, <1>11, <1>12, <1>13 DEF Step

\* So a key has a value, as long as nothing is split,
LEMMA ValuesKept ==
  ASSUME Inv, ValuesOK, NEW t \in Threads, SlotMove(t), StoresValues(t)
  PROVE  ValuesOK'
<1>1. /\ Pointers' = Pointers /\ SENTINEL \notin Keys
      /\ \A u \in Threads \ {t} : pc'[u] = pc[u] /\ loc'[u] = loc[u]
  BY ExtendibleAssumption DEF SlotMove, SameBlocks, Others
<1>2. ASSUME NEW b \in Pointers, NEW j \in Slots, blocks'[b].slot[j].key \in Keys
      PROVE  blocks'[b].slot[j].value \in Values
  <2>1. \/ blocks'[b].slot[j].value = blocks[b].slot[j].value
        \/ blocks'[b].slot[j].value \in Values
    BY DEF StoresValues
  <2>2. blocks[b].slot[j].key = blocks'[b].slot[j].key
        \/ (pc[t] = "i_key" /\ b = loc[t].target /\ j = loc[t].ret)
    <3>1. CASE KeepsSlots(t)
      BY <3>1 DEF KeepsSlots, SameSlot
    <3>2. CASE TakesSlot(t)
      BY <1>1, <1>2, <3>2 DEF TakesSlot, SameBut, SameSlot
    <3>3. CASE FillsSlot(t)
      BY <3>3 DEF FillsSlot, SameBut, SameSlot
    <3> QED
      BY <3>1, <3>2, <3>3 DEF SlotMove
  <2>3. blocks[b].slot[j].value \in Values
    BY <1>2, <2>2 DEF ValuesOK, Target
  <2> QED
    BY <2>1, <2>3
<1>3. ASSUME NEW u \in Threads, pc'[u] = "i_key"
      PROVE  blocks'[loc'[u].target].slot[loc'[u].ret].value \in Values
  <2>1. CASE u = t
    BY <1>3, <2>1 DEF StoresValues
  <2>2. CASE u # t
    <3>1. pc[u] = "i_key" /\ loc'[u] = loc[u]
      BY <1>1, <1>3, <2>2
    <3>2. loc[u].target \in Pointers /\ loc[u].ret \in -1 .. NumSlot - 1 /\ loc[u].ret # -1
      BY <3>1, Facts DEF LocalOK, Locals
    <3>3. loc[u].ret \in Slots
      BY <3>2, ExtendibleAssumption DEF Slots
    <3>4. blocks[loc[u].target].slot[loc[u].ret].value \in Values
      BY <3>1 DEF ValuesOK, Target
    <3> QED
      BY <3>1, <3>2, <3>3, <3>4 DEF StoresValues
  <2> QED
    BY <2>1, <2>2
<1> QED
  BY <1>1, <1>2, <1>3 DEF ValuesOK, Target

\* and in the halves of a block that is.
LEMMA SplitValues ==
  ASSUME Inv, BlocksOK, ValuesOK, NEW t \in Threads, Others(t),
         NEW c \in Block, NEW h1 \in Block, NEW h2 \in Block, SplitStep(t, c, h1, h2),
         Target(t).split = FALSE, \A b \in Pointers : blocks'[b].slot = blocks[b].slot
  PROVE  ValuesOK'
<1>1. \A b \in Pointers' : b \in Pointers \/ b = Len(blocks) + 1 \/ b = Len(blocks) + 2
  <2>1. Len(blocks) \in Nat /\ Len(blocks') = Len(blocks) + 2
    BY DEF Inv, Typed, SplitStep
  <2> QED
    BY <2>1 DEF Pointers
<1>2. /\ pc[t] = "i_split" /\ pc'[t] = "i_acquire" /\ Target(t).sema = 0
      /\ blocks'[Len(blocks) + 1].slot = Half(Target(t), 0)
      /\ blocks'[Len(blocks) + 2].slot = Half(Target(t), 1)
  BY GotoOthers DEF SplitStep
<1>3. /\ loc[t].target \in Pointers /\ Target(t) \in Block /\ INVALID \notin Keys
      /\ \A l \in Slots : Target(t).slot[l].key \in Keys
  BY <1>2, BusyFacts, ClosedFull, ExtendibleAssumption
<1>4. ASSUME NEW bit \in {0, 1}, NEW j \in Slots, Half(Target(t), bit)[j].key \in Keys
      PROVE  Half(Target(t), bit)[j].value \in Values
  <2>1. HalfHas(Target(t), bit)
    <3>1. \A l \in Slots : Target(t).slot[l].key # INVALID
      BY <1>3
    <3> QED
      BY <1>3, <3>1, HalfContent
  <2>2. PICK l \in Slots : Half(Target(t), bit)[j].value = Target(t).slot[l].value
    BY <1>3, <1>4, <2>1 DEF HalfHas
  <2> QED
    BY <1>3, <2>2 DEF ValuesOK, Target
<1>5. ASSUME NEW b \in Pointers', NEW j \in Slots, blocks'[b].slot[j].key \in Keys
      PROVE  blocks'[b].slot[j].value \in Values
  <2>1. CASE b \in Pointers
    BY <1>5, <2>1 DEF ValuesOK
  <2>2. CASE b = Len(blocks) + 1
    BY <1>2, <1>4, <1>5, <2>2
  <2>3. CASE b = Len(blocks) + 2
    BY <1>2, <1>4, <1>5, <2>3
  <2> QED
    BY <1>1, <2>1, <2>2, <2>3
<1>6. ASSUME NEW u \in Threads, pc'[u] = "i_key"
      PROVE  blocks'[loc'[u].target].slot[loc'[u].ret].value \in Values
  <2>1. pc[u] = "i_key" /\ loc'[u] = loc[u] /\ loc[u].target \in Pointers
    BY <1>2, <1>6, BusyFacts DEF Others
  <2> QED
    BY <2>1 DEF ValuesOK, Target
<1> QED
  BY <1>5, <1>6 DEF ValuesOK, Target

-----------------------------------------------------------------------------
(* What a step does to what its own thread looks for                         *)

\* A step that finds a block by an index that was not torn finds the block of
\* the key, or one that was split.
LEMMA FoundSeek ==
  ASSUME Inv, OldLead, NEW t \in Threads, pc[t] \in {"i_entry", "g_entry"}, Torn(t) \subseteq races',
         "torn" \notin races', NEW b, b = arrays[loc[t].arr][loc[t].x]
  PROVE  b = Home(t) /\ b \in Pointers /\ (blocks[b].split = TRUE \/ Current[EntryOf(Key(t))] = b)
<1>1. PICK a \in 1 .. Newest : a = loc[t].arr /\ loc[t].x \in Entries(a)
  BY Facts DEF LocalOK
<1>2. PICK k \in Keys : k = Key(t)
  BY Facts DEF LocalOK
<1>3. b = Home(t)
  BY NotTorn
<1>4. b \in Pointers
  BY <1>1 DEF Inv, Typed
<1>5. PICK y \in Entries(Newest) : y = EntryOf(k) /\ y % Pow2[DepthOf(a)] = EntryIn(a, k)
  <2>1. Newest \in Nat \ {0} /\ Hash[k] \in Nat /\ a \in Nat \ {0} /\ a <= Newest
    BY <1>1, CurrentTyped, HashTyped
  <2>2. PICK n \in Nat \ {0}, h \in Nat : n = Newest /\ h = Hash[k]
    BY <2>1
  <2>3. /\ (h % Pow2[DepthOf(n)]) % Pow2[DepthOf(a)] = h % Pow2[DepthOf(a)]
        /\ h % Pow2[DepthOf(n)] \in Entries(n)
    BY <2>1, <2>2, LowBits
  <2> QED
    BY <2>2, <2>3 DEF EntryOf, EntryIn
<1>6. b = arrays[a][y % Pow2[DepthOf(a)]]
  BY <1>1, <1>2, <1>3, <1>5 DEF Home
<1>7. blocks[b].split = TRUE \/ Current[y] = b
  BY <1>6 DEF OldLead
<1> QED
  BY <1>2, <1>3, <1>4, <1>5, <1>7

\* The keys and the entries of a step that leaves the directory alone.
SameLooks(t) ==
  /\ arrays' = arrays /\ Current' = Current /\ Newest' = Newest
  /\ \A k : EntryOf(k)' = EntryOf(k)

\* What a step that the directory does not notice does to its thread.
LEMMA SeekOwn ==
  ASSUME Inv, Inv', BlocksOK, Seen, NEW t \in Threads, BlockMove(t), SameLooks(t), SeeFrame,
         "torn" \notin races',
         Leaves(t) \/ Finds(t) \/ Stays(t) \/ LooksAgain(t) \/ FindsAgain(t) \/ WritesBack(t)
  PROVE  SeekAt(t)' /\ PutAt(t)' /\ \A k \in acked' : k \in acked \/ Shown(k)'
<1>1. /\ SeekAt(t) /\ PutAt(t) /\ OldLead /\ loc[t].target \in Pointers
      /\ pc[t] # "idle" => Key(t) \in Keys
  BY BusyFacts, Facts DEF Seen, LocalOK
<1>2. \A b \in Pointers : blocks[b].split = TRUE => blocks'[b].split = TRUE
  BY DEF SeeFrame
<1>3. ASSUME todo'[t] = todo[t] PROVE Key(t)' = Key(t)
  BY <1>3 DEF Key, Call
<1>4. ASSUME NEW k \in Keys, k = Key(t), Shown(k), todo'[t] = todo[t] PROVE Shown(Key(t))'
  <2>1. Shown(k)'
    BY <1>4 DEF SeeFrame
  <2>2. Key(t)' = k
    BY <1>3, <1>4
  <2> QED
    BY <2>1, <2>2 DEF Shown, HasKey, EntryOf
<1>5. CASE Leaves(t)
  BY <1>5 DEF Leaves, SeekAt, PutAt, FoundPCs, SeekPCs
<1>6. CASE Finds(t)
  <2>1. PICK b : b = arrays[loc[t].arr][loc[t].x]
    OBVIOUS
  <2>2. b \in Pointers /\ (blocks[b].split = TRUE \/ Current[EntryOf(Key(t))] = b)
    BY <1>1, <1>6, <2>1, FoundSeek DEF Finds
  <2>3. loc'[t].target = b /\ Key(t)' = Key(t)
    BY <1>3, <1>6, <2>1 DEF Finds
  <2>4. EntryOf(Key(t))' = EntryOf(Key(t))
    BY <2>3 DEF SameLooks, EntryOf
  <2>5. blocks'[b].split = TRUE \/ Current'[EntryOf(Key(t))] = b
    BY <1>2, <2>2 DEF SameLooks
  <2>6. SeekAt(t)'
    BY <2>3, <2>4, <2>5 DEF SeekAt, Target
  <2> QED
    BY <1>6, <2>6 DEF Finds, PutAt
<1>7. CASE Stays(t)
  <2>1. pc[t] # "idle"
    BY <1>7 DEF Stays, FoundPCs
  <2>2. PICK k \in Keys, b \in Pointers : k = Key(t) /\ b = loc[t].target
    BY <1>1, <2>1
  <2>3. Key(t)' = k /\ loc'[t].target = b /\ EntryOf(Key(t))' = EntryOf(k)
    BY <1>3, <1>7, <2>2 DEF Stays, SameLooks, EntryOf
  <2>4. pc[t] \in SeekPCs => blocks[b].split = TRUE \/ Current[EntryOf(k)] = b
    BY <1>1, <2>2 DEF SeekAt, Target
  <2>5. SeekAt(t)'
    <3> SUFFICES ASSUME pc'[t] \in SeekPCs
                 PROVE  blocks'[b].split = TRUE \/ Current'[EntryOf(k)] = b
      BY <2>3 DEF SeekAt, Target
    <3>1. pc[t] \in SeekPCs
      BY <1>7 DEF Stays
    <3> QED
      BY <1>2, <2>4, <3>1 DEF SameLooks
  <2>6. ASSUME pc'[t] = "i_unlock", loc'[t].ret # -1 PROVE Shown(Key(t))'
    <3>1. pc[t] = "i_key" /\ Taken(t) /\ ~Taken(t)'
      BY <1>7, <2>6 DEF Stays, Taken
    <3>2. PICK j \in Slots : j = loc[t].ret /\ blocks[b].slot[j].key = SENTINEL
      BY <2>2, <3>1 DEF BlocksOK, SlotsOwned, Target
    <3>3. blocks[b].split # TRUE
      BY <3>2, ExtendibleAssumption DEF BlocksOK, SplitFull
    <3>4. Current[EntryOf(k)] = b
      BY <2>4, <3>1, <3>3 DEF SeekPCs
    <3>5. FillsSlot(t)
      BY <3>1 DEF BlockMove, SlotMove, KeepsSlots, TakesSlot
    <3>6. blocks'[b].slot[j].key = k
      BY <2>2, <3>2, <3>5 DEF FillsSlot
    <3>7. Current'[EntryOf(Key(t))'] = b
      BY <2>3, <3>4 DEF SameLooks
    <3> QED
      BY <2>3, <3>6, <3>7 DEF Shown, HasKey
  <2>7. ASSUME pc'[t] = "i_flusharr" PROVE Shown(Key(t))'
    <3>1. Shown(k)
      BY <1>1, <1>7, <2>2, <2>7 DEF Stays, PutAt
    <3> QED
      BY <1>4, <1>7, <2>2, <3>1 DEF Stays
  <2>8. pc'[t] \notin {"i_flushentry", "i_flush"}
    BY <1>7 DEF Stays, FoundPCs
  <2>9. PutAt(t)'
    BY <2>6, <2>7, <2>8 DEF PutAt
  <2> QED
    BY <1>7, <2>5, <2>9 DEF Stays
<1>8. CASE LooksAgain(t) \/ FindsAgain(t)
  <2>1. PICK k \in Keys : k = Key(t)
    BY <1>1, <1>8 DEF LooksAgain, FindsAgain
  <2>2. Shown(k)
    BY <1>1, <1>8, <2>1 DEF LooksAgain, FindsAgain, PutAt
  <2>3. Shown(Key(t))'
    BY <1>4, <1>8, <2>1, <2>2 DEF LooksAgain, FindsAgain
  <2> QED
    BY <1>8, <2>3 DEF LooksAgain, FindsAgain, SeekAt, SeekPCs, PutAt
<1>9. CASE WritesBack(t)
  <2>1. PICK k \in Keys : k = Key(t)
    BY <1>1, <1>9 DEF WritesBack
  <2>2. Shown(k)
    BY <1>1, <1>9, <2>1 DEF WritesBack, PutAt
  <2>3. Shown(k)'
    BY <2>2 DEF SeeFrame
  <2> QED
    BY <1>9, <2>1, <2>3 DEF WritesBack, SeekAt, SeekPCs, PutAt
<1> QED
  BY <1>5, <1>6, <1>7, <1>8, <1>9

\* Outside Get there is nothing to ask.
AskPCs == {"g_cap", "g_arr", "g_entry", "g_scan", "g_return"}

LEMMA AskNothing ==
  ASSUME NEW t \in Threads, pc'[t] \notin AskPCs
  PROVE  AskAt(t)'
BY DEF AskAt, AskPCs

\* A Get that must find its key is on its way to it, unless its index was torn.
LEMMA AskOwn ==
  ASSUME NONE \notin Values, Inv, Inv', Seen, NEW t \in Threads, Step(t), "torn" \notin races'
  PROVE  AskAt(t)'
<1>0. /\ pc \in [Threads -> PCs] /\ loc \in [Threads -> Locals] /\ loc[t] \in Locals /\ LocalOK(t)
      /\ dir.arr = Newest /\ Newest \in 1 .. Newest
  BY Facts, CurrentTyped DEF Inv, Typed
<1>1. AskAt(t) /\ AckedShown /\ OldLead /\ ValuesOK
  BY DEF Seen
<1>2. ASSUME todo' = todo PROVE Key(t)' = Key(t)
  BY <1>2 DEF Key, Call
<1>3. \A v : /\ [loc[t] EXCEPT !["x"] = v].must = loc[t].must
             /\ [loc[t] EXCEPT !["arr"] = v].must = loc[t].must
             /\ [loc[t] EXCEPT !["arr"] = v].arr = v
             /\ [loc[t] EXCEPT !["must"] = v].must = v
             /\ [loc[t] EXCEPT !["result"] = v].must = loc[t].must
             /\ [loc[t] EXCEPT !["result"] = v].result = v
  BY <1>0 DEF Locals
<1>4. CASE Start(t)
  <2>1. /\ todo' = todo /\ acked' = acked /\ pc'[t] \in {"g_cap", "i_cap"}
        /\ loc' = [loc EXCEPT ![t] = [loc[t] EXCEPT !["must"] = (Key(t) \in acked)]]
    BY <1>0, <1>4 DEF Start, Goto, Put
  <2>2. loc'[t].must = (Key(t) \in acked)
    BY <1>0, <1>3, <2>1
  <2> QED
    BY <1>2, <2>1, <2>2 DEF AskAt
<1>5. CASE GetCapacity(t)
  <2>1. PICK v : /\ todo' = todo /\ acked' = acked /\ pc[t] = "g_cap" /\ pc'[t] = "g_arr"
                 /\ loc' = [loc EXCEPT ![t] = [loc[t] EXCEPT !["x"] = v]]
    BY <1>0, <1>5 DEF GetCapacity, Read, Goto, Put
  <2>2. loc'[t].must = loc[t].must
    BY <1>0, <1>3, <2>1
  <2> QED
    BY <1>1, <1>2, <2>1, <2>2 DEF AskAt
<1>6. CASE GetArray(t)
  <2>1. /\ todo' = todo /\ acked' = acked /\ pc[t] = "g_arr" /\ pc'[t] = "g_entry" /\ arrays' = arrays
        /\ loc' = [loc EXCEPT ![t] = [loc[t] EXCEPT !["arr"] = dir.arr]]
    BY <1>0, <1>6 DEF GetArray, Read, Goto, Put
  <2>2. loc'[t].must = loc[t].must /\ loc'[t].arr = Newest /\ Newest' = Newest
    BY <1>0, <1>3, <2>1 DEF Newest
  <2> QED
    BY <1>1, <1>2, <2>1, <2>2 DEF AskAt
<1>7. CASE GetTarget(t)
  <2>1. PICK b : b = arrays[loc[t].arr][loc[t].x]
    OBVIOUS
  <2>2. /\ pc[t] = "g_entry" /\ acked' = acked /\ todo' = todo /\ Torn(t) \subseteq races'
        /\ loc'[t].must = loc[t].must
        /\ (pc'[t] = "g_scan" /\ loc'[t].target = b) \/ pc'[t] = "lost"
    BY <1>7, <2>1, ReadEntryMove DEF GetTarget
  <2>3. b = Home(t) /\ b \in Pointers /\ blocks' = blocks
    BY <1>1, <1>7, <2>1, <2>2, FoundSeek DEF GetTarget, ReadEntry
  <2> SUFFICES ASSUME pc'[t] = "g_scan", loc[t].must = TRUE PROVE HasKey(b, Key(t))
    BY <1>2, <2>2, <2>3 DEF AskAt, HasKey
  <2>4. CASE loc[t].arr # Newest
    BY <1>1, <2>2, <2>3, <2>4 DEF AskAt
  <2>5. CASE loc[t].arr = Newest
    <3>1. Key(t) \in acked
      BY <1>1, <2>2 DEF AskAt
    <3>2. HasKey(Current[EntryOf(Key(t))], Key(t))
      BY <1>1, <3>1 DEF AckedShown, Shown
    <3>3. Home(t) = Current[EntryOf(Key(t))]
      BY <2>5, CurrentTyped DEF Home, EntryIn, EntryOf
    <3> QED
      BY <2>3, <3>2, <3>3
  <2> QED
    BY <2>4, <2>5
<1>8. CASE GetScan(t)
  <2> DEFINE hits == {i \in Slots : Target(t).slot[i].key = Key(t)}
             v == IF hits = {} THEN NONE ELSE Target(t).slot[First(hits)].value
  <2>1. /\ todo' = todo /\ pc[t] = "g_scan" /\ pc'[t] = "g_return"
        /\ loc' = [loc EXCEPT ![t] = [loc[t] EXCEPT !["result"] = v]]
    BY <1>0, <1>8 DEF GetScan, Goto, Put
  <2>2. hits # {} => hits \in SUBSET Nat /\ hits \subseteq Slots
    BY DEF Slots
  <2>3. Key(t) \in Keys /\ loc[t].target \in Pointers
    BY <2>1, Facts DEF LocalOK
  <2>4. loc[t].must = TRUE => v # NONE
    <3> HAVE loc[t].must = TRUE
    <3>1. PICK j \in Slots : Target(t).slot[j].key = Key(t)
      BY <1>1, <2>1 DEF AskAt, HasKey, Target
    <3>2. hits # {} /\ First(hits) \in hits
      <4>1. hits # {}
        BY <3>1
      <4> HIDE DEF hits
      <4> QED
        BY <2>2, <4>1, FirstIn
    <3>3. PICK i \in Slots : i = First(hits) /\ Target(t).slot[i].key = Key(t)
      BY <3>2
    <3>4. Target(t).slot[i].value \in Values
      BY <1>1, <2>3, <3>3 DEF ValuesOK, Target
    <3> QED
      BY <3>2, <3>3, <3>4
  <2> HIDE DEF v
  <2>5. loc'[t].must = loc[t].must /\ loc'[t].result = v
    BY <1>0, <1>3, <2>1
  <2> QED
    BY <2>1, <2>4, <2>5 DEF AskAt
<1>9. CASE ReadCapacity(t) \/ ReadArray(t) \/ ReadFlushArray(t)
  <2>1. pc'[t] \in {"i_arr", "i_entry", "i_flushentry"}
    BY <1>0, <1>9 DEF ReadCapacity, ReadArray, ReadFlushArray, Read, Goto
  <2> QED
    BY <2>1, AskNothing DEF AskPCs
<1>10. CASE ReadTarget(t) \/ ReadFlushBlock(t)
  <2>1. pc'[t] \in {"i_gate", "i_flush", "lost"}
    BY <1>0, <1>10 DEF ReadTarget, ReadFlushBlock, ReadEntry, Goto
  <2> QED
    BY <2>1, AskNothing DEF AskPCs
<1>11. CASE Gate(t) \/ ReturnGet(t) \/ Lock(t) \/ Probe(t) \/ StoreValue(t) \/ StoreKey(t)
  <2>1. pc'[t] \in {"i_lock", "i_cap", "idle", "i_probe", "i_value", "i_unlock", "i_key"}
    BY <1>0, <1>11 DEF Gate, ReturnGet, Lock, Probe, StoreValue, StoreKey, Return, Goto
  <2> QED
    BY <2>1, AskNothing DEF AskPCs
<1>12. CASE Unlock(t) \/ FlushPair(t) \/ Split(t) \/ Acquire(t)
  <2>1. pc'[t] \in {"i_flusharr", "i_split", "idle", "i_acquire", "i_cap", "i_update", "i_double", "lost"}
    BY <1>0, <1>12 DEF Unlock, FlushPair, Split, Acquire, Return, Goto
  <2> QED
    BY <2>1, AskNothing DEF AskPCs
<1>13. CASE StoreEntry(t) \/ EndUpdate(t) \/ PublishArray(t) \/ PublishCapacity(t) \/ DeleteOld(t)
            \/ Release(t)
  <2>1. pc'[t] \in {"i_update", "i_release", "i_capacity", "i_delete", "i_cap"}
    BY <1>0, <1>13 DEF StoreEntry, EndUpdate, PublishArray, PublishCapacity, DeleteOld, Release, Goto
  <2> QED
    BY <2>1, AskNothing DEF AskPCs
<1> QED
  BY <1>4, <1>5, <1>6, <1>7, <1>8, <1>9, <1>10, <1>11, <1>12, <1>13 DEF Step

\* A step that the directory does not notice keeps what is found found.
LEMMA CalmSee ==
  ASSUME Inv, Inv', Content, NEW t \in Threads, Calm, BlockMove(t), acked \subseteq acked'
  PROVE  SeeFrame /\ SameLooks(t)
<1>1. /\ Pointers' = Pointers /\ arrays' = arrays /\ dir'.arr = dir.arr /\ Current' = Current
      /\ \A b \in Pointers : blocks'[b].split = blocks[b].split
  BY DEF Calm, SameBlocks, SameBits, Current
<1>2. PairsKept
  BY <1>1, PairsStay DEF PairsKept, Content, BlocksOK, BlockMove
<1>3. Newest' = Newest /\ \A k : EntryOf(k)' = EntryOf(k)
  BY <1>1 DEF Newest, EntryOf, DepthOf
<1> QED
  BY <1>1, <1>2, <1>3, SameArraysSee DEF SameLooks

\* What is left to show of a step that has this frame.
LEMMA SeenNext ==
  ASSUME Inv, Inv', Seen, NEW t \in Threads, Others(t), SeeFrame, ValuesOK',
         SeekAt(t)', PutAt(t)', AskAt(t)', \A k \in acked' : k \in acked \/ Shown(k)'
  PROVE  Seen'
<1>1. /\ OldLead' /\ \A k \in acked : Shown(k)'
      /\ \A u \in Threads \ {t} : SeekAt(u)' /\ PutAt(u)' /\ AskAt(u)'
  BY SeenElsewhere
<1>2. AckedShown'
  BY <1>1 DEF AckedShown
<1> QED
  BY <1>1, <1>2 DEF Seen

\* The steps of a thread that splits a block leave nothing to look for.
LEMMA BusyNext ==
  ASSUME NEW t \in Threads, pc'[t] \notin FoundPCs \cup {"i_flush"}
  PROVE  SeekAt(t)' /\ PutAt(t)'
BY DEF SeekAt, PutAt, FoundPCs, SeekPCs

\* A split hides no key: the old block keeps its pairs.
LEMMA SplitSeen ==
  ASSUME Inv, Inv', Patterns, KeyBelongs, Content, Seen, NEW t \in Threads, Others(t),
         Split(t), Target(t).sema = 0, "resplit" \notin races', AskAt(t)'
  PROVE  Seen'
<1>1. PICK c \in Block, h1 \in Block, h2 \in Block : SplitStep(t, c, h1, h2)
  BY SplitSteps
<1>2. Target(t).split = FALSE
  <2>1. Target(t).split # TRUE
    BY <1>1 DEF SplitStep
  <2> QED
    BY <2>1, BusyFacts DEF Block
<1>3. \A b \in Pointers : blocks'[b].slot = blocks[b].slot
  BY <1>1, <1>2, SplitBlocks DEF Content
<1>4. ValuesOK'
  BY <1>1, <1>2, <1>3, SplitValues DEF Content, Seen
<1>5. /\ pc'[t] = "i_acquire" /\ arrays' = arrays /\ dir'.arr = dir.arr /\ acked' = acked
  BY <1>1, GotoOthers DEF SplitStep, Split
<1>6. Pointers \subseteq Pointers'
  <2>1. Len(blocks) \in Nat /\ Len(blocks') = Len(blocks) + 2
    BY <1>1 DEF Inv, Typed, SplitStep
  <2> QED
    BY <2>1 DEF Pointers
<1>7. PairsKept
  BY <1>3, <1>6 DEF PairsKept, SameSlot
<1>8. ASSUME NEW b \in Pointers, blocks[b].split = TRUE PROVE blocks'[b].split = TRUE
  BY <1>1, <1>8 DEF SplitStep
<1>9. SeeFrame
  BY <1>5, <1>7, <1>8, SameArraysSee
<1>10. SeekAt(t)' /\ PutAt(t)'
  BY <1>5, BusyNext DEF FoundPCs
<1> QED
  BY <1>4, <1>5, <1>9, <1>10, SeenNext

\* Every step of a thread keeps what is found found, unless a block is split
\* again or an index is torn.
LEMMA StepSeeing ==
  ASSUME NONE \notin Values, Inv, Inv', Directory, Contents, Seeing, NEW t \in Threads, Step(t)
  PROVE  Seeing'
<1> SUFFICES ASSUME Unraced' PROVE Seen'
  BY DEF Seeing
<1>0. races \subseteq races' /\ "resplit" \notin races' /\ "torn" \notin races'
  BY RacesGrow DEF Unraced
<1>1. Patterns /\ KeyBelongs /\ Shape /\ Content /\ Seen /\ Others(t)
  BY <1>0, OthersStay DEF Directory, Contents, Seeing, Unraced
<1>2. AskAt(t)'
  BY <1>0, <1>1, AskOwn
<1>3. CASE Split(t) /\ Target(t).sema = 0
  BY <1>0, <1>1, <1>2, <1>3, SplitSeen
<1>4. CASE ~(Split(t) /\ Target(t).sema = 0)
  <2>1. BlockMove(t) /\ pc \in [Threads -> PCs]
    BY <1>4, BlockMoves DEF Inv, Typed
  <2>2. ValuesOK'
    <3>1. StoresValues(t)
      BY <1>4, ValueMoves
    <3>2. SlotMove(t)
      BY <2>1 DEF BlockMove
    <3> QED
      BY <1>1, <3>1, <3>2, ValuesKept DEF Seen
  <2>3. CASE Acquire(t)
    <3>1. /\ pc'[t] \in {"i_update", "i_double", "lost"} /\ blocks' = blocks /\ arrays' = arrays
          /\ dir'.arr = dir.arr /\ acked' = acked
      BY <2>1, <2>3 DEF Acquire, Goto, Inv, Typed
    <3>2. PairsKept
      BY <3>1 DEF PairsKept, SameSlot, Pointers
    <3>3. SeeFrame
      BY <3>1, <3>2, SameArraysSee
    <3>4. SeekAt(t)' /\ PutAt(t)'
      BY <3>1, BusyNext DEF FoundPCs
    <3> QED
      BY <1>1, <1>2, <2>2, <3>1, <3>3, <3>4, SeenNext
  <2>4. CASE StoreEntry(t)
    <3>1. pc'[t] = "i_update" /\ acked' = acked
      BY <2>4 DEF StoreEntry
    <3>2. SeeFrame
      BY <1>1, <2>4, StoreSee
    <3>3. SeekAt(t)' /\ PutAt(t)'
      BY <3>1, BusyNext DEF FoundPCs
    <3> QED
      BY <1>1, <1>2, <2>2, <3>1, <3>2, <3>3, SeenNext
  <2>5. CASE PublishArray(t)
    <3>1. pc'[t] = "i_capacity" /\ acked' = acked
      BY <2>1, <2>5 DEF PublishArray, Goto
    <3>2. SeeFrame
      BY <1>1, <2>5, PublishSee
    <3>3. SeekAt(t)' /\ PutAt(t)'
      BY <3>1, BusyNext DEF FoundPCs
    <3> QED
      BY <1>1, <1>2, <2>2, <3>1, <3>2, <3>3, SeenNext
  <2>6. CASE ~Acquire(t) /\ ~StoreEntry(t) /\ ~PublishArray(t)
    <3>1. Calm
      BY <1>4, <2>6, CalmSteps
    <3>2. Leaves(t) \/ Finds(t) \/ Stays(t) \/ LooksAgain(t) \/ FindsAgain(t) \/ WritesBack(t)
      BY <1>4, <2>6, CalmOwn
    <3>3. acked \subseteq acked'
      BY <3>2 DEF Leaves, Finds, Stays, LooksAgain, FindsAgain, WritesBack
    <3>4. SeeFrame /\ SameLooks(t)
      BY <1>1, <2>1, <3>1, <3>3, CalmSee
    <3>5. BlocksOK
      BY <1>1 DEF Content
    <3>6. SeekAt(t)' /\ PutAt(t)' /\ \A k \in acked' : k \in acked \/ Shown(k)'
      BY <1>0, <1>1, <2>1, <3>2, <3>4, <3>5, SeekOwn
    <3> QED
      BY <1>1, <1>2, <2>2, <3>4, <3>6, SeenNext
  <2> QED
    BY <2>3, <2>4, <2>5, <2>6
<1> QED
  BY <1>3, <1>4

\* A stuttering step keeps it.
LEMMA StutterSeeing ==
  ASSUME Seeing, UNCHANGED vars
  PROVE  Seeing'
<1> SUFFICES ASSUME Seen PROVE Seen'
  BY DEF Seeing, Unraced, vars
<1>0. blocks' = blocks /\ arrays' = arrays /\ dir' = dir /\ pc' = pc /\ loc' = loc /\ todo' = todo
      /\ acked' = acked
  BY DEF vars
<1>1. Newest' = Newest /\ Pointers' = Pointers /\ Current' = Current
  BY <1>0 DEF Newest, Pointers, Current
<1>2. OldLead' /\ ValuesOK'
  BY <1>0, <1>1 DEF Seen, OldLead, ValuesOK, Entries, DepthOf, Target
<1>3. AckedShown'
  BY <1>0, <1>1 DEF Seen, AckedShown, Shown, HasKey, EntryOf, DepthOf
<1>4. ASSUME NEW t \in Threads PROVE SeekAt(t)' /\ PutAt(t)' /\ AskAt(t)'
  <2>1. SeekAt(t) /\ PutAt(t) /\ AskAt(t)
    BY DEF Seen
  <2>2. SeekAt(t)' /\ PutAt(t)'
    BY <1>0, <1>1, <2>1 DEF SeekAt, PutAt, Target, Key, Call, Shown, HasKey, EntryOf, DepthOf
  <2>3. AskAt(t)'
    BY <1>0, <1>1, <2>1 DEF AskAt, Key, Call, HasKey, Home, EntryIn, DepthOf
  <2> QED
    BY <2>2, <2>3
<1> QED
  BY <1>2, <1>3, <1>4 DEF Seen

\* At the start there is one array and no key.
LEMMA InitSeeing ==
  ASSUME Init, Inv
  PROVE  Seeing
<1>0. INVALID \notin Keys /\ InitDepth \in Nat
  BY ExtendibleAssumption
<1>1. PICK c \in Nat \ {0} : c = Pow2[InitDepth]
  BY <1>0, Pow2Step
<1>2. \A b \in Pointers : \A j \in Slots : blocks[b].slot[j].key = INVALID
  <2>1. blocks = [i \in 1 .. c |-> NewBlock(InitDepth, i - 1)]
    BY <1>1 DEF Init
  <2>2. Len(blocks) = c
    BY <2>1
  <2> QED
    BY <2>1, <2>2 DEF Pointers, NewBlock, Empty
<1>3. \A t \in Threads : pc[t] = "idle"
  BY DEF Init
<1>4. ValuesOK
  BY <1>0, <1>2, <1>3 DEF ValuesOK
<1>5. OldLead
  <2>1. Newest = 1 /\ Current = arrays[1]
    BY DEF Init, Newest, Current
  <2>2. PICK m \in Nat \ {0} : m = Pow2[DepthOf(1)] /\ Entries(1) = 0 .. m - 1
    BY CurrentTyped, <2>1
  <2>3. \A y \in 0 .. m - 1 : y % m = y
    BY <2>2, DivModUnique
  <2>4. \A a \in 1 .. 1 : a = 1
    OBVIOUS
  <2> QED
    BY <2>1, <2>2, <2>3, <2>4 DEF OldLead
<1>6. AckedShown
  BY DEF Init, AckedShown
<1>7. \A t \in Threads : SeekAt(t) /\ PutAt(t) /\ AskAt(t)
  BY <1>3 DEF SeekAt, PutAt, AskAt, SeekPCs
<1> QED
  BY <1>4, <1>5, <1>6, <1>7 DEF Seeing, Seen

\* Where every key is looked up, for any threads, calls, hash function, block
\* size and initial depth, as long as 0x0 is stored as no value.
THEOREM SeeingHolds ==
  ASSUME NONE \notin Values
  PROVE  Spec => []Seeing
<1>1. Init /\ Inv => Seeing
  BY InitSeeing
<1>2. Inv /\ Inv' /\ Directory /\ Contents /\ Seeing /\ [Next]_vars => Seeing'
  <2> SUFFICES ASSUME Inv, Inv', Directory, Contents, Seeing, [Next]_vars PROVE Seeing'
    OBVIOUS
  <2>1. ASSUME NEW t \in Threads, Step(t) PROVE Seeing'
    BY <2>1, StepSeeing
  <2>2. CASE UNCHANGED vars
    BY <2>2, StutterSeeing
  <2> QED
    BY <2>1, <2>2 DEF Next, Terminating
<1> QED
  BY <1>1, <1>2, InvHolds, DirectoryHolds, ContentsHold, PTL DEF Spec

\* GetSound: a Get that began after the Insert of its key had returned finds
\* it, also in a block that has been replaced, unless a call used an index of
\* a smaller array or a block was split twice.  As 0x0 is what Get returns for
\* a key that it does not find, it must not be stored.
THEOREM GetIsSound ==
  ASSUME NONE \notin Values
  PROVE  Spec => []GetSound
<1>1. Seeing => GetSound
  <2> SUFFICES ASSUME Seeing, NEW t \in Threads, pc[t] = "g_return", races \subseteq {"freed"},
                      loc[t].must
               PROVE  loc[t].result # NONE
    BY DEF GetSound
  <2>1. Unraced
    BY DEF Unraced
  <2>2. AskAt(t)
    BY <2>1 DEF Seeing, Seen
  <2>3. loc[t].must = TRUE
    OBVIOUS
  <2> QED
    BY <2>2, <2>3 DEF AskAt
<1> QED
  BY <1>1, SeeingHolds, PTL

=============================================================================

--------------------------- MODULE ExtendibleHash ---------------------------
(***************************************************************************)
(* Extendible hashing (case_study/external_repo/cceh/src/extendible_hash.h,*)
(* extendible_hash.cpp) as the Makefile builds it: LSB, without INPLACE.   *)
(* The directory is indexed by the low bits of the hash; a split makes two *)
(* new blocks and leaves the old one closed (sema = -1) for ever; the      *)
(* directory has one lock, which readers ignore.                           *)
(*                                                                         *)
(* One action per access of shared memory that another thread can see:     *)
(* `capacity', `dir._' and the entry are three loads, and doubling stores  *)
(* `dir._' and `capacity' one after the other.  The scan of a block is one *)
(* step: in a block slots only go from INVALID to taken.                   *)
(***************************************************************************)
EXTENDS Powers, Sequences, FiniteSets

CONSTANTS
  Threads,
  Keys, Values,        \* Key_t without the reserved words, Value_t
  INVALID, SENTINEL,   \* reserved key words
  NONE,                \* Value_t 0x0
  HashBits,            \* width of a hash; also the deepest directory explored
  Hash,                \* h of a key word
  NumSlot,             \* kNumSlot
  InitDepth,           \* log2(initCap)
  Programs             \* each the calls the threads make, in order

Slots == 0 .. NumSlot - 1
KeyWords == Keys \cup {INVALID, SENTINEL}
Calls == [op : {"insert", "insertOnly", "get"}, key : Keys, value : Values]

ASSUME ExtendibleAssumption ==
  /\ HashBits \in Nat /\ InitDepth \in 0 .. HashBits
  /\ NumSlot \in Nat \ {0}
  /\ INVALID \notin Keys /\ SENTINEL \notin Keys /\ INVALID # SENTINEL
  /\ Hash \in [KeyWords -> 0 .. Pow2[HashBits] - 1]
  /\ Programs \subseteq [Threads -> Seq(Calls)]

ASSUME ThreadsAssumption == IsFiniteSet(Threads)

VARIABLES
  blocks,        \* the blocks allocated so far; a pointer is an index
  arrays,        \* the arrays of block pointers allocated so far
  freed,         \* arrays that were deleted
  dir,           \* Directory: which array, capacity, lock
  global_depth,
  pc, loc,       \* where each thread is, and its local variables
  todo,          \* the calls it still has to make; Head is the current one
  acked,         \* keys whose Insert has returned
  races          \* "resplit": a block was split twice; "freed": a deleted
                 \* array was read; "torn": a call used an index of the old
                 \* array, and it led elsewhere

vars == <<blocks, arrays, freed, dir, global_depth, pc, loc, todo, acked, races>>

-----------------------------------------------------------------------------

\* A directory array has 2^depth entries.
Size(a) == Cardinality(DOMAIN arrays[a])

Empty == [key |-> INVALID, value |-> NONE, durable |-> FALSE]

NewBlock(depth, pattern) ==
  [slot |-> [i \in Slots |-> Empty], sema |-> 0, local_depth |-> depth, pattern |-> pattern,
   split |-> FALSE]    \* has Split succeeded?  For `races' only

Call(t) == Head(todo[t])
Key(t) == Call(t).key
Target(t) == blocks[loc[t].target]

NoLocals == [x |-> 0, arr |-> 1, target |-> 1, ret |-> -1, s |-> <<0, 0>>,
             writes |-> <<>>, must |-> FALSE, result |-> NONE]

Goto(t, to) == pc' = [pc EXCEPT ![t] = to]
Put(t, field, v) == loc' = [loc EXCEPT ![t][field] = v]

Return(t) ==
  /\ Goto(t, "idle")
  /\ loc' = [loc EXCEPT ![t] = NoLocals]
  /\ todo' = [todo EXCEPT ![t] = Tail(@)]

\* ExtendibleHash(initCap), and the start of the calling threads
Init ==
  /\ blocks = [i \in 1 .. Pow2[InitDepth] |-> NewBlock(InitDepth, i - 1)]
  /\ arrays = <<[x \in 0 .. Pow2[InitDepth] - 1 |-> x + 1]>>
  /\ freed = {}
  /\ dir = [arr |-> 1, capacity |-> Pow2[InitDepth], lock |-> FALSE]
  /\ global_depth = InitDepth
  /\ pc = [t \in Threads |-> "idle"]
  /\ loc = [t \in Threads |-> NoLocals]
  /\ todo \in Programs
  /\ acked = {}
  /\ races = {}

\* A step that only reads shared state, into one local variable.
Read(t, from, to, field, v) ==
  /\ pc[t] = from
  /\ Goto(t, to)
  /\ Put(t, field, v)
  /\ UNCHANGED <<blocks, arrays, freed, dir, global_depth, todo, acked, races>>

\* The entry of the array is not the one that the key has there: the index was
\* computed for a smaller array.
Torn(t) ==
  LET a == loc[t].arr
  IN  IF arrays[a][loc[t].x] = arrays[a][Hash[Key(t)] % Size(a)] THEN {} ELSE {"torn"}

\* The load of arr[x].  A deleted array may still hold its old entries, or the
\* thread reads garbage and is lost.
ReadEntry(t, from, to, torn) ==
  /\ pc[t] = from
  /\ \/ Goto(t, to) /\ Put(t, "target", arrays[loc[t].arr][loc[t].x])
     \/ loc[t].arr \in freed /\ Goto(t, "lost") /\ UNCHANGED loc
  /\ races' = races \cup torn \cup (IF loc[t].arr \in freed THEN {"freed"} ELSE {})
  /\ UNCHANGED <<blocks, arrays, freed, dir, global_depth, todo, acked>>

-----------------------------------------------------------------------------
(* Insert(key, value), and InsertOnly(key, value), which does not split      *)

Start(t) ==
  /\ pc[t] = "idle"
  /\ todo[t] # <<>>
  /\ Goto(t, IF Call(t).op = "get" THEN "g_cap" ELSE "i_cap")
  /\ Put(t, "must", Key(t) \in acked)
  /\ UNCHANGED <<blocks, arrays, freed, dir, global_depth, todo, acked, races>>

\* RETRY: x = key_hash % dir.capacity; target = dir._[x]
ReadCapacity(t) == Read(t, "i_cap", "i_arr", "x", Hash[Key(t)] % dir.capacity)
ReadArray(t) == Read(t, "i_arr", "i_entry", "arr", dir.arr)
ReadTarget(t) == ReadEntry(t, "i_entry", "i_gate", Torn(t))

\* (key_hash & (1 << local_depth) - 1) == pattern
Belongs(block, k) == Hash[k] % Pow2[block.local_depth] = block.pattern

\* Block::Insert up to its lock: -2 when the block is closed or not the key's.
\* Insert then calls itself, InsertOnly returns false.
Gate(t) ==
  /\ pc[t] = "i_gate"
  /\ \/ /\ Target(t).sema # -1 /\ Belongs(Target(t), Key(t))
        /\ Goto(t, "i_lock")
        /\ UNCHANGED <<loc, todo>>
     \/ /\ Target(t).sema = -1 \/ ~Belongs(Target(t), Key(t))
        /\ IF Call(t).op = "insert" THEN Goto(t, "i_cap") /\ UNCHANGED <<loc, todo>>
           ELSE Return(t)
  /\ UNCHANGED <<blocks, arrays, freed, dir, global_depth, acked, races>>

\* lock = sema; while (!CAS(&sema, &lock, lock+1)) lock = sema: the loop does
\* not look at the sign again, so it opens a block that was closed meanwhile.
Lock(t) ==
  /\ pc[t] = "i_lock"
  /\ Goto(t, "i_probe")
  /\ blocks' = [blocks EXCEPT ![loc[t].target].sema = @ + 1]
  /\ UNCHANGED <<arrays, freed, dir, global_depth, loc, todo, acked, races>>

FreeSlots(block) == {i \in Slots : block.slot[i].key = INVALID}
First(S) == CHOOSE i \in S : \A j \in S : i <= j

Probe(t) ==
  /\ pc[t] = "i_probe"
  /\ LET free == FreeSlots(Target(t))
     IN  \/ /\ free # {}
            /\ Goto(t, "i_value")
            /\ Put(t, "ret", First(free))
            /\ blocks' = [blocks EXCEPT ![loc[t].target].slot[First(free)].key = SENTINEL]
         \/ /\ free = {}
            /\ Goto(t, "i_unlock")
            /\ Put(t, "ret", -1)
            /\ UNCHANGED blocks
  /\ UNCHANGED <<arrays, freed, dir, global_depth, todo, acked, races>>

StoreValue(t) ==
  /\ pc[t] = "i_value"
  /\ Goto(t, "i_key")
  /\ blocks' = [blocks EXCEPT ![loc[t].target].slot[loc[t].ret].value = Call(t).value]
  /\ UNCHANGED <<arrays, freed, dir, global_depth, loc, todo, acked, races>>

StoreKey(t) ==
  /\ pc[t] = "i_key"
  /\ Goto(t, "i_unlock")
  /\ blocks' = [blocks EXCEPT ![loc[t].target].slot[loc[t].ret] =
                                [@ EXCEPT !.key = Key(t), !.durable = FALSE]]
  /\ UNCHANGED <<arrays, freed, dir, global_depth, loc, todo, acked, races>>

\* Block::Insert releases the block and returns the slot, or -1.
Unlock(t) ==
  /\ pc[t] = "i_unlock"
  /\ blocks' = [blocks EXCEPT ![loc[t].target].sema = @ - 1]
  /\ \/ loc[t].ret # -1 /\ Goto(t, "i_flusharr") /\ UNCHANGED <<loc, todo>>
     \/ loc[t].ret = -1 /\ Call(t).op = "insert" /\ Goto(t, "i_split") /\ UNCHANGED <<loc, todo>>
     \/ loc[t].ret = -1 /\ Call(t).op = "insertOnly" /\ Return(t)
  /\ UNCHANGED <<arrays, freed, dir, global_depth, acked, races>>

\* clflush(&dir._[x]->_[ret]): the block is looked up again, with the old x.
ReadFlushArray(t) == Read(t, "i_flusharr", "i_flushentry", "arr", dir.arr)
ReadFlushBlock(t) == ReadEntry(t, "i_flushentry", "i_flush", {})

FlushPair(t) ==
  /\ pc[t] = "i_flush"
  /\ blocks' = [blocks EXCEPT ![loc[t].target].slot[loc[t].ret].durable = TRUE]
  /\ acked' = acked \cup {Key(t)}
  /\ Return(t)
  /\ UNCHANGED <<arrays, freed, dir, global_depth, races>>

-----------------------------------------------------------------------------
(* Splitting a full block                                                   *)

\* Mutant: the last slot of a new block stays free.
Insert4splitShort(slot, e) ==
  LET free == {i \in Slots : i < NumSlot - 1 /\ slot[i].key = INVALID}
  IN  IF free = {} THEN slot ELSE [slot EXCEPT ![First(free)] = e]

\* Block::Insert4split
Insert4split(slot, e) ==
  LET free == {i \in Slots : slot[i].key = INVALID}
  IN  IF free = {} THEN slot ELSE [slot EXCEPT ![First(free)] = e]

\* The pairs of a block whose hash has `bit' at position local_depth.
Copied(block, bit) ==
  LET copied[i \in 0 .. NumSlot] ==
        IF i = 0 THEN [j \in Slots |-> Empty]
        ELSE LET e == block.slot[i - 1]
             IN  IF (Hash[e.key] \div Pow2[block.local_depth]) % 2 = bit
                 THEN Insert4split(copied[i - 1], e) ELSE copied[i - 1]
  IN  copied[NumSlot]

\* Mutant: only the second of the two new blocks is written back.
HalfUnflushed(block, bit) ==
  [j \in Slots |-> [Copied(block, bit)[j] EXCEPT !.durable = (bit = 1)]]

\* A new block is written back as a whole: clflush(split[bit], sizeof(Block)).
Half(block, bit) == [j \in Slots |-> [Copied(block, bit)[j] EXCEPT !.durable = TRUE]]

\* Block::Split, then the patterns of the new blocks.  Split gives up when
\* anybody is inside.  (HashBits bounds the depth.)
Split(t) ==
  LET b == Target(t)
      half(bit) == [NewBlock(b.local_depth + 1,
                             (Hash[Key(t)] % Pow2[b.local_depth]) + bit * Pow2[b.local_depth])
                      EXCEPT !.slot = Half(b, bit)]
  IN  /\ pc[t] = "i_split"
      /\ \/ /\ b.sema = 0
            /\ b.local_depth < HashBits
            /\ Goto(t, "i_acquire")
            /\ blocks' = [blocks EXCEPT ![loc[t].target] = [@ EXCEPT !.sema = -1, !.split = TRUE]]
                           \o <<half(0), half(1)>>
            /\ Put(t, "s", <<Len(blocks) + 1, Len(blocks) + 2>>)
            /\ races' = races \cup (IF b.split THEN {"resplit"} ELSE {})
         \/ /\ b.sema # 0
            /\ Goto(t, "i_cap")
            /\ UNCHANGED <<blocks, loc, races>>
      /\ UNCHANGED <<arrays, freed, dir, global_depth, todo, acked>>

\* Mutant: the recursion stops one level early.
LSBUpdateShallow(depth_diff, cap, x, s) ==
  LET half == cap \div 2
      lo == IF x % cap >= half THEN x - half ELSE x
  IN  <<<<lo, s[1]>>, <<lo + half, s[2]>>>>

\* Directory::LSBUpdate: the stores it makes, in order.  Each level of the
\* recursion visits x and its partner at distance dir_cap/2.
LSBUpdate(depth_diff, cap, x, s) ==
  LET dir_cap(d) == cap \div Pow2[depth_diff - d]
      half(d) == dir_cap(d) \div 2
      lo(d, y) == IF y % dir_cap(d) >= half(d) THEN y - half(d) ELSE y
      update[d \in 0 .. depth_diff] ==
        [y \in 0 .. cap - 1 |->
           IF d = 0 THEN <<<<lo(d, y), s[1]>>, <<lo(d, y) + half(d), s[2]>>>>
           ELSE update[d - 1][lo(d, y)] \o update[d - 1][lo(d, y) + half(d)]]
  IN  update[depth_diff][x]

Current == arrays[dir.arr]

\* dir.Acquire(), then the choice: redirect entries, or double.  When a block
\* split twice has put shallow blocks where this split began, depth_diff is
\* negative and LSBUpdate recurs until it divides by dir_cap = 0.
Acquire(t) ==
  LET x == Hash[Key(t)] % dir.capacity
      depth_diff == global_depth - blocks[loc[t].s[1]].local_depth
      normal == blocks[Current[x]].local_depth < global_depth
  IN  /\ pc[t] = "i_acquire"
      /\ ~dir.lock
      /\ dir' = [dir EXCEPT !.lock = TRUE]
      /\ \/ /\ normal /\ depth_diff >= 0
            /\ Goto(t, "i_update")
            /\ Put(t, "writes", LSBUpdate(depth_diff, dir.capacity, x, loc[t].s))
         \/ /\ normal /\ depth_diff < 0
            /\ Goto(t, "lost")
            /\ UNCHANGED loc
         \/ /\ ~normal
            /\ Goto(t, "i_double")
            /\ Put(t, "x", x)
      /\ UNCHANGED <<blocks, arrays, freed, global_depth, todo, acked, races>>

StoreEntry(t) ==
  LET w == Head(loc[t].writes)
  IN  /\ pc[t] = "i_update"
      /\ loc[t].writes # <<>>
      /\ arrays' = [arrays EXCEPT ![dir.arr][w[1]] = w[2]]
      /\ Put(t, "writes", Tail(loc[t].writes))
      /\ UNCHANGED <<blocks, freed, dir, global_depth, pc, todo, acked, races>>

EndUpdate(t) ==
  /\ pc[t] = "i_update"
  /\ loc[t].writes = <<>>
  /\ Goto(t, "i_release")
  /\ UNCHANGED <<blocks, arrays, freed, dir, global_depth, loc, todo, acked, races>>

\* Both halves of the new array repeat the old one, but for the split block.
Doubled(t) ==
  LET cap == dir.capacity
  IN  [y \in 0 .. 2 * cap - 1 |->
         CASE y = loc[t].x       -> loc[t].s[1]
           [] y = loc[t].x + cap -> loc[t].s[2]
           [] OTHER              -> Current[y % cap]]

\* Mutant: capacity grows before the array does.
PublishCapacityFirst(t) ==
  /\ pc[t] = "i_double"
  /\ global_depth < HashBits
  /\ Goto(t, "i_capacity")
  /\ arrays' = Append(arrays, Doubled(t))
  /\ Put(t, "arr", dir.arr)
  /\ dir' = [dir EXCEPT !.capacity = 2 * @]
  /\ UNCHANGED <<blocks, freed, global_depth, todo, acked, races>>

\* dir._ = _dir
PublishArray(t) ==
  /\ pc[t] = "i_double"
  /\ global_depth < HashBits
  /\ Goto(t, "i_capacity")
  /\ arrays' = Append(arrays, Doubled(t))
  /\ Put(t, "arr", dir.arr)
  /\ dir' = [dir EXCEPT !.arr = Len(arrays) + 1]
  /\ UNCHANGED <<blocks, freed, global_depth, todo, acked, races>>

\* dir.capacity *= 2
PublishCapacity(t) ==
  /\ pc[t] = "i_capacity"
  /\ Goto(t, "i_delete")
  /\ dir' = [dir EXCEPT !.capacity = 2 * @]
  /\ UNCHANGED <<blocks, arrays, freed, global_depth, loc, todo, acked, races>>

\* global_depth += 1, which only the owner of the lock reads; delete d
DeleteOld(t) ==
  /\ pc[t] = "i_delete"
  /\ Goto(t, "i_release")
  /\ global_depth' = global_depth + 1
  /\ freed' = freed \cup {loc[t].arr}
  /\ UNCHANGED <<blocks, arrays, dir, loc, todo, acked, races>>

\* dir.Release(); goto RETRY
Release(t) ==
  /\ pc[t] = "i_release"
  /\ dir.lock
  /\ Goto(t, "i_cap")
  /\ dir' = [dir EXCEPT !.lock = FALSE]
  /\ loc' = [loc EXCEPT ![t] = [NoLocals EXCEPT !.must = loc[t].must]]
  /\ UNCHANGED <<blocks, arrays, freed, global_depth, todo, acked, races>>

-----------------------------------------------------------------------------
(* Get(key): no lock, no check of the pattern                               *)

GetCapacity(t) == Read(t, "g_cap", "g_arr", "x", Hash[Key(t)] % dir.capacity)
GetArray(t) == Read(t, "g_arr", "g_entry", "arr", dir.arr)

GetTarget(t) == ReadEntry(t, "g_entry", "g_scan", Torn(t))

GetScan(t) ==
  LET hits == {i \in Slots : Target(t).slot[i].key = Key(t)}
  IN  /\ pc[t] = "g_scan"
      /\ Goto(t, "g_return")
      /\ Put(t, "result", IF hits = {} THEN NONE ELSE Target(t).slot[First(hits)].value)
      /\ UNCHANGED <<blocks, arrays, freed, dir, global_depth, todo, acked, races>>

ReturnGet(t) ==
  /\ pc[t] = "g_return"
  /\ Return(t)
  /\ UNCHANGED <<blocks, arrays, freed, dir, global_depth, acked, races>>

-----------------------------------------------------------------------------

Step(t) ==
  \/ Start(t) \/ ReadCapacity(t) \/ ReadArray(t) \/ ReadTarget(t) \/ Gate(t) \/ Lock(t)
  \/ Probe(t) \/ StoreValue(t) \/ StoreKey(t) \/ Unlock(t)
  \/ ReadFlushArray(t) \/ ReadFlushBlock(t) \/ FlushPair(t)
  \/ Split(t) \/ Acquire(t) \/ StoreEntry(t) \/ EndUpdate(t)
  \/ PublishArray(t) \/ PublishCapacity(t) \/ DeleteOld(t) \/ Release(t)
  \/ GetCapacity(t) \/ GetArray(t) \/ GetTarget(t) \/ GetScan(t) \/ ReturnGet(t)

Finished == \A t \in Threads : todo[t] = <<>> \/ pc[t] = "lost"

Terminating == Finished /\ UNCHANGED vars

Next == (\E t \in Threads : Step(t)) \/ Terminating

Spec == Init /\ [][Next]_vars

-----------------------------------------------------------------------------
(* Properties                                                               *)

PCs == {"idle", "i_cap", "i_arr", "i_entry", "i_gate", "i_lock", "i_probe", "i_value",
        "i_key", "i_unlock", "i_flusharr", "i_flushentry", "i_flush", "i_split",
        "i_acquire", "i_update", "i_double", "i_capacity", "i_delete", "i_release",
        "g_cap", "g_arr", "g_entry", "g_scan", "g_return", "lost"}

\* Every pointer is a pointer to an allocated block, every local is in range.
TypeOK ==
  /\ \A i \in DOMAIN blocks :
       /\ blocks[i].sema \in Int
       /\ blocks[i].local_depth \in 0 .. HashBits
       /\ \A j \in Slots : blocks[i].slot[j].key \in KeyWords
  /\ \A a \in DOMAIN arrays : \A x \in DOMAIN arrays[a] : arrays[a][x] \in DOMAIN blocks
  /\ freed \subseteq DOMAIN arrays
  /\ dir.arr \in DOMAIN arrays \ freed
  /\ pc \in [Threads -> PCs]
  /\ \A t \in Threads : loc[t].target \in DOMAIN blocks /\ loc[t].ret \in -1 .. NumSlot - 1

\* No thread indexes an array past its end, although index and array come from
\* two loads that a doubling can separate.
InBounds ==
  \A t \in Threads :
    pc[t] \in {"i_entry", "i_flushentry", "g_entry"} =>
      loc[t].x \in DOMAIN arrays[loc[t].arr]

\* The block that entry x leads to, and the half that a thread in the middle of
\* LSBUpdate has still to store there.
Reached(x) ==
  {Current[x]} \cup {b \in DOMAIN blocks : \E t \in Threads :
     pc[t] = "i_update" /\ \E i \in 1 .. Len(loc[t].writes) : loc[t].writes[i] = <<x, b>>}

Holds(b, k) == \E i \in Slots : blocks[b].slot[i].key = k /\ blocks[b].slot[i].durable = TRUE

\* A key whose Insert has returned is in the block of its hash, and has been
\* written back there, through every split and doubling, also while a thread
\* is inside a closed block, unless a third thread then splits that block again.
\* An Insert with an index of the old array may return before the directory
\* leads to that block.
AckedStay ==
  "resplit" \notin races =>
    \A k \in acked : \E b \in Reached(Hash[k] % Size(dir.arr)) : Holds(b, k)

\* Every entry leads to a block of its pattern, also in the middle of an
\* update, and when nobody updates, two entries share a block exactly if they
\* agree on its pattern, and the sizes agree.
DirectoryShape ==
  "resplit" \notin races =>
    /\ TypeOK
    /\ \A x \in DOMAIN Current :
         LET b == blocks[Current[x]] IN b.pattern = x % Pow2[b.local_depth]
    /\ ~dir.lock =>
         /\ dir.capacity = Pow2[global_depth] /\ Size(dir.arr) = dir.capacity
         /\ \A x, y \in DOMAIN Current :
              LET ld == blocks[Current[x]].local_depth
              IN  /\ ld <= global_depth
                  /\ (x % Pow2[ld] = y % Pow2[ld]) <=> Current[x] = Current[y]

\* Get returns NONE only for a key whose Insert had not returned when Get was
\* called, also when it scans a block that has been replaced, unless a call had
\* used an index of a smaller array or a block was split twice.
GetSound ==
  \A t \in Threads :
    (pc[t] = "g_return" /\ races \subseteq {"freed"} /\ loc[t].must) => loc[t].result # NONE

=============================================================================

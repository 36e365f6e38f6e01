----------------------------- MODULE HashTables -----------------------------
(***************************************************************************)
(* The layouts of the four static hash tables of cceh/src: linear probing, *)
(* cuckoo, path and level hashing.  Where a key may be, in which order     *)
(* Insert and Get look, how an entry is displaced, and what resize() makes *)
(* of the old table.  Their operation by several threads is module         *)
(* StaticHash.                                                             *)
(*                                                                         *)
(* A table is a function from its slots to what they hold.  A pair is its  *)
(* key.  Slots are numbers, in level hashing <<level, bucket, position>>.  *)
(***************************************************************************)
EXTENDS Integers, Sequences, FiniteSets, SequencesExt

CONSTANTS
  Keys,
  F, S,               \* the two hash functions, on Keys \cup {JUNK}
  INVALID, SENTINEL,
  JUNK,               \* the key INVALID under a token that is not 0
  LockSize,           \* slots per mutex (256)
  reserved_levels,    \* of path hashing
  ASSOC_NUM,          \* entries of a bucket of level hashing (3)
  kCuckooThreshold,   \* longest chain of displacements (16)
  kMaxGrows           \* doublings of one cuckoo resize (128)

ASSUME HashTablesAssumption ==
  /\ F \in [Keys \cup {JUNK} -> Nat] /\ S \in [Keys \cup {JUNK} -> Nat]
  /\ {LockSize, reserved_levels, ASSOC_NUM, kCuckooThreshold, kMaxGrows} \subseteq Nat \ {0}

\* What a slot may hold that resize() moves.
EntryWords == Keys \cup {JUNK}

Schemes == {"linear", "cuckoo", "path", "level"}

Stripe(c) == c \div LockSize

\* The second argument counts cells: capacity of linear probing and cuckoo
\* hashing, levels of path hashing, addr_capacity of level hashing.
Top(levels) == 2 ^ (levels - 1)

PathSize(levels) == 2 ^ levels - 2 ^ (levels - reserved_levels)

LevelSlots(addr) ==
  {<<0, i, j>> : i \in 0 .. addr - 1, j \in 0 .. ASSOC_NUM - 1}
    \cup {<<1, i, j>> : i \in 0 .. addr \div 2 - 1, j \in 0 .. ASSOC_NUM - 1}

Slots(scheme, cap) ==
  CASE scheme \in {"linear", "cuckoo"} -> 0 .. cap - 1
    [] scheme = "path" -> 0 .. PathSize(cap) - 1
    [] scheme = "level" -> LevelSlots(cap)

Empty(cells) == [c \in cells |-> INVALID]

\* F_IDX and S_IDX of path and level hashing.
FirstIdx(k, cap) == F[k] % (cap \div 2)

SecondIdx(k, cap) == (S[k] % (cap \div 2)) + cap \div 2

\* The indices an operation computes before it takes a lock.
Indices(scheme, cap, k) ==
  CASE scheme = "linear" -> <<F[k] % cap, 0>>
    [] scheme = "cuckoo" -> <<F[k] % cap, S[k] % cap>>
    [] scheme = "path"   -> <<FirstIdx(k, Top(cap)), SecondIdx(k, Top(cap))>>
    [] scheme = "level"  -> <<FirstIdx(k, cap), SecondIdx(k, cap)>>

-----------------------------------------------------------------------------
(* Where Insert tries, in its order.  `idx' are the indices above; the rest *)
(* is computed from the members of the table on the way.                    *)

LinearProbe(idx, cap) == [n \in 1 .. cap |-> (idx[1] + n - 1) % cap]

\* Down the two paths of a complete binary tree: both cells of a level, then
\* those of the next.
PathCells(idx, levels) ==
  [n \in 1 .. 2 * reserved_levels |->
     LET i == (n - 1) \div 2
     IN  idx[2 - (n % 2)] \div 2 ^ i + (2 ^ levels - 2 ^ (levels - i))]

\* Position by position through the two buckets of the top, then of the bottom.
LevelProbe(idx, addr, k) ==
  LET at(lvl) == IF lvl = 0 THEN idx ELSE Indices("level", addr \div 2, k)
  IN  [n \in 1 .. 4 * ASSOC_NUM |->
         LET lvl == (n - 1) \div (2 * ASSOC_NUM)
             j   == ((n - 1) % (2 * ASSOC_NUM)) \div 2
         IN  <<lvl, at(lvl)[2 - (n % 2)], j>>]

Probe(scheme, idx, cap, k) ==
  CASE scheme = "linear" -> LinearProbe(idx, cap)
    [] scheme = "cuckoo" -> idx
    [] scheme = "path"   -> PathCells(idx, cap)
    [] scheme = "level"  -> LevelProbe(idx, cap, k)

\* Where Get looks: cells it reads under one lock, in its order.
LevelBuckets(idx, addr, k) ==
  LET low == Indices("level", addr \div 2, k)
      bucket(lvl, i) == {<<lvl, i, j>> : j \in 0 .. ASSOC_NUM - 1}
  IN  <<bucket(0, idx[1]), bucket(0, idx[2]), bucket(1, low[1]), bucket(1, low[2])>>

Looks(scheme, idx, cap, k) ==
  IF scheme = "level" THEN LevelBuckets(idx, cap, k)
  ELSE [n \in DOMAIN Probe(scheme, idx, cap, k) |-> {Probe(scheme, idx, cap, k)[n]}]

\* Mutant: every scheme gives up at a free place.
GivesUpAnywhere(scheme, slot, cells) == \E c \in cells : slot[c] = INVALID

\* Linear probing gives up at a free slot, the others look everywhere.
GivesUp(scheme, slot, cells) == scheme = "linear" /\ \E c \in cells : slot[c] = INVALID

\* Does a Get that runs alone find k?
Reachable(scheme, tab, k) ==
  LET looks == Looks(scheme, Indices(scheme, tab.cap, k), tab.cap, k)
  IN  \E n \in DOMAIN looks :
        /\ \E c \in looks[n] : tab.slot[c] = k
        /\ \A m \in 1 .. n - 1 : ~GivesUp(scheme, tab.slot, looks[m])

-----------------------------------------------------------------------------
(* resize(): entries are entered into a larger table one by one.            *)

\* Enters the entries es; cands[e] is where e may go, in order of preference.
\* An entry that fits nowhere is skipped.
EnterAll(slot, es, cands) ==
  FoldLeft(LAMBDA acc, e :
             LET cs == cands[e]
                 n  == SelectInSeq(cs, LAMBDA c : acc.slot[c] = INVALID)
             IN  IF n = 0 THEN [acc EXCEPT !.dropped = @ \cup {e}]
                 ELSE [acc EXCEPT !.slot[cs[n]] = e],
           [slot |-> slot, dropped |-> {}], es)

\* What a table of cells 0 .. size - 1 holds, in the order of the cells.
Entries(slot, size) ==
  SelectSeq([i \in 1 .. size |-> slot[i - 1]], LAMBDA e : e # INVALID)

\* getLocation() tries as many slots as the old table has.
getLocation(cap, newcap, e) == [i \in 1 .. cap |-> (F[e] + i - 1) % newcap]

LinearResize(tab) ==
  LET newcap == 2 * tab.cap
  IN  [cap |-> newcap] @@
        EnterAll(Empty(Slots("linear", newcap)), Entries(tab.slot, tab.cap),
                 [e \in EntryWords |-> getLocation(tab.cap, newcap, e)])

PathResize(tab) ==
  LET levels == tab.cap + 1
  IN  [cap |-> levels] @@
        EnterAll(Empty(Slots("path", levels)), Entries(tab.slot, PathSize(tab.cap)),
                 [e \in EntryWords |-> PathCells(Indices("path", levels, e), levels)])

\* Only the bottom is entered anew, into a new top; the old top is the new
\* bottom.  `junk': the slots of the new top whose tokens are not 0.
LevelResize(tab, junk) ==
  LET addr == 2 * tab.cap
      half == tab.cap \div 2
      top  == [c \in LevelSlots(addr) |->
                 IF c[1] = 1 THEN tab.slot[<<0, c[2], c[3]>>]
                 ELSE IF c \in junk THEN JUNK ELSE INVALID]
      old  == [n \in 1 .. half * ASSOC_NUM |->
                 tab.slot[<<1, (n - 1) \div ASSOC_NUM, (n - 1) % ASSOC_NUM>>]]
      cands == [e \in EntryWords |->
                  SubSeq(LevelProbe(Indices("level", addr, e), addr, e), 1, 2 * ASSOC_NUM)]
  IN  [cap |-> addr] @@ EnterAll(top, SelectSeq(old, LAMBDA e : e # INVALID), cands)

-----------------------------------------------------------------------------
(* Displacement in cuckoo hashing.                                          *)

\* The other place of the entry e in cell c.
Partner(cap, c, e) == IF F[e] % cap = c THEN S[e] % cap ELSE F[e] % cap

\* find_path(): from cell to cell until a free one; <<>> when that takes too
\* long.  A path that meets a SENTINEL ends there.
find_path(slot, cap, target) ==
  LET walk[n \in Nat] ==
        IF n = 0 THEN <<target>>
        ELSE LET p == walk[n - 1]
                 c == Last(p)
             IN  IF slot[c] \in {INVALID, SENTINEL} THEN p
                 ELSE Append(p, Partner(cap, c, slot[c]))
  IN  IF Len(walk[kCuckooThreshold]) > kCuckooThreshold THEN <<>>
      ELSE walk[kCuckooThreshold]

\* Which of the two paths Insert takes.
Shorter(slot, path1, path2) ==
  IF \/ path1 = <<>>
     \/ path2 # <<>> /\ (Len(path2) < Len(path1) \/ slot[path1[1]] = INVALID)
  THEN path2 ELSE path1

\* Mutant: the entries are moved from the front, each overwriting the next.
execute_path_front(slot, path, k) ==
  FoldLeft(LAMBDA s, i : [s EXCEPT ![path[i]] = IF i = 1 THEN k ELSE s[path[i - 1]]],
           slot, [i \in 1 .. Len(path) |-> i])

\* From the end of the path, so that every entry is copied before its cell is
\* overwritten.
execute_path(slot, path, k) ==
  FoldRight(LAMBDA i, s : [s EXCEPT ![path[i]] = IF i = 1 THEN k ELSE s[path[i - 1]]],
            [i \in 1 .. Len(path) |-> i], slot)

\* The version of a resize carries the displaced entry along from the front.
execute_path_pushed(slot, path, k) ==
  FoldLeft(LAMBDA acc, c : [slot |-> [acc.slot EXCEPT ![c] = acc.pushed], pushed |-> acc.slot[c]],
           [slot |-> slot, pushed |-> k], path).slot

\* The table with k, or <<>>: k fits nowhere.
insert4resize(slot, cap, k) ==
  LET f == F[k] % cap
      s == S[k] % cap
      path1 == find_path(slot, cap, f)
      path2 == find_path(slot, cap, s)
      path == IF path2 = <<>> \/ (path1 # <<>> /\ Len(path1) < Len(path2)) THEN path1 ELSE path2
  IN  IF slot[f] = INVALID THEN [slot EXCEPT ![f] = k]
      ELSE IF slot[s] = INVALID THEN [slot EXCEPT ![s] = k]
      ELSE IF path = <<>> THEN <<>>
      ELSE execute_path_pushed(slot, path, k)

\* Doubled until every entry fits; `dropped' is everything when it never does.
CuckooResize(tab) ==
  LET es == Entries(tab.slot, tab.cap)
      grown(n) == FoldLeft(LAMBDA slot, e : IF slot = <<>> THEN <<>>
                                            ELSE insert4resize(slot, tab.cap * 2 ^ n, e),
                           Empty(Slots("cuckoo", tab.cap * 2 ^ n)), es)
      n == SelectInSeq([m \in 1 .. kMaxGrows |-> m], LAMBDA m : grown(m) # <<>>)
  IN  IF n = 0 THEN [cap |-> tab.cap, slot |-> tab.slot, dropped |-> ToSet(es)]
      ELSE [cap |-> tab.cap * 2 ^ n, slot |-> grown(n), dropped |-> {}]

-----------------------------------------------------------------------------
(* Displacement in level hashing.                                           *)

Bucket(lvl, i) == [j \in 1 .. ASSOC_NUM |-> <<lvl, i, j - 1>>]

FirstFree(slot, cells) == SelectInSeq(cells, LAMBDA c : slot[c] = INVALID)

\* What a slot's key field says: a free slot's is INVALID too.
EntryAt(slot, c) == IF slot[c] = INVALID THEN JUNK ELSE slot[c]

PartnerBucket(addr, lvl, i, e) ==
  LET idx == Indices("level", addr \div (1 + lvl), e)
  IN  IF idx[1] = i THEN idx[2] ELSE idx[1]

\* try_movement(): the first entry of the bucket whose other bucket on the
\* level has room goes there, and k takes its place.  <<>>: none has.
try_movement(tab, i, lvl, k) ==
  LET slot == tab.slot
      to(c) == Bucket(lvl, PartnerBucket(tab.cap, lvl, i, EntryAt(slot, c)))
      n == SelectInSeq(Bucket(lvl, i), LAMBDA c : FirstFree(slot, to(c)) # 0)
      from == Bucket(lvl, i)[n]
  IN  IF n = 0 THEN <<>>
      ELSE [slot EXCEPT ![to(from)[FirstFree(slot, to(from))]] = EntryAt(slot, from),
                        ![from] = k]

\* b2t_movement(): the first entry of the bottom bucket that has room in the
\* top goes there, and k takes its place.
b2t_movement(tab, i, k) ==
  LET slot == tab.slot
      up(c) == SubSeq(LevelProbe(Indices("level", tab.cap, EntryAt(slot, c)), tab.cap,
                                 EntryAt(slot, c)), 1, 2 * ASSOC_NUM)
      n == SelectInSeq(Bucket(1, i), LAMBDA c : FirstFree(slot, up(c)) # 0)
      from == Bucket(1, i)[n]
  IN  IF n = 0 THEN <<>>
      ELSE [slot EXCEPT ![up(from)[FirstFree(slot, up(from))]] = EntryAt(slot, from),
                        ![from] = k]

=============================================================================

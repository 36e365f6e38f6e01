---------------------------- MODULE CCEHRecovery ----------------------------
(***************************************************************************)
(* Power failures during Insert of the in-place build of CCEH              *)
(* (CCEH-PMDK/src/CCEH.cpp), and CCEH::Recovery on the next start.         *)
(*                                                                         *)
(* `mem' is what loads return; `pm' is what a power failure leaves.  A     *)
(* store changes mem; pmemobj_persist copies a location to pm; a cache     *)
(* eviction may do so at any moment before.  The steps of Insert are the   *)
(* points at which a failure leaves a different pm.  The choice of a slot  *)
(* is abstracted to "some free slot", and the locking of the directory is  *)
(* left out: module CCEH has both.                                         *)
(***************************************************************************)
EXTENDS Integers, Sequences, Powers

CONSTANTS
  Threads,
  Keys, INVALID, SENTINEL,
  HashBits, Hash,      \* as in CCEH; HashBits bounds the depth
  NumSlot,             \* slots of a segment
  InitDepth,
  Workloads            \* each has the keys to insert, and a bound on the
                       \* number of power failures

KeyWords == Keys \cup {INVALID, SENTINEL}
Slots == 1 .. NumSlot

ASSUME RecoveryAssumption ==
  /\ HashBits \in Nat /\ InitDepth \in 1 .. HashBits
  /\ NumSlot \in Nat \ {0}
  /\ INVALID \notin Keys /\ SENTINEL \notin Keys /\ INVALID # SENTINEL
  /\ \A w \in Workloads : w.keys \subseteq Keys /\ w.crashes \in Nat
  /\ Hash \in [KeyWords -> 0 .. Pow2[HashBits] - 1]

VARIABLES
  mem,       \* [segs, dirs, dir] as the processors see it
  pm,        \* the same objects as the memory modules hold them
  pc, loc,   \* threads inside Insert
  acked,     \* keys whose Insert has returned
  mode,      \* "run", or "recover" while Recovery runs
  ri,        \* i of the loop of Recovery
  crashes,   \* power failures so far
  workload   \* what is being inserted

vars == <<mem, pm, pc, loc, acked, mode, ri, crashes, workload>>

Prefix(k, depth) == Hash[k] \div Pow2[HashBits - depth]
SplitBit(k, depth) == (Hash[k] \div Pow2[HashBits - depth - 1]) % 2

NewSegment(depth) ==
  [bucket |-> [i \in Slots |-> INVALID], sema |-> 0, local_depth |-> depth]

\* *dir of an image of the memory, and the segment it gives a key.
DirOf(m) == m.dirs[m.dir]
Intact(m) == DirOf(m).depth > 0     \* its struct has reached the memory
HomeIn(m, k) == DirOf(m).segment[Prefix(k, DirOf(m).depth)]

NoLocals == [key |-> INVALID, target |-> 0, slot |-> 0, s |-> 0]

\* After initCCEH, its lines evicted.
Init ==
  /\ mem = [segs |-> [i \in 1 .. Pow2[InitDepth] |-> NewSegment(InitDepth)],
            dirs |-> <<[depth |-> InitDepth,
                        segment |-> [x \in 0 .. Pow2[InitDepth] - 1 |-> x + 1]]>>,
            dir |-> 1]
  /\ pm = mem
  /\ pc = [t \in Threads |-> "idle"]
  /\ loc = [t \in Threads |-> NoLocals]
  /\ acked = {}
  /\ mode = "run"
  /\ ri = 0
  /\ crashes = 0
  /\ workload \in Workloads

Goto(t, from, to) ==
  /\ mode = "run"
  /\ pc[t] = from
  /\ pc' = [pc EXCEPT ![t] = to]
  /\ UNCHANGED <<mode, ri, crashes, workload>>

Target(t) == mem.segs[loc[t].target]

-----------------------------------------------------------------------------
(* Insert                                                                   *)

\* Slots Insert may claim: INVALID ones and those an in-place split left.
FreeSlots(seg, k) ==
  {i \in Slots :
     LET w == seg.bucket[i]
     IN  /\ w # SENTINEL
         /\ w = INVALID \/ Prefix(w, seg.local_depth) # Prefix(k, seg.local_depth)}

\* The segment of k, for a thread that calls Insert(k) and can lock it.
Opens(k, i) ==
  /\ k \notin acked
  /\ \A t \in Threads : loc[t].key # k
  /\ Intact(mem)
  /\ i = HomeIn(mem, k)
  /\ mem.segs[i].sema >= 0

\* lock() and the CAS of the slot's key to SENTINEL
Claim(t, k, i, j) ==
  /\ Goto(t, "idle", "claimed")
  /\ Opens(k, i)
  /\ j \in FreeSlots(mem.segs[i], k)
  /\ mem' = [mem EXCEPT !.segs[i].sema = @ + 1, !.segs[i].bucket[j] = SENTINEL]
  /\ loc' = [loc EXCEPT ![t] = [NoLocals EXCEPT !.key = k, !.target = i, !.slot = j]]
  /\ UNCHANGED <<pm, acked>>

StoreKey(t) ==
  /\ Goto(t, "claimed", "stored")
  /\ mem' = [mem EXCEPT !.segs[loc[t].target].bucket[loc[t].slot] = loc[t].key]
  /\ UNCHANGED <<pm, loc, acked>>

\* Mutant: the pair is not persisted before Insert returns.
SkipPersistPair(t) ==
  Goto(t, "stored", "persisted") /\ UNCHANGED <<pm, mem, loc, acked>>

\* pmemobj_persist of the pair
PersistPair(t) ==
  /\ Goto(t, "stored", "persisted")
  /\ pm' = [pm EXCEPT !.segs[loc[t].target].bucket[loc[t].slot] =
                        Target(t).bucket[loc[t].slot]]
  /\ UNCHANGED <<mem, loc, acked>>

ReturnInsert(t) ==
  /\ Goto(t, "persisted", "idle")
  /\ mem' = [mem EXCEPT !.segs[loc[t].target].sema = @ - 1]
  /\ acked' = acked \cup {loc[t].key}
  /\ loc' = [loc EXCEPT ![t] = NoLocals]
  /\ UNCHANGED pm

\* suspend() of a full segment and Segment::Split, which persists s[1].  (The
\* code splits when the probe windows of the key are full, other slots may be
\* free: Insert and Split take slots as sets here, the order in which their
\* stores and persists happen is the same.)
Split(t, k, i) ==
  LET seg == mem.segs[i]
      half == [NewSegment(seg.local_depth + 1) EXCEPT
                 !.bucket = [j \in Slots |->
                               IF SplitBit(seg.bucket[j], seg.local_depth) = 1
                               THEN seg.bucket[j] ELSE INVALID]]
  IN  /\ Goto(t, "idle", "split")
      /\ Opens(k, i)
      /\ FreeSlots(seg, k) = {} /\ seg.sema = 0
      /\ seg.local_depth < HashBits
      /\ mem' = [mem EXCEPT !.segs = Append([@ EXCEPT ![i].sema = -1], half)]
      /\ pm' = [pm EXCEPT !.segs = Append(@, half)]
      /\ loc' = [loc EXCEPT ![t] = [NoLocals EXCEPT !.key = k, !.target = i,
                                                    !.s = Len(mem.segs) + 1]]
      /\ UNCHANGED acked

\* Entry x keeps its segment, which is s[0], in 2x and has s[1] in 2x+1.
Doubled(d, x, s) ==
  [depth |-> d.depth + 1,
   segment |-> [n \in 0 .. Pow2[d.depth + 1] - 1 |->
                  IF n = 2 * x + 1 THEN s ELSE d.segment[n \div 2]]]

\* Doubling: the new array is persisted before `dir' is switched.  The persist
\* at line 332 covers the local variable _dir, not the Directory struct, whose
\* depth and capacity reach the memory only by eviction; until then they are
\* the zeros of the fresh pool.
DoubleDir(t) ==
  LET d == DirOf(mem)
      new == Doubled(d, Prefix(loc[t].key, d.depth), loc[t].s)
  IN  /\ Goto(t, "split", "doubled")
      /\ Target(t).local_depth = d.depth
      /\ mem' = [mem EXCEPT !.dirs = Append(@, new), !.dir = Len(mem.dirs) + 1]
      /\ pm' = [pm EXCEPT !.dirs = Append(@, [new EXCEPT !.depth = 0])]
      /\ UNCHANGED <<loc, acked>>

PersistDir(t) ==
  /\ Goto(t, "doubled", "published")
  /\ pm' = [pm EXCEPT !.dir = mem.dir]
  /\ UNCHANGED <<mem, loc, acked>>

\* The upper half of the entries of a segment that a normal split redirects.
UpperHalf(k, depth, ld) ==
  LET stride == Pow2[depth - ld]
      x == Prefix(k, depth)
      base == x - (x % stride)
  IN  base + stride \div 2 .. base + stride - 1

StoreEntries(t) ==
  LET upper == UpperHalf(loc[t].key, DirOf(mem).depth, Target(t).local_depth)
  IN  /\ Goto(t, "split", "redirected")
      /\ Target(t).local_depth # DirOf(mem).depth
      /\ mem' = [mem EXCEPT !.dirs[mem.dir].segment =
                   [x \in DOMAIN @ |-> IF x \in upper THEN loc[t].s ELSE @[x]]]
      /\ UNCHANGED <<pm, loc, acked>>

\* Mutant: the entries are not persisted before the depth.
SkipPersistEntries(t) ==
  Goto(t, "redirected", "published") /\ UNCHANGED <<pm, mem, loc, acked>>

PersistEntries(t) ==
  LET upper == UpperHalf(loc[t].key, DirOf(mem).depth, Target(t).local_depth)
  IN  /\ Goto(t, "redirected", "published")
      /\ pm' = [pm EXCEPT !.dirs[mem.dir].segment =
                  [x \in DOMAIN @ |-> IF x \in upper THEN DirOf(mem).segment[x] ELSE @[x]]]
      /\ UNCHANGED <<mem, loc, acked>>

RaiseDepth(t) ==
  /\ Goto(t, "published", "raised")
  /\ mem' = [mem EXCEPT !.segs[loc[t].target].local_depth = @ + 1]
  /\ UNCHANGED <<pm, loc, acked>>

\* sema and local_depth are adjacent words: one cache line.
FlushHeader(i) ==
  pm' = [pm EXCEPT !.segs[i].local_depth = mem.segs[i].local_depth,
                   !.segs[i].sema = mem.segs[i].sema]

PersistDepth(t) ==
  /\ Goto(t, "raised", "reopen")
  /\ FlushHeader(loc[t].target)
  /\ UNCHANGED <<mem, loc, acked>>

\* sema = 0 and goto RETRY
Reopen(t) ==
  /\ Goto(t, "reopen", "idle")
  /\ mem' = [mem EXCEPT !.segs[loc[t].target].sema = 0]
  /\ loc' = [loc EXCEPT ![t] = NoLocals]
  /\ UNCHANGED <<pm, acked>>

-----------------------------------------------------------------------------
(* Cache evictions, power failure, restart                                  *)

Evict ==
  /\ \/ \E i \in DOMAIN mem.segs : FlushHeader(i)
     \/ \E i \in DOMAIN mem.segs, j \in Slots :
          pm' = [pm EXCEPT !.segs[i].bucket[j] = mem.segs[i].bucket[j]]
     \/ \E x \in DOMAIN DirOf(mem).segment :
          pm' = [pm EXCEPT !.dirs[mem.dir].segment[x] = DirOf(mem).segment[x]]
     \/ pm' = [pm EXCEPT !.dir = mem.dir]
     \/ pm' = [pm EXCEPT !.dirs[mem.dir].depth = DirOf(mem).depth]
  /\ pm' # pm
  /\ UNCHANGED <<mem, pc, loc, acked, mode, ri, crashes, workload>>

Crash ==
  /\ crashes < workload.crashes
  /\ crashes' = crashes + 1
  /\ mem' = pm
  /\ pc' = [t \in Threads |-> "idle"]
  /\ loc' = [t \in Threads |-> NoLocals]
  /\ mode' = "recover"
  /\ ri' = 0
  /\ UNCHANGED <<pm, acked, workload>>

\* The group that starts at entry i is as long as the depth of its first
\* segment says.
Stride(i) == Pow2[DirOf(mem).depth - mem.segs[DirOf(mem).segment[i]].local_depth]
Capacity == IF Intact(mem) THEN Pow2[DirOf(mem).depth] ELSE 0

\* Mutant: the repair stops one entry early.
RepairedShort(segment, first, last) ==
  [x \in DOMAIN segment |->
     IF /\ x \in first + 1 .. last - 1
        /\ mem.segs[segment[x]].local_depth # mem.segs[segment[first]].local_depth
     THEN segment[first] ELSE segment[x]]

\* Each later entry of the group at another depth is set back to the first.
Repaired(segment, first, last) ==
  [x \in DOMAIN segment |->
     IF /\ x \in first + 1 .. last
        /\ mem.segs[segment[x]].local_depth # mem.segs[segment[first]].local_depth
     THEN segment[first] ELSE segment[x]]

\* The group that ends the directory is left as it is.
RecoverGroup ==
  LET last == ri + Stride(ri) - 1
  IN  /\ mode = "recover"
      /\ ri < Capacity /\ last + 1 # Capacity
      /\ mem' = [mem EXCEPT !.dirs[mem.dir].segment = Repaired(@, ri, last)]
      /\ ri' = last + 1
      /\ UNCHANGED <<pm, pc, loc, acked, mode, crashes, workload>>

\* The loop ends, at the break or at its condition; the array is persisted.
EndRecovery ==
  /\ mode = "recover"
  /\ ri < Capacity => ri + Stride(ri) = Capacity
  /\ mode' = "run"
  /\ ri' = 0
  /\ pm' = [pm EXCEPT !.dirs[mem.dir].segment =
              [x \in DOMAIN @ |-> IF x < Capacity THEN DirOf(mem).segment[x] ELSE @[x]]]
  /\ UNCHANGED <<mem, pc, loc, acked, crashes, workload>>

-----------------------------------------------------------------------------

InsertStep(t) ==
  \/ \E k \in workload.keys, i \in DOMAIN mem.segs :
       Split(t, k, i) \/ \E j \in Slots : Claim(t, k, i, j)
  \/ StoreKey(t) \/ PersistPair(t) \/ ReturnInsert(t)
  \/ DoubleDir(t) \/ PersistDir(t) \/ StoreEntries(t) \/ PersistEntries(t)
  \/ RaiseDepth(t) \/ PersistDepth(t) \/ Reopen(t)

Next == (\E t \in Threads : InsertStep(t)) \/ Evict \/ Crash \/ RecoverGroup \/ EndRecovery

Spec == Init /\ [][Next]_vars

-----------------------------------------------------------------------------
(* Properties                                                               *)

ImageOK(m) ==
  /\ \A i \in DOMAIN m.segs :
       /\ m.segs[i].bucket \in [Slots -> KeyWords]
       /\ m.segs[i].sema \in Int /\ m.segs[i].local_depth \in 1 .. HashBits
  /\ \A d \in DOMAIN m.dirs :
       /\ m.dirs[d].depth \in 0 .. HashBits
       /\ \E n \in 1 .. HashBits :
            /\ m.dirs[d].segment \in [0 .. Pow2[n] - 1 -> DOMAIN m.segs]
            /\ m.dirs[d].depth \in {0, n}
  /\ m.dir \in DOMAIN m.dirs

\* Both images hold segments, directories as long as their depth says (or
\* without a durable depth) and pointers to allocated objects.
TypeOK ==
  /\ ImageOK(mem) /\ ImageOK(pm)
  /\ Len(mem.segs) = Len(pm.segs) /\ Len(mem.dirs) = Len(pm.dirs)
  /\ acked \in SUBSET Keys
  /\ mode \in {"run", "recover"}
  /\ workload \in Workloads /\ crashes \in 0 .. workload.crashes

\* The directory struct agrees with its array, also after a restart.
DirectorySurvives == DOMAIN DirOf(mem).segment = 0 .. Pow2[DirOf(mem).depth] - 1

Found(k) == \E j \in Slots : mem.segs[HomeIn(mem, k)].bucket[j] = k

\* A key whose Insert has returned is found: before, between and after power
\* failures at any point of any Insert or of Recovery, once Recovery has run
\* and if the directory struct was not lost.
AckedSurvive == (mode = "run" /\ Intact(mem)) => \A k \in acked : Found(k)

\* With no Insert in a split, entries share a segment exactly when they agree
\* on as many bits as the segment's depth says; Recovery has to restore that.
ShapeRestored ==
  /\ TypeOK
  /\ (/\ mode = "run" /\ Intact(mem)
      /\ \A t \in Threads : pc[t] \in {"idle", "claimed", "stored", "persisted"}) =>
       LET d == DirOf(mem)
       IN  \A x \in DOMAIN d.segment :
             LET range == Pow2[d.depth - mem.segs[d.segment[x]].local_depth]
             IN  \A y \in DOMAIN d.segment :
                   (x \div range = y \div range) <=> d.segment[x] = d.segment[y]

\* A durable local depth is a promise that the durable directory keeps: the
\* entries of pm beyond a segment's own range never lead to it.
DepthAfterEntries ==
  LET d == DirOf(pm)
  IN  Intact(pm) =>
      \A x \in DOMAIN d.segment :
        LET range == Pow2[d.depth - pm.segs[d.segment[x]].local_depth]
        IN  \A y \in DOMAIN d.segment :
              d.segment[x] = d.segment[y] => x \div range = y \div range

\* After a restart every segment in use can be locked again.
SegmentsReopen ==
  (mode = "run" /\ \A t \in Threads : pc[t] = "idle") =>
    \A x \in DOMAIN DirOf(mem).segment : mem.segs[DirOf(mem).segment[x]].sema = 0

=============================================================================

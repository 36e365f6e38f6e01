----------------------------- MODULE CCEHProofs -----------------------------
(***************************************************************************)
(* CCEH, for every set of threads, keys, programs and each of the builds:  *)
(* types and bounds, the two reader-writer locks, and the shape of the     *)
(* directory.                                                              *)
(*                                                                         *)
(* Inv is the inductive invariant.  SegLock accounts for the semaphore of  *)
(* a segment: open, it counts the threads inside; closed, it belongs to    *)
(* one thread, which leaves the wait loop only when everybody is out.      *)
(* DirLock says the same of the directory.  The bounds need the lock: only *)
(* the owner of a segment raises its local depth, so the depth it compared *)
(* with the directory's is still the depth of the segment when it stores   *)
(* the entries; and the depth of the directory never shrinks, so an index  *)
(* that a thread computed earlier is within every later directory.         *)
(*                                                                         *)
(* PlanInv is the inductive invariant for the shape of the directory.  The *)
(* lock of the directory is shared by the splits that store into it, so    *)
(* between the stores of several splits the directory has no shape at all. *)
(* What has one is the directory F that the stores under way lead to: the  *)
(* stores that are left for an entry make a chain from what it holds to    *)
(* what F gives it, each replacing the segment its thread splits.  F       *)
(* changes when a split enters the critical section and when the directory *)
(* is doubled, and at no store.                                            *)
(***************************************************************************)
EXTENDS CCEH, PowersProofs, FiniteSetTheorems, SequenceTheorems

-----------------------------------------------------------------------------
(* The invariant                                                            *)

Entry == [key : KeyWords, value : Values \cup {NONE}]
Segment == [bucket : [Slots -> Entry], sema : Int, local_depth : 0 .. HashBits]
Directory == [depth : 1 .. HashBits, sema : Int, segment : UNION {[0 .. n -> Nat] : n \in Nat}]
Locals == [x : Nat, target : Nat, check : Nat, slot : Slots, depth : 0 .. HashBits, val : Nat,
           s : Nat \X Nat, writes : Seq(Nat \X Nat), must : BOOLEAN, result : Values \cup {NONE}]

Pointers == 1 .. Len(segs)
Entries(d) == 0 .. Pow2[d.depth] - 1
Depth(i) == segs[i].local_depth
AllRaces == {"skew", "torn", "stray", "nested"}

\* Every variable has its type, every pointer is the index of a segment.
Typed ==
  /\ scenario \in Scenarios
  /\ segs \in Seq(Segment)
  /\ dirs \in Seq(Directory)
  /\ dir \in 1 .. Len(dirs)
  /\ pc \in [Threads -> PCs]
  /\ loc \in [Threads -> Locals]
  /\ todo \in [Threads -> Seq(Calls)]
  /\ acked \in SUBSET Keys
  /\ races \in SUBSET AllRaces
  /\ INPLACE => "stray" \notin races

\* Directories have as many entries as their depth says, and no entry of the
\* current one points to a segment deeper than it.
DirsOK ==
  /\ \A d \in 1 .. Len(dirs) : dirs[d].segment \in [Entries(dirs[d]) -> Pointers]
  /\ \A x \in Entries(Dir) : Depth(Dir.segment[x]) <= Dir.depth

NoTargetPCs == {"idle", "i_depth", "i_target", "g_spin", "g_depth", "g_target"}
SharePCs == {"i_dir", "i_dsuspend", "i_dwait", "i_double", "i_dlock", "i_update"}

\* A thread at p with the locals l and the calls q to make: what the locals
\* hold where they are used.
LocalAt(p, l, q) ==
  /\ p # "idle" => q # <<>>
  /\ l.target \in 0 .. Len(segs)
  /\ l.x < Pow2[Dir.depth] /\ l.check < Pow2[Dir.depth] /\ l.depth <= Dir.depth
  /\ p \notin NoTargetPCs => l.target \in Pointers /\ Depth(l.target) <= Dir.depth
  /\ p \in SharePCs \cup {"i_finish"} => Depth(l.target) < HashBits
  /\ p \in {"i_dlock", "i_update", "i_finish"} => Depth(l.target) < Dir.depth
  /\ p \in SharePCs =>
       /\ l.s[1] \in Pointers
       /\ Depth(l.s[1]) <= Depth(l.target) + 1 \/ Depth(l.s[1]) <= Dir.depth
       /\ l.s[2] \in Pointers
       /\ Depth(l.s[2]) <= Depth(l.target) + 1 \/ Depth(l.s[2]) <= Dir.depth
  /\ p = "i_update" =>
       \A n \in 1 .. Len(l.writes) :
         l.writes[n][1] \in Entries(Dir) /\ l.writes[n][2] \in {l.s[1], l.s[2]}
  /\ p \in {"i_finish", "g_lock"} => INPLACE

LocalsOK == \A t \in Threads : LocalAt(pc[t], loc[t], todo[t])

\* Who is inside a segment, who has closed it and waits, who splits it.
InsertPCs == {"i_check", "i_compare", "i_probe", "i_value", "i_key", "i_return"}
GetPCs == {"g_check", "g_compare", "g_scan", "g_value", "g_return"}
SplitPCs == {"i_recheck", "i_split", "i_dir", "i_dsuspend", "i_dwait", "i_double",
             "i_dlock", "i_update", "i_finish"}
HoldsAt(p) == p \in InsertPCs \/ (INPLACE /\ p \in GetPCs)

Holders(i) == {t \in Threads : loc[t].target = i /\ HoldsAt(pc[t])}
Waiters(i) == {t \in Threads : loc[t].target = i /\ pc[t] = "i_wait"}
Splitters(i) == {t \in Threads : loc[t].target = i /\ pc[t] \in SplitPCs}
Closers(i) == Waiters(i) \cup Splitters(i)

SegLock(i) ==
  /\ segs[i].sema >= 0 => Closers(i) = {} /\ segs[i].sema = Cardinality(Holders(i))
  /\ \A t, u \in Closers(i) : t = u
  /\ \A t \in Waiters(i) : segs[i].sema = Cardinality(Holders(i)) - loc[t].val - 1
  /\ Splitters(i) # {} => Holders(i) = {}
  /\ INPLACE /\ segs[i].sema < 0 => Closers(i) # {}

SegLocks == "stray" \notin races => \A i \in Pointers : SegLock(i)

\* Who stores entries, and who has closed the directory to double it.
Updaters == {t \in Threads : pc[t] = "i_update"}
Doublers == {t \in Threads : pc[t] \in {"i_dwait", "i_double"}}

DirLock ==
  /\ Dir.sema >= 0 => Doublers = {} /\ Dir.sema = Cardinality(Updaters)
  /\ \A t, u \in Doublers : t = u
  /\ \A t \in Threads : pc[t] = "i_dwait" => Dir.sema = Cardinality(Updaters) - loc[t].val - 1
  /\ \A t \in Threads : pc[t] = "i_double" => Updaters = {}

Inv == Typed /\ DirsOK /\ LocalsOK /\ SegLocks /\ DirLock

-----------------------------------------------------------------------------
(* A step of one thread                                                     *)

\* Thread t goes to p with the locals l.
Acts(t, p, l) ==
  /\ pc' = [pc EXCEPT ![t] = p]
  /\ loc' = [loc EXCEPT ![t] = l]
  /\ scenario' = scenario

\* The others stay where they are.
LEMMA ActsOthers ==
  ASSUME Typed, NEW t \in Threads, NEW p \in PCs, NEW l \in Locals, Acts(t, p, l)
  PROVE  /\ pc' \in [Threads -> PCs] /\ loc' \in [Threads -> Locals]
         /\ pc'[t] = p /\ loc'[t] = l
         /\ \A u \in Threads \ {t} : pc'[u] = pc[u] /\ loc'[u] = loc[u]
         /\ INPLACE' = INPLACE /\ MSB' = MSB
BY DEF Typed, Acts, INPLACE, MSB

\* A set of threads has a cardinality.
LEMMA ThreadSets ==
  ASSUME NEW S \in SUBSET Threads
  PROVE  IsFiniteSet(S) /\ Cardinality(S) \in Nat /\ (Cardinality(S) = 0 <=> S = {})
<1>1. IsFiniteSet(S)
  BY CCEHAssumption, FS_Subset
<1>2. Cardinality(S) \in Nat
  BY <1>1, FS_CardinalityType
<1>3. Cardinality(S) = 0 <=> S = {}
  BY <1>1, FS_EmptySet
<1> QED
  BY <1>1, <1>2, <1>3

\* A thread more or less changes it by one.
LEMMA ThreadAdd ==
  ASSUME NEW S \in SUBSET Threads, NEW t \in Threads, t \notin S
  PROVE  Cardinality(S \cup {t}) = Cardinality(S) + 1
BY ThreadSets, FS_AddElement

\* One that leaves is taken off.
LEMMA ThreadRemove ==
  ASSUME NEW S \in SUBSET Threads, NEW t \in Threads, t \in S
  PROVE  Cardinality(S \ {t}) = Cardinality(S) - 1
BY ThreadSets, FS_RemoveElement

\* The roles of the threads at segment i before and after a step of t.
LEMMA Roles ==
  ASSUME Typed, NEW t \in Threads, NEW p \in PCs, NEW l \in Locals, Acts(t, p, l), NEW i
  PROVE  /\ l.target = i /\ HoldsAt(p) => Holders(i)' = Holders(i) \cup {t}
         /\ ~(l.target = i /\ HoldsAt(p)) => Holders(i)' = Holders(i) \ {t}
         /\ (t \in Holders(i) <=> (l.target = i /\ HoldsAt(p))) => Holders(i)' = Holders(i)
         /\ l.target = i /\ p = "i_wait" => Waiters(i)' = Waiters(i) \cup {t}
         /\ ~(l.target = i /\ p = "i_wait") => Waiters(i)' = Waiters(i) \ {t}
         /\ (t \in Waiters(i) <=> (l.target = i /\ p = "i_wait")) => Waiters(i)' = Waiters(i)
         /\ l.target = i /\ p \in SplitPCs => Splitters(i)' = Splitters(i) \cup {t}
         /\ ~(l.target = i /\ p \in SplitPCs) => Splitters(i)' = Splitters(i) \ {t}
         /\ (t \in Splitters(i) <=> (l.target = i /\ p \in SplitPCs)) => Splitters(i)' = Splitters(i)
         /\ Holders(i) \in SUBSET Threads
         /\ \A u \in Waiters(i)' : u # t => loc'[u].val = loc[u].val
<1>1. /\ pc'[t] = p /\ loc'[t] = l /\ INPLACE' = INPLACE
      /\ \A u \in Threads \ {t} : pc'[u] = pc[u] /\ loc'[u] = loc[u]
  BY ActsOthers
<1>2. /\ l.target = i /\ HoldsAt(p) => Holders(i)' = Holders(i) \cup {t}
      /\ ~(l.target = i /\ HoldsAt(p)) => Holders(i)' = Holders(i) \ {t}
      /\ (t \in Holders(i) <=> (l.target = i /\ HoldsAt(p))) => Holders(i)' = Holders(i)
  BY <1>1 DEF Holders, HoldsAt
<1>3. /\ l.target = i /\ p = "i_wait" => Waiters(i)' = Waiters(i) \cup {t}
      /\ ~(l.target = i /\ p = "i_wait") => Waiters(i)' = Waiters(i) \ {t}
      /\ (t \in Waiters(i) <=> (l.target = i /\ p = "i_wait")) => Waiters(i)' = Waiters(i)
  BY <1>1 DEF Waiters
<1>4. /\ l.target = i /\ p \in SplitPCs => Splitters(i)' = Splitters(i) \cup {t}
      /\ ~(l.target = i /\ p \in SplitPCs) => Splitters(i)' = Splitters(i) \ {t}
      /\ (t \in Splitters(i) <=> (l.target = i /\ p \in SplitPCs)) => Splitters(i)' = Splitters(i)
  BY <1>1 DEF Splitters
<1>5. Holders(i) \in SUBSET Threads
  BY DEF Holders
<1>6. \A u \in Waiters(i)' : u # t => loc'[u].val = loc[u].val
  BY <1>1 DEF Waiters
<1> QED
  BY <1>2, <1>3, <1>4, <1>5, <1>6

\* The fields of a segment.
LEMMA SegFacts ==
  ASSUME Typed, NEW i \in Pointers
  PROVE  /\ segs[i] \in Segment /\ segs[i].sema \in Int
         /\ Depth(i) \in 0 .. HashBits /\ segs[i].bucket \in [Slots -> Entry]
<1>1. segs[i] \in Segment
  BY DEF Typed, Pointers
<1> QED
  BY <1>1 DEF Segment, Depth

\* A thread with a role at a segment has a target.
LEMMA RoleTarget ==
  ASSUME NEW p, HoldsAt(p) \/ p = "i_wait" \/ p \in SplitPCs
  PROVE  p \notin NoTargetPCs
BY DEF HoldsAt, InsertPCs, GetPCs, SplitPCs, NoTargetPCs

\* Locks of segments: a step of t concerns only its target k.
LEMMA LocksElsewhere ==
  ASSUME Inv, NEW t \in Threads, NEW p \in PCs, NEW l \in Locals, Acts(t, p, l),
         NEW k, k = loc[t].target,
         HoldsAt(p) \/ p = "i_wait" \/ p \in SplitPCs => l.target = k /\ k \in Pointers,
         races \subseteq races', Pointers \subseteq Pointers',
         \A i \in Pointers \ {k} : segs'[i].sema = segs[i].sema,
         \A i \in Pointers' \ Pointers : segs'[i].sema = 0,
         k \in Pointers /\ "stray" \notin races' => SegLock(k)'
  PROVE  SegLocks'
<1> SUFFICES ASSUME "stray" \notin races', NEW i \in Pointers' PROVE SegLock(i)'
  BY DEF SegLocks
<1>1. CASE i = k /\ k \in Pointers
  BY <1>1
<1>2. Typed /\ INPLACE' = INPLACE
  BY ActsOthers DEF Inv
<1>3. HoldsAt(pc[t]) \/ pc[t] = "i_wait" \/ pc[t] \in SplitPCs => k \in Pointers
  BY RoleTarget DEF Inv, LocalsOK, LocalAt
<1>4. CASE i # k /\ i \in Pointers
  <2>1. SegLock(i)
    BY <1>4 DEF Inv, SegLocks
  <2>2. t \notin Holders(i) /\ t \notin Waiters(i) /\ t \notin Splitters(i)
    BY <1>4 DEF Holders, Waiters, Splitters
  <2>3. /\ Holders(i)' = Holders(i) /\ Waiters(i)' = Waiters(i) /\ Splitters(i)' = Splitters(i)
        /\ \A u \in Waiters(i)' : loc'[u].val = loc[u].val
    <3>1. /\ ~(l.target = i /\ HoldsAt(p)) /\ ~(l.target = i /\ p = "i_wait")
          /\ ~(l.target = i /\ p \in SplitPCs)
      BY <1>4
    <3>2. Holders(i)' = Holders(i)
      BY <1>2, <2>2, <3>1, Roles
    <3>3. Waiters(i)' = Waiters(i)
      BY <1>2, <2>2, <3>1, Roles
    <3>4. Splitters(i)' = Splitters(i)
      BY <1>2, <2>2, <3>1, Roles
    <3>5. \A u \in Waiters(i)' : loc'[u].val = loc[u].val
      BY <1>2, <2>2, <3>3, Roles
    <3> QED
      BY <3>2, <3>3, <3>4, <3>5
  <2>4. segs'[i].sema = segs[i].sema
    BY <1>4
  <2> QED
    BY <1>2, <2>1, <2>3, <2>4 DEF SegLock, Closers
<1>5. CASE i \notin Pointers
  <2>1. segs'[i].sema = 0
    BY <1>5
  <2>2. \A u \in Threads : HoldsAt(pc[u]) \/ pc[u] = "i_wait" \/ pc[u] \in SplitPCs
                           => loc[u].target \in Pointers
    BY RoleTarget DEF Inv, LocalsOK, LocalAt
  <2>3. Holders(i) = {} /\ Waiters(i) = {} /\ Splitters(i) = {}
    BY <1>5, <2>2 DEF Holders, Waiters, Splitters
  <2>4. Holders(i)' = {} /\ Waiters(i)' = {} /\ Splitters(i)' = {}
    BY <1>2, <1>5, <2>3, Roles
  <2>5. Cardinality(Holders(i)') = 0
    BY <2>4, FS_EmptySet
  <2> QED
    BY <2>1, <2>4, <2>5 DEF SegLock, Closers
<1> QED
  BY <1>1, <1>4, <1>5

\* The same for one segment k: what the step does to its lock.  A thread whose
\* role stays the same:
LEMMA LockKept ==
  ASSUME Inv, NEW t \in Threads, NEW p \in PCs, NEW l \in Locals, Acts(t, p, l),
         NEW i \in Pointers, i = loc[t].target, races \subseteq races', "stray" \notin races',
         segs'[i].sema = segs[i].sema,
         HoldsAt(p) <=> HoldsAt(pc[t]), p = "i_wait" <=> pc[t] = "i_wait",
         p \in SplitPCs <=> pc[t] \in SplitPCs,
         HoldsAt(p) \/ p = "i_wait" \/ p \in SplitPCs => l.target = loc[t].target,
         p = "i_wait" => l.val = loc[t].val
  PROVE  SegLock(i)'
<1>2. Typed /\ INPLACE' = INPLACE /\ SegLock(i) /\ loc'[t] = l
  BY ActsOthers DEF Inv, SegLocks
<1>3. Holders(i)' = Holders(i)
  <2>1. t \in Holders(i) <=> (l.target = i /\ HoldsAt(p))
    BY DEF Holders
  <2> QED
    BY <1>2, <2>1, Roles
<1>4. Waiters(i)' = Waiters(i)
  <2>1. t \in Waiters(i) <=> (l.target = i /\ p = "i_wait")
    BY DEF Waiters
  <2> QED
    BY <1>2, <2>1, Roles
<1>5. Splitters(i)' = Splitters(i)
  <2>1. t \in Splitters(i) <=> (l.target = i /\ p \in SplitPCs)
    BY DEF Splitters
  <2> QED
    BY <1>2, <2>1, Roles
<1>6. \A u \in Waiters(i)' : loc'[u].val = loc[u].val
  <2>1. t \in Waiters(i) => loc'[t].val = loc[t].val
    BY <1>2 DEF Waiters
  <2> QED
    BY <1>2, <1>4, <2>1, Roles
<1> QED
  BY <1>2, <1>3, <1>4, <1>5, <1>6 DEF SegLock, Closers

\* lock(): t enters.
LEMMA LockEnter ==
  ASSUME Inv, NEW t \in Threads, NEW p \in PCs, NEW l \in Locals, Acts(t, p, l),
         NEW i \in Pointers, i = loc[t].target, races \subseteq races', "stray" \notin races',
         segs[i].sema >= 0,
         segs'[i].sema = segs[i].sema + 1,
         ~HoldsAt(pc[t]), HoldsAt(p), l.target = loc[t].target
  PROVE  SegLock(i)'
<1>2. Typed /\ INPLACE' = INPLACE /\ SegLock(i)
  BY ActsOthers DEF Inv, SegLocks
<1>3. Closers(i) = {} /\ segs[i].sema = Cardinality(Holders(i)) /\ segs'[i].sema = segs[i].sema + 1
  BY <1>2 DEF SegLock
<1>4. t \notin Holders(i) /\ p # "i_wait" /\ p \notin SplitPCs
  BY DEF Holders, HoldsAt, InsertPCs, GetPCs, SplitPCs
<1>5. Holders(i)' = Holders(i) \cup {t} /\ Holders(i) \in SUBSET Threads
  BY <1>2, <1>4, Roles
<1>6. Waiters(i)' = {}
  BY <1>2, <1>3, <1>4, Roles DEF Closers
<1>7. Splitters(i)' = {}
  BY <1>2, <1>3, <1>4, Roles DEF Closers
<1>8. Cardinality(Holders(i)') = Cardinality(Holders(i)) + 1 /\ Cardinality(Holders(i)) \in Nat
  BY <1>4, <1>5, ThreadAdd, ThreadSets
<1> QED
  BY <1>3, <1>6, <1>7, <1>8 DEF SegLock, Closers

\* unlock(): t leaves.
LEMMA LockLeave ==
  ASSUME Inv, NEW t \in Threads, NEW p \in PCs, NEW l \in Locals, Acts(t, p, l),
         NEW i \in Pointers, i = loc[t].target, races \subseteq races', "stray" \notin races',
         segs'[i].sema = segs[i].sema - 1,
         HoldsAt(pc[t]), ~HoldsAt(p), p # "i_wait", p \notin SplitPCs
  PROVE  SegLock(i)'
<1>2. Typed /\ INPLACE' = INPLACE /\ SegLock(i) /\ segs'[i].sema = segs[i].sema - 1
  BY ActsOthers DEF Inv, SegLocks
<1>3. segs[i].sema \in Int
  BY <1>2, SegFacts
<1>4. t \in Holders(i) /\ t \notin Waiters(i) /\ t \notin Splitters(i)
  BY DEF Holders, Waiters, Splitters, HoldsAt, InsertPCs, GetPCs, SplitPCs
<1>5. Holders(i)' = Holders(i) \ {t} /\ Holders(i) \in SUBSET Threads
  BY <1>2, Roles
<1>6. Waiters(i)' = Waiters(i) /\ \A u \in Waiters(i) : loc'[u].val = loc[u].val
  BY <1>2, <1>4, Roles
<1>7. Splitters(i)' = Splitters(i) /\ Splitters(i) = {}
  BY <1>2, <1>4, Roles DEF SegLock
<1>8. /\ Cardinality(Holders(i)') = Cardinality(Holders(i)) - 1
      /\ Cardinality(Holders(i)) \in Nat /\ Cardinality(Holders(i)) # 0
  BY <1>4, <1>5, ThreadRemove, ThreadSets
<1>9. \A u \in Waiters(i) : loc[u].val \in Int
  BY <1>2 DEF Waiters, Typed, Locals
<1>10. segs'[i].sema >= 0 => Closers(i)' = {} /\ segs'[i].sema = Cardinality(Holders(i)')
  BY <1>2, <1>3, <1>6, <1>7, <1>8 DEF SegLock, Closers
<1>11. \A u \in Waiters(i)' : segs'[i].sema = Cardinality(Holders(i)') - loc'[u].val - 1
  BY <1>2, <1>3, <1>6, <1>8, <1>9 DEF SegLock
<1>12. INPLACE' /\ segs'[i].sema < 0 => Closers(i)' # {}
  BY <1>2, <1>3, <1>6, <1>7, <1>8 DEF SegLock, Closers
<1>13. \A u, v \in Closers(i)' : u = v
  BY <1>2, <1>6, <1>7 DEF SegLock, Closers
<1> QED
  BY <1>7, <1>10, <1>11, <1>12, <1>13 DEF SegLock

\* An unlock() without a lock that is no stray one: the segment is closed and
\* nobody counts.
LEMMA LockDecay ==
  ASSUME Inv, NEW t \in Threads, NEW p \in PCs, NEW l \in Locals, Acts(t, p, l),
         NEW i \in Pointers, i = loc[t].target, races \subseteq races', "stray" \notin races',
         segs'[i].sema = segs[i].sema - 1,
         segs[i].sema < 0, Waiters(i) = {},
         ~HoldsAt(pc[t]), pc[t] \notin SplitPCs,
         ~HoldsAt(p), p # "i_wait", p \notin SplitPCs
  PROVE  SegLock(i)'
<1>2. /\ Typed /\ INPLACE' = INPLACE /\ SegLock(i) /\ Waiters(i) = {}
      /\ segs'[i].sema = segs[i].sema - 1 /\ segs[i].sema < 0
  BY ActsOthers DEF Inv, SegLocks
<1>3. segs[i].sema \in Int
  BY <1>2, SegFacts
<1>4. t \notin Holders(i) /\ t \notin Splitters(i)
  BY DEF Holders, Splitters
<1>5. Holders(i)' = Holders(i)
  BY <1>2, <1>4, Roles
<1>6. Waiters(i)' = {}
  BY <1>2, Roles
<1>7. Splitters(i)' = Splitters(i)
  BY <1>2, <1>4, Roles
<1>8. ~(segs'[i].sema >= 0)
  BY <1>2, <1>3
<1> QED
  BY <1>2, <1>5, <1>6, <1>7, <1>8 DEF SegLock, Closers

\* suspend() up to its wait loop: t closes the segment.
LEMMA LockClose ==
  ASSUME Inv, NEW t \in Threads, NEW l \in Locals, Acts(t, "i_wait", l),
         NEW i \in Pointers, i = loc[t].target, races \subseteq races', "stray" \notin races',
         segs[i].sema >= 0, segs'[i].sema = -1,
         pc[t] = "i_suspend", l.target = loc[t].target, l.val = segs[i].sema
  PROVE  SegLock(i)'
<1>2. Typed /\ INPLACE' = INPLACE /\ SegLock(i) /\ loc'[t] = l /\ "i_wait" \in PCs
  BY ActsOthers DEF Inv, SegLocks, PCs
<1>3. /\ Closers(i) = {} /\ segs[i].sema = Cardinality(Holders(i)) /\ segs'[i].sema = -1
      /\ l.val = segs[i].sema
  BY <1>2 DEF SegLock
<1>4. t \notin Holders(i) /\ ~HoldsAt("i_wait") /\ "i_wait" \notin SplitPCs
  BY DEF Holders, HoldsAt, InsertPCs, GetPCs, SplitPCs
<1>5. Holders(i)' = Holders(i) /\ Holders(i) \in SUBSET Threads
  BY <1>2, <1>4, Roles
<1>6. Waiters(i)' = {t}
  BY <1>2, <1>3, Roles DEF Closers
<1>7. Splitters(i)' = {}
  BY <1>2, <1>3, <1>4, Roles DEF Closers
<1>8. Cardinality(Holders(i)) \in Nat
  BY <1>5, ThreadSets
<1>9. -1 = Cardinality(Holders(i)') - loc'[t].val - 1
  BY <1>2, <1>3, <1>5, <1>8
<1> QED
  BY <1>3, <1>6, <1>7, <1>9 DEF SegLock, Closers

\* The end of the wait loop: everybody is out.
LEMMA LockAwait ==
  ASSUME Inv, NEW t \in Threads, NEW l \in Locals, Acts(t, "i_recheck", l),
         NEW i \in Pointers, i = loc[t].target, races \subseteq races', "stray" \notin races',
         segs'[i].sema = segs[i].sema,
         pc[t] = "i_wait", l.target = loc[t].target,
         loc[t].val = 0 \/ segs[i].sema = 0 - loc[t].val - 1
  PROVE  SegLock(i)'
<1>2. Typed /\ INPLACE' = INPLACE /\ SegLock(i) /\ "i_recheck" \in PCs
      /\ segs'[i].sema = segs[i].sema
  BY ActsOthers DEF Inv, SegLocks, PCs
<1>3. t \in Waiters(i) /\ loc[t].val \in Nat /\ segs[i].sema \in Int
  BY <1>2, SegFacts DEF Waiters, Typed, Locals
<1>4. Closers(i) = {t} /\ segs[i].sema = Cardinality(Holders(i)) - loc[t].val - 1
  BY <1>2, <1>3 DEF SegLock, Closers
<1>5. ~(segs[i].sema >= 0)
  BY <1>2, <1>4 DEF SegLock
<1>6. Holders(i) \in SUBSET Threads /\ Cardinality(Holders(i)) \in Nat
  BY ThreadSets DEF Holders
<1>7. Cardinality(Holders(i)) = 0
  BY <1>3, <1>4, <1>5, <1>6
<1>8. Holders(i) = {}
  BY <1>6, <1>7, ThreadSets
<1>9. ~HoldsAt("i_recheck") /\ "i_recheck" \in SplitPCs
  BY DEF HoldsAt, InsertPCs, GetPCs, SplitPCs
<1>10. Holders(i)' = {}
  BY <1>2, <1>8, <1>9, Roles
<1>11. Waiters(i)' = {}
  BY <1>2, <1>4, Roles DEF Closers
<1>12. Splitters(i)' = {t}
  BY <1>2, <1>4, <1>9, Roles DEF Closers
<1> QED
  BY <1>2, <1>5, <1>10, <1>11, <1>12 DEF SegLock, Closers

\* sema = 0 by the thread that closed the segment, or, in the copy-on-write
\* builds, a split published: the segment stays closed.
LEMMA LockOpen ==
  ASSUME Inv, NEW t \in Threads, NEW p \in PCs, NEW l \in Locals, Acts(t, p, l),
         NEW i \in Pointers, i = loc[t].target, races \subseteq races', "stray" \notin races',
         \/ segs'[i].sema = 0
         \/ ~INPLACE /\ segs'[i].sema = segs[i].sema,
         pc[t] \in SplitPCs, ~HoldsAt(p), p # "i_wait", p \notin SplitPCs
  PROVE  SegLock(i)'
<1>2. /\ Typed /\ INPLACE' = INPLACE /\ SegLock(i)
  BY ActsOthers DEF Inv, SegLocks
<1>3. t \in Splitters(i)
  BY DEF Splitters
<1>4. Closers(i) = {t} /\ Holders(i) = {} /\ ~(segs[i].sema >= 0)
  BY <1>2, <1>3 DEF SegLock, Closers
<1>5. Holders(i)' = {}
  BY <1>2, <1>4, Roles
<1>6. Waiters(i)' = {}
  BY <1>2, <1>4, Roles DEF Closers
<1>7. Splitters(i)' = {}
  BY <1>2, <1>4, Roles DEF Closers
<1>8. Cardinality(Holders(i)') = 0
  BY <1>5, FS_EmptySet
<1> QED
  BY <1>2, <1>4, <1>5, <1>6, <1>7, <1>8 DEF SegLock, Closers

-----------------------------------------------------------------------------
(* The lock of the directory                                                *)

DirPCs == {"i_update", "i_dwait", "i_double"}

\* The roles of the threads at the directory before and after a step of t.
LEMMA DirRoles ==
  ASSUME Typed, NEW t \in Threads, NEW p \in PCs, NEW l \in Locals, Acts(t, p, l)
  PROVE  /\ p = "i_update" => Updaters' = Updaters \cup {t}
         /\ p # "i_update" => Updaters' = Updaters \ {t}
         /\ (t \in Updaters <=> p = "i_update") => Updaters' = Updaters
         /\ p \in {"i_dwait", "i_double"} => Doublers' = Doublers \cup {t}
         /\ p \notin {"i_dwait", "i_double"} => Doublers' = Doublers \ {t}
         /\ (t \in Doublers <=> p \in {"i_dwait", "i_double"}) => Doublers' = Doublers
         /\ Updaters \in SUBSET Threads /\ Cardinality(Updaters) \in Nat
         /\ \A u \in Threads \ {t} : pc'[u] = pc[u] /\ loc'[u].val = loc[u].val
<1>1. /\ pc'[t] = p /\ \A u \in Threads \ {t} : pc'[u] = pc[u] /\ loc'[u] = loc[u]
  BY ActsOthers
<1>2. /\ p = "i_update" => Updaters' = Updaters \cup {t}
      /\ p # "i_update" => Updaters' = Updaters \ {t}
      /\ (t \in Updaters <=> p = "i_update") => Updaters' = Updaters
  BY <1>1 DEF Updaters
<1>3. /\ p \in {"i_dwait", "i_double"} => Doublers' = Doublers \cup {t}
      /\ p \notin {"i_dwait", "i_double"} => Doublers' = Doublers \ {t}
      /\ (t \in Doublers <=> p \in {"i_dwait", "i_double"}) => Doublers' = Doublers
  BY <1>1 DEF Doublers
<1>4. Updaters \in SUBSET Threads
  BY DEF Updaters
<1>5. Cardinality(Updaters) \in Nat
  BY <1>4, ThreadSets
<1> QED
  BY <1>1, <1>2, <1>3, <1>4, <1>5

\* A thread whose role stays the same.
LEMMA DirKept ==
  ASSUME Inv, NEW t \in Threads, NEW p \in PCs, NEW l \in Locals, Acts(t, p, l),
         (Dir.sema)' = Dir.sema,
         \/ p \notin DirPCs /\ pc[t] \notin DirPCs
         \/ p = pc[t] /\ l.val = loc[t].val
  PROVE  DirLock'
<1>1. Typed /\ DirLock
  BY DEF Inv
<1>2. pc'[t] = p /\ loc'[t] = l
  BY <1>1, ActsOthers
<1>3. Updaters' = Updaters
  <2>1. t \in Updaters <=> p = "i_update"
    BY DEF Updaters, DirPCs
  <2> QED
    BY <1>1, <2>1, DirRoles
<1>4. Doublers' = Doublers
  <2>1. t \in Doublers <=> p \in {"i_dwait", "i_double"}
    BY DEF Doublers, DirPCs
  <2> QED
    BY <1>1, <2>1, DirRoles
<1>5. \A u \in Threads : pc'[u] = "i_dwait" => pc[u] = "i_dwait" /\ loc'[u].val = loc[u].val
  BY <1>1, <1>2, DirRoles DEF DirPCs
<1>6. \A u \in Threads : pc'[u] = "i_double" => pc[u] = "i_double"
  BY <1>1, <1>2, DirRoles DEF DirPCs
<1> QED
  BY <1>1, <1>3, <1>4, <1>5, <1>6 DEF DirLock

-----------------------------------------------------------------------------
(* Types and bounds                                                         *)

\* The current directory.
LEMMA DirFacts ==
  ASSUME Typed, DirsOK
  PROVE  /\ Dir \in Directory /\ Dir.depth \in 1 .. HashBits /\ Dir.sema \in Int
         /\ Pow2[Dir.depth] \in Nat \ {0}
         /\ Dir.segment \in [Entries(Dir) -> Pointers]
         /\ HashBits \in Nat
<1>1. Dir \in Directory
  BY DEF Typed, Dir
<1>2. HashBits \in Nat
  BY CCEHAssumption
<1>3. Dir.depth \in 1 .. HashBits /\ Dir.sema \in Int
  BY <1>1 DEF Directory
<1>4. Dir.depth \in Nat
  BY <1>2, <1>3
<1>5. Pow2[Dir.depth] \in Nat \ {0}
  BY <1>4, Pow2Step
<1>6. Dir.segment \in [Entries(Dir) -> Pointers]
  BY DEF DirsOK, Typed, Dir
<1> QED
  BY <1>1, <1>2, <1>3, <1>5, <1>6

\* What the locals of a thread hold still holds in a larger table.
LEMMA LocalGrows ==
  ASSUME Typed, DirsOK, NEW p, NEW l \in Locals, NEW q, LocalAt(p, l, q),
         Len(segs') \in Nat, Len(segs) <= Len(segs'),
         \A i \in Pointers : Depth(i)' = Depth(i),
         (Dir.depth)' \in Nat, Dir.depth <= (Dir.depth)', INPLACE' = INPLACE
  PROVE  LocalAt(p, l, q)'
<1>1. Dir.depth \in Nat /\ Len(segs) \in Nat
  BY DirFacts DEF Typed
<1>2. PICK m \in Nat, n \in Nat : m = Dir.depth /\ n = (Dir.depth)' /\ m <= n
  BY <1>1
<1>3. Pow2[m] \in Nat /\ Pow2[n] \in Nat /\ Pow2[m] <= Pow2[n]
  BY <1>2, Pow2Diff, Pow2Step
<1>4. l.x \in Nat /\ l.check \in Nat /\ l.depth \in Nat
  BY CCEHAssumption DEF Locals
<1>5. \A i \in Pointers : Depth(i) \in Nat
  BY SegFacts, CCEHAssumption
<1>6. Pointers \subseteq Pointers' /\ 0 .. Len(segs) \subseteq 0 .. Len(segs')
  BY <1>1 DEF Pointers
<1>7. Entries(Dir) \subseteq Entries(Dir)'
  BY <1>2, <1>3 DEF Entries
<1>8. l.x < Pow2[(Dir.depth)'] /\ l.check < Pow2[(Dir.depth)'] /\ l.depth <= (Dir.depth)'
  <2>1. l.x < Pow2[Dir.depth] /\ l.check < Pow2[Dir.depth] /\ l.depth <= Dir.depth
    BY DEF LocalAt
  <2>2. l.x < Pow2[m] /\ l.check < Pow2[m] /\ l.depth <= m
    BY <1>2, <2>1
  <2>3. \A a \in Nat : (a < Pow2[m] => a < Pow2[n]) /\ (a <= m => a <= n)
    BY <1>2, <1>3
  <2>4. l.x < Pow2[n] /\ l.check < Pow2[n] /\ l.depth <= n
    BY <1>4, <2>2, <2>3
  <2> QED
    BY <1>2, <2>4
<1>9. \A i \in Pointers : /\ Depth(i) <= Dir.depth => Depth(i)' <= (Dir.depth)'
                          /\ Depth(i) < Dir.depth => Depth(i)' < (Dir.depth)'
  BY <1>2, <1>5
<1>10. p \notin NoTargetPCs => l.target \in Pointers' /\ Depth(l.target)' <= (Dir.depth)'
  BY <1>6, <1>9 DEF LocalAt
<1>11. p \in SharePCs \cup {"i_finish"} => p \notin NoTargetPCs
  BY DEF SharePCs, NoTargetPCs
<1>12. p \in SharePCs \cup {"i_finish"} => Depth(l.target)' = Depth(l.target) /\ l.target \in Pointers
  BY <1>11 DEF LocalAt
<1>13. p \in SharePCs \cup {"i_finish"} => Depth(l.target)' < HashBits
  BY <1>12 DEF LocalAt
<1>14. p \in {"i_dlock", "i_update", "i_finish"} => Depth(l.target)' < (Dir.depth)'
  BY <1>9, <1>12 DEF LocalAt, SharePCs
<1>15. p \in SharePCs =>
         /\ l.s[1] \in Pointers'
         /\ Depth(l.s[1])' <= Depth(l.target)' + 1 \/ Depth(l.s[1])' <= (Dir.depth)'
         /\ l.s[2] \in Pointers'
         /\ Depth(l.s[2])' <= Depth(l.target)' + 1 \/ Depth(l.s[2])' <= (Dir.depth)'
  BY <1>6, <1>9, <1>12 DEF LocalAt
<1>16. p = "i_update" =>
         \A k \in 1 .. Len(l.writes) :
           l.writes[k][1] \in Entries(Dir)' /\ l.writes[k][2] \in {l.s[1], l.s[2]}
  BY <1>7 DEF LocalAt
<1>17. (p # "idle" => q # <<>>) /\ l.target \in 0 .. Len(segs')
       /\ (p \in {"i_finish", "g_lock"} => INPLACE')
  BY <1>6 DEF LocalAt
<1> QED
  BY <1>8, <1>10, <1>13, <1>14, <1>15, <1>16, <1>17 DEF LocalAt

\* Where the locks of segments matter.
RolePCs(p) == HoldsAt(p) \/ p = "i_wait" \/ p \in SplitPCs

\* The locals of the other threads.
LEMMA LocalsGrow ==
  ASSUME Inv, NEW t \in Threads, NEW p \in PCs, NEW l \in Locals, NEW q, Acts(t, p, l),
         todo' = [todo EXCEPT ![t] = q], LocalAt(p, l, q)',
         Len(segs') \in Nat, Len(segs) <= Len(segs'),
         \A i \in Pointers : Depth(i)' = Depth(i),
         (Dir.depth)' \in Nat, Dir.depth <= (Dir.depth)'
  PROVE  LocalsOK'
<1>1. Typed /\ DirsOK /\ INPLACE' = INPLACE
  BY ActsOthers DEF Inv
<1>2. pc'[t] = p /\ loc'[t] = l /\ todo'[t] = q
  BY <1>1, ActsOthers DEF Typed
<1> SUFFICES ASSUME NEW u \in Threads PROVE LocalAt(pc[u], loc[u], todo[u])'
  BY DEF LocalsOK
<1>3. CASE u = t
  BY <1>2, <1>3
<1>4. CASE u # t
  <2>1. PICK pu \in PCs, qu \in Seq(Calls), lu \in Locals : pu = pc[u] /\ lu = loc[u] /\ qu = todo[u]
    BY <1>1 DEF Typed
  <2>2. pc'[u] = pu /\ loc'[u] = lu /\ todo'[u] = qu
    BY <1>1, <1>4, <2>1, ActsOthers DEF Typed
  <2>3. LocalAt(pu, lu, qu)
    BY <2>1 DEF Inv, LocalsOK
  <2>4. LocalAt(pu, lu, qu)'
    BY <1>1, <2>3, LocalGrows
  <2> QED
    BY <2>2, <2>4
<1> QED
  BY <1>3, <1>4

\* A step that leaves the directory and the depths alone and does not change
\* the number of segments.
LEMMA Step ==
  ASSUME Inv, NEW t \in Threads, NEW p \in PCs, NEW l \in Locals, Acts(t, p, l),
         UNCHANGED <<dirs, dir>>,
         segs' \in Seq(Segment), Len(segs') = Len(segs),
         \A i \in Pointers : Depth(i)' = Depth(i),
         \A i \in Pointers \ {loc[t].target} : segs'[i].sema = segs[i].sema,
         NEW q \in Seq(Calls), todo' = [todo EXCEPT ![t] = q],
         acked' \in SUBSET Keys,
         races \subseteq races', races' \in SUBSET AllRaces, INPLACE => "stray" \notin races',
         LocalAt(p, l, q),
         RolePCs(p) => l.target = loc[t].target /\ loc[t].target \in Pointers,
         \A k \in Pointers : k = loc[t].target /\ "stray" \notin races' => SegLock(k)',
         pc[t] \notin DirPCs, p \notin DirPCs
  PROVE  Inv'
<1>1. Typed /\ DirsOK /\ INPLACE' = INPLACE
  BY ActsOthers DEF Inv
<1>2. Typed'
  BY <1>1, ActsOthers DEF Typed, Acts
<1>3. Pointers' = Pointers /\ Dir' = Dir /\ dirs' = dirs /\ Entries(Dir)' = Entries(Dir)
  BY DEF Pointers, Dir, Entries
<1>4. Len(segs) \in Nat /\ Len(segs') \in Nat /\ Dir.depth \in Nat
  BY <1>1, DirFacts DEF Typed
<1>5. DirsOK'
  <2>1. \A d \in 1 .. Len(dirs') : dirs'[d].segment \in [Entries(dirs'[d]) -> Pointers']
    BY <1>1, <1>3 DEF DirsOK
  <2>2. \A d : Entries(d)' = Entries(d)
    BY DEF Entries
  <2>3. ASSUME NEW x \in Entries(Dir)' PROVE Depth(Dir.segment[x])' <= (Dir.depth)'
    <3>1. PICK i \in Pointers : i = Dir.segment[x]
      BY <1>1, <1>3, DirFacts
    <3>2. Depth(i) <= Dir.depth
      BY <1>1, <1>3, <3>1 DEF DirsOK
    <3>3. Depth(Dir.segment[x])' = Depth(i)'
      BY <1>3, <3>1 DEF Depth
    <3> QED
      BY <1>3, <3>2, <3>3
  <2> QED
    BY <2>1, <2>2, <2>3 DEF DirsOK, Entries
<1>6. LocalAt(p, l, q)'
  BY <1>1, <1>3, <1>4, LocalGrows
<1>7. LocalsOK'
  <2>1. (Dir.depth)' \in Nat /\ Dir.depth <= (Dir.depth)' /\ Len(segs) <= Len(segs')
    BY <1>3, <1>4
  <2> QED
    BY <1>4, <1>6, <2>1, LocalsGrow
<1>8. SegLocks'
  <2>1. PICK k : k = loc[t].target
    OBVIOUS
  <2>2. \A i \in Pointers' \ Pointers : segs'[i].sema = 0
    BY <1>3
  <2>3. k \in Pointers /\ "stray" \notin races' => SegLock(k)'
    BY <2>1
  <2>4. \A i \in Pointers \ {k} : segs'[i].sema = segs[i].sema
    BY <2>1
  <2>5. HoldsAt(p) \/ p = "i_wait" \/ p \in SplitPCs => l.target = k /\ k \in Pointers
    BY <2>1 DEF RolePCs
  <2>6. Pointers \subseteq Pointers'
    BY <1>3
  <2> QED
    BY <2>1, <2>2, <2>3, <2>4, <2>5, <2>6, LocksElsewhere
<1>9. DirLock'
  BY <1>3, DirKept
<1> QED
  BY <1>2, <1>5, <1>7, <1>8, <1>9 DEF Inv

\* The same for a step that leaves the locks alone.
LEMMA QuietStep ==
  ASSUME Inv, NEW t \in Threads, NEW p \in PCs, NEW l \in Locals, Acts(t, p, l),
         UNCHANGED <<dirs, dir>>,
         segs' \in Seq(Segment), Len(segs') = Len(segs),
         \A i \in Pointers : Depth(i)' = Depth(i) /\ segs'[i].sema = segs[i].sema,
         NEW q \in Seq(Calls), todo' = [todo EXCEPT ![t] = q],
         acked' \in SUBSET Keys,
         races \subseteq races', races' \in SUBSET AllRaces, INPLACE => "stray" \notin races',
         LocalAt(p, l, q),
         HoldsAt(p) <=> HoldsAt(pc[t]), p = "i_wait" <=> pc[t] = "i_wait",
         p \in SplitPCs <=> pc[t] \in SplitPCs,
         RolePCs(p) => l.target = loc[t].target, p = "i_wait" => l.val = loc[t].val,
         pc[t] \notin DirPCs, p \notin DirPCs
  PROVE  Inv'
<1>1. ASSUME NEW k \in Pointers, k = loc[t].target, "stray" \notin races' PROVE SegLock(k)'
  BY <1>1, LockKept DEF RolePCs
<1>2. RolePCs(p) => loc[t].target \in Pointers
  <2>1. RolePCs(p) => RolePCs(pc[t])
    BY DEF RolePCs
  <2>2. RolePCs(pc[t]) => pc[t] \notin NoTargetPCs
    BY RoleTarget DEF RolePCs
  <2> QED
    BY <2>1, <2>2 DEF Inv, LocalsOK, LocalAt
<1> QED
  BY <1>1, <1>2, Step

\* What the steps use of the invariant.
LEMMA Facts ==
  ASSUME Inv, NEW t \in Threads
  PROVE  /\ loc[t] \in Locals /\ pc[t] \in PCs /\ LocalAt(pc[t], loc[t], todo[t])
         /\ todo[t] \in Seq(Calls) /\ todo = [todo EXCEPT ![t] = todo[t]]
         /\ todo[t] # <<>> =>
              /\ Call(t) \in Calls /\ Key(t) \in Keys /\ Tail(todo[t]) \in Seq(Calls)
              /\ Prefix(Key(t), Dir.depth) \in Entries(Dir)
         /\ pc[t] \notin NoTargetPCs => loc[t].target \in Pointers /\ Cur(t) \in Segment
         /\ acked \in SUBSET Keys /\ races \in SUBSET AllRaces
         /\ INPLACE => "stray" \notin races
         /\ segs \in Seq(Segment)
<1>1. Typed /\ DirsOK
  BY DEF Inv
<1>2. /\ loc[t] \in Locals /\ pc[t] \in PCs /\ LocalAt(pc[t], loc[t], todo[t])
      /\ todo[t] \in Seq(Calls) /\ todo = [todo EXCEPT ![t] = todo[t]]
  BY <1>1 DEF Typed, Inv, LocalsOK
<1>3. ASSUME todo[t] # <<>>
      PROVE  /\ Call(t) \in Calls /\ Key(t) \in Keys /\ Tail(todo[t]) \in Seq(Calls)
             /\ Prefix(Key(t), Dir.depth) \in Entries(Dir)
  <2>1. Call(t) \in Calls /\ Tail(todo[t]) \in Seq(Calls)
    BY <1>2, <1>3 DEF Call
  <2>2. Key(t) \in Keys
    BY <2>1 DEF Key, Calls
  <2>3. PICK d \in Nat, h \in Nat : d = Dir.depth /\ h = HashBits /\ d <= h
    BY <1>1, DirFacts
  <2>4. Pow2[h] = Pow2[d] * Pow2[h - d] /\ Pow2[d] \in Nat /\ Pow2[h] \in Nat
    BY <2>3, Pow2Diff, Pow2Step
  <2>5. h - d \in Nat
    BY <2>3
  <2>6. Pow2[h - d] \in Nat \ {0}
    BY <2>5, Pow2Step
  <2>7. Hash[Key(t)] \in 0 .. Pow2[h] - 1
    BY <2>2, <2>3, CCEHAssumption DEF KeyWords
  <2>8. Hash[Key(t)] \in Nat /\ Hash[Key(t)] < Pow2[d] * Pow2[h - d]
    BY <2>4, <2>7
  <2>9. Hash[Key(t)] \div Pow2[h - d] \in 0 .. Pow2[d] - 1
    BY <2>4, <2>6, <2>8, DivBound
  <2> QED
    BY <2>1, <2>2, <2>3, <2>9 DEF Prefix, Entries
<1>4. pc[t] \notin NoTargetPCs => loc[t].target \in Pointers /\ Cur(t) \in Segment
  BY <1>1, <1>2, SegFacts DEF LocalAt, Cur
<1> QED
  BY <1>1, <1>2, <1>3, <1>4 DEF Typed

-----------------------------------------------------------------------------
(* Loads, and the other steps that leave the locks alone                    *)

\* A store into one local variable.
LEMMA PutLocal ==
  ASSUME Typed, NEW t \in Threads, NEW f, NEW v, NEW p, Goto(t, p), Put(t, f, v),
         scenario' = scenario,
         \/ f \in {"x", "target", "check", "val"} /\ v \in Nat
         \/ f = "slot" /\ v \in Slots
         \/ f = "depth" /\ v \in 0 .. HashBits
         \/ f = "s" /\ v \in Nat \X Nat
         \/ f = "writes" /\ v \in Seq(Nat \X Nat)
         \/ f = "must" /\ v \in BOOLEAN
         \/ f = "result" /\ v \in Values \cup {NONE}
  PROVE  /\ [loc[t] EXCEPT ![f] = v] \in Locals
         /\ Acts(t, p, [loc[t] EXCEPT ![f] = v])
<1>1. loc' = [loc EXCEPT ![t] = [loc[t] EXCEPT ![f] = v]]
  BY DEF Put
<1>2. loc[t] \in Locals
  BY DEF Typed
<1>3. [loc[t] EXCEPT ![f] = v] \in Locals
  <2>1. CASE f = "x" /\ v \in Nat
    BY <1>2, <2>1 DEF Locals
  <2>2. CASE f = "target" /\ v \in Nat
    BY <1>2, <2>2 DEF Locals
  <2>3. CASE f = "check" /\ v \in Nat
    BY <1>2, <2>3 DEF Locals
  <2>4. CASE f = "val" /\ v \in Nat
    BY <1>2, <2>4 DEF Locals
  <2>5. CASE f = "slot" /\ v \in Slots
    BY <1>2, <2>5 DEF Locals
  <2>6. CASE f = "depth" /\ v \in 0 .. HashBits
    BY <1>2, <2>6 DEF Locals
  <2>7. CASE f = "s" /\ v \in Nat \X Nat
    BY <1>2, <2>7 DEF Locals
  <2>8. CASE f = "writes" /\ v \in Seq(Nat \X Nat)
    BY <1>2, <2>8 DEF Locals
  <2>9. CASE f = "must" /\ v \in BOOLEAN
    BY <1>2, <2>9 DEF Locals
  <2>10. CASE f = "result" /\ v \in Values \cup {NONE}
    BY <1>2, <2>10 DEF Locals
  <2> QED
    BY <2>1, <2>2, <2>3, <2>4, <2>5, <2>6, <2>7, <2>8, <2>9, <2>10
<1> QED
  BY <1>1, <1>3 DEF Acts, Goto

\* The other variables keep their values.
LEMMA PutOthers ==
  ASSUME NEW l \in Locals, NEW f, NEW v, NEW m, m = [l EXCEPT ![f] = v]
  PROVE
           /\ f # "target" => m.target = l.target
           /\ f # "x" => m.x = l.x
           /\ f # "check" => m.check = l.check
           /\ f # "depth" => m.depth = l.depth
           /\ f # "val" => m.val = l.val
           /\ f # "s" => m.s = l.s
           /\ f # "writes" => m.writes = l.writes
           /\ f = "target" => m.target = v
           /\ f = "x" => m.x = v
           /\ f = "check" => m.check = v
           /\ f = "depth" => m.depth = v
           /\ f = "val" => m.val = v
           /\ f = "s" => m.s = v
           /\ f = "writes" => m.writes = v
BY DEF Locals

\* A thread between its reads: only one field of its locals changes.
LEMMA LocalMove ==
  ASSUME Inv, NEW t \in Threads, NEW p, NEW l \in Locals,
         p \in NoTargetPCs \cup InsertPCs \cup GetPCs \cup {"i_lock", "g_lock", "i_suspend", "i_wait", "i_recheck", "i_split"},
         p # "idle", todo[t] # <<>>, p = "g_lock" => INPLACE,
         l.x \in Entries(Dir), l.check \in Entries(Dir),
         l.depth \in 0 .. Dir.depth,
         \/ l.target = loc[t].target /\ (p \in NoTargetPCs \/ pc[t] \notin NoTargetPCs)
         \/ \E x \in Entries(Dir) : l.target = Dir.segment[x]
  PROVE  LocalAt(p, l, todo[t])
<1>1. Typed /\ DirsOK /\ LocalAt(pc[t], loc[t], todo[t])
  BY Facts DEF Inv
<1>2. /\ l.target \in 0 .. Len(segs)
      /\ p \notin NoTargetPCs => l.target \in Pointers /\ Depth(l.target) <= Dir.depth
  <2>1. CASE l.target = loc[t].target /\ (p \in NoTargetPCs \/ pc[t] \notin NoTargetPCs)
    BY <1>1, <2>1 DEF LocalAt
  <2>2. CASE \E x \in Entries(Dir) : l.target = Dir.segment[x]
    <3>1. l.target \in Pointers /\ Depth(l.target) <= Dir.depth
      BY <1>1, <2>2, DirFacts DEF DirsOK
    <3>2. Len(segs) \in Nat
      BY <1>1 DEF Typed
    <3> QED
      BY <3>1, <3>2 DEF Pointers
  <2> QED
    BY <2>1, <2>2
<1>3. l.x < Pow2[Dir.depth] /\ l.check < Pow2[Dir.depth] /\ l.depth <= Dir.depth
  <2>1. Pow2[Dir.depth] \in Nat /\ Dir.depth \in Nat
    BY <1>1, DirFacts
  <2> QED
    BY <2>1 DEF Entries
<1>4. p \notin SharePCs \cup {"i_finish"}
  BY DEF SharePCs, InsertPCs, GetPCs, NoTargetPCs
<1> QED
  BY <1>2, <1>3, <1>4 DEF LocalAt, SharePCs

\* Its own locals satisfy the hypotheses.
LEMMA LocalSame ==
  ASSUME Inv, NEW t \in Threads
  PROVE  /\ loc[t].x \in Entries(Dir) /\ loc[t].check \in Entries(Dir)
         /\ loc[t].depth \in 0 .. Dir.depth
<1>1. Typed /\ DirsOK /\ LocalAt(pc[t], loc[t], todo[t]) /\ loc[t] \in Locals
  BY Facts DEF Inv
<1>2. loc[t].x \in Nat /\ loc[t].check \in Nat /\ loc[t].depth \in Nat
  BY <1>1, CCEHAssumption DEF Locals
<1>3. Pow2[Dir.depth] \in Nat /\ Dir.depth \in Nat
  BY <1>1, DirFacts
<1> QED
  BY <1>1, <1>2, <1>3 DEF LocalAt, Entries

\* Outside COLLISION: neither waiting for a segment nor splitting one.
PlainPCs == NoTargetPCs \cup InsertPCs \cup GetPCs \cup {"i_lock", "g_lock", "i_suspend"}

\* They are places of the program at which a thread neither waits nor splits.
LEMMA PlainPC ==
  ASSUME NEW p \in PlainPCs
  PROVE  p \in PCs /\ p # "i_wait" /\ p \notin SplitPCs /\ p \notin DirPCs
         /\ (RolePCs(p) <=> HoldsAt(p))
BY DEF PlainPCs, NoTargetPCs, InsertPCs, GetPCs, SplitPCs, DirPCs, RolePCs, PCs

\* Stores that keep the semaphores and the depths.
SameLocks ==
  /\ segs' \in Seq(Segment) /\ Len(segs') = Len(segs)
  /\ \A i \in Pointers : Depth(i)' = Depth(i) /\ segs'[i].sema = segs[i].sema

\* A step that stores into no segment does.
LEMMA SameSegs ==
  ASSUME Inv, segs' = segs
  PROVE  SameLocks
BY DEF SameLocks, Inv, Typed, Depth

\* A step that changes one local variable, and no lock.
LEMMA LoadInv ==
  ASSUME Inv, NEW t \in Threads, NEW p \in PlainPCs \ {"idle"}, NEW f, NEW v,
         pc[t] \in PlainPCs, Goto(t, p), Put(t, f, v), SameLocks,
         UNCHANGED <<scenario, dirs, dir, todo, acked, races>>,
         todo[t] # <<>>, HoldsAt(p) <=> HoldsAt(pc[t]), p = "g_lock" => INPLACE,
         p \in NoTargetPCs \/ pc[t] \notin NoTargetPCs \/ f = "target",
         \/ f \in {"x", "check"} /\ v \in Entries(Dir)
         \/ f = "target" /\ (\E x \in Entries(Dir) : v = Dir.segment[x]) /\ ~HoldsAt(p)
         \/ f = "must" /\ v \in BOOLEAN
         \/ f = "slot" /\ v \in Slots
         \/ f = "result" /\ v \in Values \cup {NONE}
  PROVE  Inv'
<1>1. Typed /\ DirsOK /\ loc[t] \in Locals /\ todo[t] \in Seq(Calls)
      /\ todo = [todo EXCEPT ![t] = todo[t]]
  BY Facts DEF Inv
<1>2. /\ acked \in SUBSET Keys /\ races \in SUBSET AllRaces
      /\ INPLACE => "stray" \notin races
  BY Facts
<1>3. PICK l : l = [loc[t] EXCEPT ![f] = v]
  OBVIOUS
<1>4. l \in Locals /\ Acts(t, p, l)
  <2>1. f \in {"x", "check"} => v \in Nat
    <3>1. Pow2[Dir.depth] \in Nat
      BY <1>1, DirFacts
    <3> QED
      BY <3>1 DEF Entries
  <2>2. f = "target" => v \in Nat
    <3>1. \A i \in Pointers : i \in Nat
      BY DEF Pointers
    <3> QED
      BY <1>1, <3>1, DirFacts
  <2>3. \/ f \in {"x", "target", "check", "val"} /\ v \in Nat
        \/ f = "slot" /\ v \in Slots
        \/ f = "must" /\ v \in BOOLEAN
        \/ f = "result" /\ v \in Values \cup {NONE}
    BY <2>1, <2>2
  <2> QED
    BY <1>1, <1>3, <2>3, PutLocal
<1>5. /\ f # "target" => l.target = loc[t].target
      /\ f = "target" => l.target = v
      /\ l.x = IF f = "x" THEN v ELSE loc[t].x
      /\ l.check = IF f = "check" THEN v ELSE loc[t].check
      /\ l.depth = loc[t].depth
  <2>1. f # "depth"
    OBVIOUS
  <2>2. PICK m \in Locals : m = loc[t]
    BY <1>1
  <2>3. l = [m EXCEPT ![f] = v]
    BY <1>3, <2>2
  <2>4. (f # "target" => l.target = m.target) /\ (f = "target" => l.target = v)
    BY <2>3 DEF Locals
  <2>5. (f # "x" => l.x = m.x) /\ (f = "x" => l.x = v)
    BY <2>3 DEF Locals
  <2>6. (f # "check" => l.check = m.check) /\ (f = "check" => l.check = v)
    BY <2>3 DEF Locals
  <2>7. l.depth = m.depth
    BY <2>1, <2>3, PutOthers
  <2> QED
    BY <2>2, <2>4, <2>5, <2>6, <2>7
<1>6. LocalAt(p, l, todo[t])
  <2>1. l.x \in Entries(Dir) /\ l.check \in Entries(Dir) /\ l.depth \in 0 .. Dir.depth
    BY <1>5, LocalSame
  <2>2. \/ l.target = loc[t].target /\ (p \in NoTargetPCs \/ pc[t] \notin NoTargetPCs)
        \/ \E x \in Entries(Dir) : l.target = Dir.segment[x]
    BY <1>5
  <2>3. p \in NoTargetPCs \cup InsertPCs \cup GetPCs
             \cup {"i_lock", "g_lock", "i_suspend", "i_wait", "i_recheck", "i_split"}
    BY DEF PlainPCs
  <2> QED
    BY <1>4, <2>1, <2>2, <2>3, LocalMove
<1>7. /\ p \in PCs /\ p # "i_wait" /\ p \notin SplitPCs /\ p \notin DirPCs
      /\ pc[t] # "i_wait" /\ pc[t] \notin SplitPCs /\ pc[t] \notin DirPCs
      /\ RolePCs(p) <=> HoldsAt(p)
  BY PlainPC
<1>8. RolePCs(p) => l.target = loc[t].target
  BY <1>5, <1>7
<1>9. acked' \in SUBSET Keys /\ races' \in SUBSET AllRaces /\ races \subseteq races'
      /\ (INPLACE => "stray" \notin races') /\ todo' = [todo EXCEPT ![t] = todo[t]]
  BY <1>1, <1>2
<1> QED
  BY <1>1, <1>4, <1>6, <1>7, <1>8, <1>9, QuietStep DEF SameLocks

\* A step that changes no local variable, and no lock.
LEMMA GotoInv ==
  ASSUME Inv, NEW t \in Threads, NEW p \in PlainPCs \ {"idle"},
         pc[t] \in PlainPCs, Goto(t, p), SameLocks,
         UNCHANGED <<scenario, dirs, dir, loc, todo, acked>>,
         races \subseteq races', races' \in SUBSET AllRaces, INPLACE => "stray" \notin races',
         todo[t] # <<>>, HoldsAt(p) <=> HoldsAt(pc[t]), p = "g_lock" => INPLACE,
         p \in NoTargetPCs \/ pc[t] \notin NoTargetPCs
  PROVE  Inv'
<1>1. Typed /\ DirsOK /\ loc[t] \in Locals /\ todo[t] \in Seq(Calls)
      /\ todo = [todo EXCEPT ![t] = todo[t]]
  BY Facts DEF Inv
<1>2. PICK l : l = loc[t]
  OBVIOUS
<1>3. l \in Locals /\ Acts(t, p, l)
  BY <1>1, <1>2 DEF Acts, Goto, Typed
<1>4. LocalAt(p, l, todo[t])
  <2>1. l.x \in Entries(Dir) /\ l.check \in Entries(Dir) /\ l.depth \in 0 .. Dir.depth
    BY <1>2, LocalSame
  <2>2. l.target = loc[t].target /\ (p \in NoTargetPCs \/ pc[t] \notin NoTargetPCs)
    BY <1>2
  <2>3. p \in NoTargetPCs \cup InsertPCs \cup GetPCs
             \cup {"i_lock", "g_lock", "i_suspend", "i_wait", "i_recheck", "i_split"}
    BY DEF PlainPCs
  <2> QED
    BY <1>3, <2>1, <2>2, <2>3, LocalMove
<1>5. /\ p \in PCs /\ p # "i_wait" /\ p \notin SplitPCs /\ p \notin DirPCs
      /\ pc[t] # "i_wait" /\ pc[t] \notin SplitPCs /\ pc[t] \notin DirPCs
  BY PlainPC
<1>6. acked' \in SUBSET Keys /\ todo' = [todo EXCEPT ![t] = todo[t]]
  BY <1>1, Facts
<1> QED
  BY <1>1, <1>2, <1>3, <1>4, <1>5, <1>6, QuietStep DEF SameLocks

\* A probe loop ends at one of its turns.
LEMMA FirstInRange ==
  ASSUME NEW P
  PROVE  FirstIn(P) = -1 \/ FirstIn(P) \in 0 .. Probe - 1
<1> DEFINE T == {i \in 0 .. Probe - 1 : P[i]}
<1>1. Probe \in Nat
  BY CCEHAssumption
<1>2. CASE T = {}
  BY <1>2 DEF FirstIn
<1>3. CASE T # {}
  <2>1. T \in SUBSET Nat
    BY <1>1
  <2> HIDE DEF T
  <2>2. PICK i \in T : \A j \in T : i <= j
    BY <1>3, <2>1, Least
  <2> USE DEF T
  <2>3. \A j \in 0 .. i - 1 : ~P[j]
    BY <1>1, <2>2
  <2>4. \E k \in 0 .. Probe - 1 : P[k] /\ \A j \in 0 .. k - 1 : ~P[j]
    BY <2>2, <2>3
  <2>5. FirstIn(P) = CHOOSE k \in 0 .. Probe - 1 : P[k] /\ \A j \in 0 .. k - 1 : ~P[j]
    BY <2>2 DEF FirstIn
  <2> QED
    BY <2>4, <2>5
<1> QED
  BY <1>2, <1>3

\* Windows wrap around inside the segment.
LEMMA WindowSlot ==
  ASSUME NEW idx \in Slots, NEW i \in 0 .. Probe - 1
  PROVE  Window(idx, i) \in Slots
<1>1. NumSlot \in Nat \ {0} /\ Probe \in Nat /\ idx \in Nat
  BY CCEHAssumption DEF Slots
<1>2. idx + i \in Nat
  BY <1>1
<1> QED
  BY <1>1, <1>2 DEF Window, Slots

\* What a probe finds is a slot.
LEMMA ProbeSlot ==
  ASSUME NEW k \in KeyWords, NEW S, ProbeFor(k, S) # -1
  PROVE  ProbeFor(k, S) \in Slots
<1> DEFINE f == FirstIn([i \in 0 .. Probe - 1 |-> Window(FIdx[k], i) \in S])
           g == FirstIn([i \in 0 .. Probe - 1 |-> Window(SIdx[k], i) \in S])
<1>1. FIdx[k] \in Slots /\ SIdx[k] \in Slots
  BY CCEHAssumption
<1>2. (f = -1 \/ f \in 0 .. Probe - 1) /\ (g = -1 \/ g \in 0 .. Probe - 1)
  BY FirstInRange
<1>3. ProbeFor(k, S) = IF f # -1 THEN Window(FIdx[k], f)
                       ELSE IF g # -1 THEN Window(SIdx[k], g) ELSE -1
  BY DEF ProbeFor
<1> HIDE DEF f, g
<1> QED
  BY <1>1, <1>2, <1>3, WindowSlot

\* A store into a slot.
LEMMA SlotStore ==
  ASSUME Inv, NEW k \in Pointers, NEW i \in Slots, NEW w \in KeyWords, NEW v \in Values \cup {NONE},
         \/ segs' = [segs EXCEPT ![k].bucket[i].key = w]
         \/ segs' = [segs EXCEPT ![k].bucket[i].value = v]
  PROVE  SameLocks
<1>1. Typed /\ segs[k] \in Segment /\ segs \in Seq(Segment)
  BY SegFacts DEF Inv, Typed
<1>2. segs[k].bucket \in [Slots -> Entry] /\ segs[k].bucket[i] \in Entry
  BY <1>1 DEF Segment
<1>3. [segs[k].bucket[i] EXCEPT !.key = w] \in Entry /\ [segs[k].bucket[i] EXCEPT !.value = v] \in Entry
  BY <1>2 DEF Entry
<1>4. PICK e \in Entry : segs' = [segs EXCEPT ![k] = [segs[k] EXCEPT !.bucket = [segs[k].bucket EXCEPT ![i] = e]]]
  BY <1>3
<1>5. PICK b \in [Slots -> Entry] : b = [segs[k].bucket EXCEPT ![i] = e]
  BY <1>2
<1>6. PICK d : d = [segs[k] EXCEPT !.bucket = b]
  OBVIOUS
<1>7. d \in Segment /\ d.sema = segs[k].sema /\ d.local_depth = segs[k].local_depth
  BY <1>1, <1>6 DEF Segment
<1>8. segs' = [segs EXCEPT ![k] = d]
  BY <1>4, <1>5, <1>6
<1>9. segs' \in Seq(Segment) /\ Len(segs') = Len(segs)
  BY <1>1, <1>7, <1>8 DEF Pointers
<1>10. segs'[k] = d /\ \A j \in Pointers \ {k} : segs'[j] = segs[j]
  BY <1>1, <1>8 DEF Pointers
<1> QED
  BY <1>7, <1>9, <1>10 DEF SameLocks, Depth

\* The steps up to the first store of an Insert.
LEMMA PlainInsert ==
  ASSUME Inv, NEW t \in Threads, scenario' = scenario,
         StartInsert(t) \/ ReadDepth(t) \/ ReadTarget(t) \/ ReadCheck(t)
  PROVE  Inv'
<1>1. /\ LocalAt(pc[t], loc[t], todo[t]) /\ races \in SUBSET AllRaces
      /\ INPLACE => "stray" \notin races
      /\ todo[t] # <<>> => Prefix(Key(t), Dir.depth) \in Entries(Dir)
      /\ pc[t] # "idle" => todo[t] # <<>>
  BY Facts DEF LocalAt
<1>2. segs' = segs => SameLocks
  BY SameSegs
<1>3. loc[t].x \in Entries(Dir)
  BY LocalSame
<1> USE DEF PlainPCs, NoTargetPCs, InsertPCs, GetPCs, HoldsAt
<1>4. CASE StartInsert(t)
  <2> USE <1>4 DEF StartInsert
  <2>1. races \subseteq races'
    OBVIOUS
  <2> QED
    BY <1>1, <1>2, <2>1, GotoInv
<1>5. CASE ReadDepth(t)
  BY <1>1, <1>2, <1>5, LoadInv DEF ReadDepth, Read
<1>6. CASE ReadTarget(t)
  BY <1>1, <1>2, <1>3, <1>6, LoadInv DEF ReadTarget, Read
<1>7. CASE ReadCheck(t)
  BY <1>1, <1>2, <1>3, <1>7, LoadInv DEF ReadCheck, Read
<1> QED
  BY <1>4, <1>5, <1>6, <1>7

\* The stores of an Insert.
LEMMA StoreInsert ==
  ASSUME Inv, NEW t \in Threads, scenario' = scenario,
         ClaimSlot(t) \/ StoreValue(t) \/ StoreKey(t)
  PROVE  Inv'
<1>0. pc[t] \in {"i_probe", "i_value", "i_key"}
  BY DEF ClaimSlot, StoreValue, StoreKey
<1>1. pc[t] # "idle" /\ pc[t] \notin NoTargetPCs /\ pc[t] \in PlainPCs /\ HoldsAt(pc[t])
  BY <1>0 DEF NoTargetPCs, PlainPCs, InsertPCs, HoldsAt
<1>2. /\ todo[t] # <<>> /\ loc[t].target \in Pointers /\ loc[t] \in Locals
      /\ Key(t) \in KeyWords /\ Call(t).value \in Values
      /\ races \in SUBSET AllRaces /\ races \subseteq races
      /\ INPLACE => "stray" \notin races
  <2>1. todo[t] # <<>> /\ loc[t].target \in Pointers /\ loc[t] \in Locals
    BY <1>1, Facts DEF LocalAt
  <2>2. Key(t) \in Keys /\ Call(t) \in Calls
    BY <2>1, Facts
  <2> QED
    BY <2>1, <2>2, Facts DEF KeyWords, Calls
<1>3. loc[t].slot \in Slots
  BY <1>2 DEF Locals
<1>4. /\ {"i_value", "i_key", "i_return"} \subseteq PlainPCs \ {"idle"}
      /\ HoldsAt("i_value") /\ HoldsAt("i_key") /\ HoldsAt("i_return")
  BY DEF PlainPCs, NoTargetPCs, InsertPCs, HoldsAt
<1>5. CASE ClaimSlot(t)
  <2>1. PICK i \in Slots : /\ Goto(t, "i_value") /\ Put(t, "slot", i)
                           /\ segs' = [segs EXCEPT ![loc[t].target].bucket[i].key = SENTINEL]
                           /\ UNCHANGED <<dirs, dir, todo, acked, races>>
    BY <1>2, <1>5, ProbeSlot DEF ClaimSlot
  <2>2. SENTINEL \in KeyWords /\ NONE \in Values \cup {NONE}
    BY DEF KeyWords
  <2>3. SameLocks
    BY <1>2, <2>1, <2>2, SlotStore
  <2> QED
    BY <1>1, <1>2, <1>4, <2>1, <2>3, LoadInv
<1>6. CASE StoreValue(t)
  <2> USE <1>6 DEF StoreValue
  <2>1. SENTINEL \in KeyWords
    BY DEF KeyWords
  <2>2. SameLocks
    BY <1>2, <1>3, <2>1, SlotStore
  <2> QED
    BY <1>1, <1>2, <1>4, <2>2, GotoInv
<1>7. CASE StoreKey(t)
  <2> USE <1>7 DEF StoreKey
  <2>1. NONE \in Values \cup {NONE}
    OBVIOUS
  <2>2. SameLocks
    BY <1>2, <1>3, <2>1, SlotStore
  <2> QED
    BY <1>1, <1>2, <1>4, <2>2, GotoInv
<1> QED
  BY <1>5, <1>6, <1>7

\* The steps of a Get between its lock operations.
LEMMA PlainGet ==
  ASSUME Inv, NEW t \in Threads, scenario' = scenario,
         StartGet(t) \/ GetSpin(t) \/ GetDepth(t) \/ GetTarget(t) \/ GetCheck(t) \/ GetScan(t) \/ GetValue(t)
  PROVE  Inv'
<1>1. /\ LocalAt(pc[t], loc[t], todo[t]) /\ races \in SUBSET AllRaces /\ races \subseteq races
      /\ INPLACE => "stray" \notin races
      /\ todo[t] # <<>> => Prefix(Key(t), Dir.depth) \in Entries(Dir) /\ Key(t) \in KeyWords
      /\ pc[t] # "idle" => todo[t] # <<>>
      /\ pc[t] \notin NoTargetPCs => Cur(t) \in Segment
      /\ loc[t].slot \in Slots
  BY Facts DEF LocalAt, KeyWords, Locals
<1>2. segs' = segs => SameLocks
  BY SameSegs
<1>3. loc[t].x \in Entries(Dir)
  BY LocalSame
<1> USE DEF PlainPCs, NoTargetPCs, InsertPCs, GetPCs, HoldsAt
<1>4. CASE StartGet(t)
  <2>1. (Key(t) \in acked) \in BOOLEAN
    OBVIOUS
  <2> QED
    BY <1>1, <1>2, <1>4, <2>1, LoadInv DEF StartGet, Read
<1>5. CASE GetSpin(t)
  BY <1>1, <1>2, <1>5, GotoInv DEF GetSpin
<1>6. CASE GetDepth(t)
  BY <1>1, <1>2, <1>6, LoadInv DEF GetDepth, Read
<1>7. CASE GetTarget(t)
  <2>1. CASE INPLACE
    BY <1>1, <1>2, <1>3, <1>7, <2>1, LoadInv DEF GetTarget, Read
  <2>2. CASE ~INPLACE
    BY <1>1, <1>2, <1>3, <1>7, <2>2, LoadInv DEF GetTarget, Read
  <2> QED
    BY <2>1, <2>2
<1>8. CASE GetCheck(t)
  BY <1>1, <1>2, <1>8, LoadInv DEF GetCheck, Read
<1>9. CASE GetScan(t)
  <2> DEFINE i == ProbeFor(Key(t), {j \in Slots : Cur(t).bucket[j].key = Key(t)})
  <2>1. /\ pc[t] = "g_scan" /\ UNCHANGED <<segs, dirs, dir, todo, acked, races>>
        /\ \/ i # -1 /\ Goto(t, "g_value") /\ Put(t, "slot", i)
           \/ i = -1 /\ Goto(t, "g_return") /\ UNCHANGED loc
    BY <1>9 DEF GetScan
  <2>2. i # -1 => i \in Slots
    BY <1>1, <2>1, ProbeSlot
  <2> HIDE DEF i
  <2>3. CASE i # -1 /\ Goto(t, "g_value") /\ Put(t, "slot", i)
    BY <1>1, <1>2, <2>1, <2>2, <2>3, LoadInv
  <2>4. CASE Goto(t, "g_return") /\ UNCHANGED loc
    BY <1>1, <1>2, <2>1, <2>4, GotoInv
  <2> QED
    BY <2>1, <2>3, <2>4
<1>10. CASE GetValue(t)
  <2>1. pc[t] = "g_value"
    BY <1>10 DEF GetValue, Read
  <2>2. Cur(t).bucket[loc[t].slot].value \in Values \cup {NONE}
    BY <1>1, <2>1 DEF Segment, Entry
  <2> QED
    BY <1>1, <1>2, <1>10, <2>2, LoadInv DEF GetValue, Read
<1> QED
  BY <1>4, <1>5, <1>6, <1>7, <1>8, <1>9, <1>10

-----------------------------------------------------------------------------
(* The lock operations on segments                                          *)

\* A store into a semaphore.
StoresSema(k, n) == segs' = [segs EXCEPT ![k].sema = n]

\* It leaves every depth and the other semaphores alone.
LEMMA SemaStore ==
  ASSUME Inv, NEW k \in Pointers, NEW n \in Int, StoresSema(k, n)
  PROVE  /\ segs' \in Seq(Segment) /\ Len(segs') = Len(segs) /\ segs'[k].sema = n
         /\ \A i \in Pointers : Depth(i)' = Depth(i)
         /\ \A i \in Pointers \ {k} : segs'[i].sema = segs[i].sema
<1>1. segs[k] \in Segment /\ segs \in Seq(Segment)
  BY SegFacts DEF Inv, Typed
<1>2. PICK d : d = [segs[k] EXCEPT !.sema = n]
  OBVIOUS
<1>3. d \in Segment /\ d.sema = n /\ d.local_depth = segs[k].local_depth
  BY <1>1, <1>2 DEF Segment
<1>4. segs' = [segs EXCEPT ![k] = d]
  BY <1>2 DEF StoresSema
<1>5. segs' \in Seq(Segment) /\ Len(segs') = Len(segs)
  BY <1>1, <1>3, <1>4 DEF Pointers
<1>6. segs'[k] = d /\ \A j \in Pointers \ {k} : segs'[j] = segs[j]
  BY <1>1, <1>4 DEF Pointers
<1> QED
  BY <1>3, <1>5, <1>6 DEF Depth

\* The locals of an attempt or a call that is over.
LEMMA FreshLocals ==
  ASSUME Inv, NEW t \in Threads, NEW p \in NoTargetPCs, NEW l, NEW q, p # "idle" => q # <<>>,
         l = NoLocals \/ l = [NoLocals EXCEPT !.must = loc[t].must]
  PROVE  l \in Locals /\ LocalAt(p, l, q)
<1>1. Typed /\ DirsOK /\ loc[t] \in Locals
  BY Facts DEF Inv
<1>2. 0 \in Slots /\ 0 \in 0 .. HashBits /\ loc[t].must \in BOOLEAN
  BY <1>1, CCEHAssumption DEF Slots, Locals
<1>3. NoLocals \in Locals
  BY <1>2 DEF NoLocals, Locals
<1>4. l \in Locals /\ l.target = 0 /\ l.x = 0 /\ l.check = 0 /\ l.depth = 0
  <2>1. CASE l = NoLocals
    BY <1>3, <2>1 DEF NoLocals
  <2>2. CASE l = [NoLocals EXCEPT !.must = loc[t].must]
    <3>1. PICK b \in BOOLEAN : b = loc[t].must
      BY <1>2
    <3>2. l = [NoLocals EXCEPT !.must = b]
      BY <2>2, <3>1
    <3>3. l \in Locals
      BY <1>3, <3>2 DEF Locals
    <3>4. l.target = 0 /\ l.x = 0 /\ l.check = 0 /\ l.depth = 0
      BY <3>2 DEF NoLocals
    <3> QED
      BY <3>3, <3>4
  <2> QED
    BY <2>1, <2>2
<1>5. Dir.depth \in Nat /\ Pow2[Dir.depth] \in Nat \ {0} /\ Len(segs) \in Nat
  BY <1>1, DirFacts DEF Typed
<1>6. p \notin SharePCs /\ p # "i_finish" /\ p # "g_lock"
  BY DEF NoTargetPCs, SharePCs
<1> QED
  BY <1>4, <1>5, <1>6 DEF LocalAt, SharePCs

\* goto RETRY, and the end of a call: no lock is held any more.
LEMMA FreshInv ==
  ASSUME Inv, NEW t \in Threads, NEW p \in NoTargetPCs, NEW l, NEW q \in Seq(Calls),
         Acts(t, p, l), l = NoLocals \/ l = [NoLocals EXCEPT !.must = loc[t].must],
         p # "idle" => q # <<>>, todo' = [todo EXCEPT ![t] = q],
         UNCHANGED <<dirs, dir>>, acked' \in SUBSET Keys,
         races \subseteq races', races' \in SUBSET AllRaces, INPLACE => "stray" \notin races',
         pc[t] \notin DirPCs,
         NEW k \in Pointers, k = loc[t].target,
         \/ segs' = segs /\ ~RolePCs(pc[t])
         \/ \E n \in Int : StoresSema(k, n) /\ (segs'[k].sema = n /\ "stray" \notin races' => SegLock(k)')
  PROVE  Inv'
<1>1. l \in Locals /\ LocalAt(p, l, q)
  BY FreshLocals
<1>2. p \in PlainPCs /\ ~HoldsAt(p)
  BY DEF PlainPCs, NoTargetPCs, HoldsAt, InsertPCs, GetPCs
<1>3. p \in PCs /\ p # "i_wait" /\ p \notin SplitPCs /\ p \notin DirPCs /\ ~RolePCs(p)
  BY <1>2, PlainPC
<1>4. CASE segs' = segs /\ ~RolePCs(pc[t])
  <2>1. SameLocks
    BY <1>4, SameSegs
  <2> QED
    BY <1>1, <1>2, <1>3, <1>4, <2>1, QuietStep DEF SameLocks, RolePCs
<1>5. ASSUME NEW n \in Int, StoresSema(k, n), segs'[k].sema = n /\ "stray" \notin races' => SegLock(k)'
      PROVE  Inv'
  <2>1. /\ segs' \in Seq(Segment) /\ Len(segs') = Len(segs) /\ segs'[k].sema = n
        /\ \A i \in Pointers : Depth(i)' = Depth(i)
        /\ \A i \in Pointers \ {k} : segs'[i].sema = segs[i].sema
    BY <1>5, SemaStore
  <2>2. \A j \in Pointers : j = loc[t].target /\ "stray" \notin races' => SegLock(j)'
    BY <1>5, <2>1
  <2>3. \A i \in Pointers \ {loc[t].target} : segs'[i].sema = segs[i].sema
    BY <2>1
  <2> QED
    BY <1>1, <1>3, <2>1, <2>2, <2>3, Step
<1> QED
  BY <1>4, <1>5

\* lock().
LEMMA TryLockInv ==
  ASSUME Inv, NEW t \in Threads, scenario' = scenario, LockTarget(t) \/ GetLock(t)
  PROVE  Inv'
<1>1. PICK from \in {"i_lock", "g_lock"}, to \in {"i_check", "g_check"},
           retry \in {"i_depth", "g_spin"} :
        /\ TryLock(t, from, to, retry)
        /\ (from = "i_lock" /\ to = "i_check") \/ (from = "g_lock" /\ to = "g_check")
  BY DEF LockTarget, GetLock
<1>2. pc[t] = from /\ UNCHANGED <<dirs, dir, todo, acked, races>>
  BY <1>1 DEF TryLock
<1>3. /\ loc[t] \in Locals /\ LocalAt(pc[t], loc[t], todo[t]) /\ loc[t].target \in Pointers
      /\ todo[t] # <<>> /\ todo[t] \in Seq(Calls) /\ todo' = [todo EXCEPT ![t] = todo[t]]
      /\ acked' \in SUBSET Keys /\ races \subseteq races' /\ races' \in SUBSET AllRaces
      /\ INPLACE => "stray" \notin races'
  BY <1>2, Facts DEF NoTargetPCs, LocalAt
<1>4. PICK k \in Pointers : k = loc[t].target
  BY <1>3
<1>5. ~HoldsAt(from) /\ ~RolePCs(from) /\ from \notin DirPCs /\ from \notin SplitPCs
  BY DEF HoldsAt, InsertPCs, GetPCs, RolePCs, SplitPCs, DirPCs
<1>6. CASE Cur(t).sema < 0 /\ Retry(t, retry) /\ UNCHANGED segs
  <2>1. PICK l : l = [NoLocals EXCEPT !.must = loc[t].must]
    OBVIOUS
  <2>2. Acts(t, retry, l) /\ retry \in NoTargetPCs
    BY <1>6, <2>1 DEF Acts, Retry, Goto, NoTargetPCs
  <2> QED
    BY <1>2, <1>3, <1>4, <1>5, <1>6, <2>1, <2>2, FreshInv
<1>7. CASE Cur(t).sema >= 0 /\ Goto(t, to) /\ SetSema(t, Cur(t).sema + 1) /\ UNCHANGED loc
  <2>1. PICK l \in Locals : l = loc[t]
    BY <1>3
  <2>2. Acts(t, to, l)
    BY <1>7, <2>1 DEF Acts, Goto, Inv, Typed
  <2>3. HoldsAt(to) /\ to \in PlainPCs /\ to # "idle" /\ to \notin DirPCs /\ to \in PCs
    BY <1>1, <1>2, <1>3 DEF HoldsAt, InsertPCs, GetPCs, PlainPCs, DirPCs, PCs, LocalAt
  <2>4. PICK n \in Int : n = segs[k].sema + 1 /\ segs[k].sema >= 0
    <3>1. segs[k].sema \in Int
      BY SegFacts DEF Inv
    <3>2. segs[k].sema >= 0
      BY <1>4, <1>7 DEF Cur
    <3> QED
      BY <3>1, <3>2
  <2>5. StoresSema(k, n)
    BY <1>4, <1>7, <2>4 DEF SetSema, StoresSema, Cur
  <2>6. LocalAt(to, l, todo[t])
    <3>1. l.x \in Entries(Dir) /\ l.check \in Entries(Dir) /\ l.depth \in 0 .. Dir.depth
      BY <2>1, LocalSame
    <3>2. l.target = loc[t].target /\ pc[t] \notin NoTargetPCs /\ to # "g_lock"
      BY <1>2, <2>1 DEF NoTargetPCs
    <3>3. to \in NoTargetPCs \cup InsertPCs \cup GetPCs
             \cup {"i_lock", "g_lock", "i_suspend", "i_wait", "i_recheck", "i_split"}
      BY DEF InsertPCs, GetPCs
    <3> QED
      BY <1>3, <2>3, <3>1, <3>2, <3>3, LocalMove
  <2>7. /\ segs' \in Seq(Segment) /\ Len(segs') = Len(segs) /\ segs'[k].sema = n
        /\ \A i \in Pointers : Depth(i)' = Depth(i)
        /\ \A i \in Pointers \ {k} : segs'[i].sema = segs[i].sema
    BY <2>5, SemaStore
  <2>8. "stray" \notin races' => SegLock(k)'
    BY <1>2, <1>3, <1>4, <1>5, <2>1, <2>2, <2>3, <2>4, <2>7, LockEnter
  <2>9. \A j \in Pointers : j = loc[t].target /\ "stray" \notin races' => SegLock(j)'
    BY <1>4, <2>8
  <2>10. /\ \A i \in Pointers \ {loc[t].target} : segs'[i].sema = segs[i].sema
         /\ RolePCs(to) => l.target = loc[t].target /\ loc[t].target \in Pointers
         /\ pc[t] \notin DirPCs
    BY <1>2, <1>4, <1>5, <2>1, <2>7
  <2> QED
    BY <1>2, <1>3, <2>2, <2>3, <2>6, <2>7, <2>9, <2>10, Step
<1> QED
  BY <1>1, <1>6, <1>7 DEF TryLock

\* unlock() at the end of an attempt or of a call: by a thread that holds the
\* lock, or by one that does not while nobody counts.
LEMMA UnlockInv ==
  ASSUME Inv, NEW t \in Threads, NEW p \in NoTargetPCs, NEW l, NEW q \in Seq(Calls),
         Acts(t, p, l), l = NoLocals \/ l = [NoLocals EXCEPT !.must = loc[t].must],
         p # "idle" => q # <<>>, todo' = [todo EXCEPT ![t] = q],
         UNCHANGED <<dirs, dir>>, acked' \in SUBSET Keys,
         races \subseteq races', races' \in SUBSET AllRaces, INPLACE => "stray" \notin races',
         pc[t] \in InsertPCs \cup GetPCs,
         SetSema(t, Cur(t).sema - 1),
         HoldsAt(pc[t]) \/ ("stray" \notin races' => ~Stray(t))
  PROVE  Inv'
<1>1. Typed /\ loc[t].target \in Pointers
  <2>1. pc[t] \notin NoTargetPCs
    BY DEF InsertPCs, GetPCs, NoTargetPCs
  <2> QED
    BY <2>1, Facts DEF Inv
<1>2. PICK k \in Pointers : k = loc[t].target
  BY <1>1
<1>3. PICK n \in Int : n = segs[k].sema - 1
  <2>1. segs[k].sema \in Int
    BY <1>1, SegFacts
  <2> QED
    BY <2>1
<1>4. StoresSema(k, n)
  BY <1>2, <1>3 DEF SetSema, StoresSema, Cur
<1>5. pc[t] \notin DirPCs /\ pc[t] \notin SplitPCs /\ pc[t] # "i_wait"
  BY DEF InsertPCs, GetPCs, SplitPCs, DirPCs
<1>6. l \in Locals /\ p \in PCs /\ ~HoldsAt(p) /\ p # "i_wait" /\ p \notin SplitPCs
  <2>1. l \in Locals /\ LocalAt(p, l, q)
    BY FreshLocals
  <2> QED
    BY <2>1 DEF HoldsAt, InsertPCs, GetPCs, SplitPCs, NoTargetPCs, PCs
<1>7. ASSUME segs'[k].sema = n, "stray" \notin races' PROVE SegLock(k)'
  <2>0. segs'[k].sema = segs[k].sema - 1
    BY <1>3, <1>7
  <2>1. CASE HoldsAt(pc[t])
    BY <1>2, <1>6, <1>7, <2>0, <2>1, LockLeave
  <2>2. CASE ~HoldsAt(pc[t])
    <3>1. ~Stray(t) /\ ~Holding(t, loc[t].target)
      BY <1>7, <2>2 DEF Holding, HoldsAt, InsertPCs, GetPCs
    <3>2. ~(segs[k].sema >= 0) /\ Waiters(k) = {}
      BY <1>2, <3>1 DEF Stray, Cur, Waiters
    <3>3. segs[k].sema < 0
      <4>1. segs[k].sema \in Int
        BY <1>1, SegFacts
      <4> QED
        BY <3>2, <4>1
    <3> QED
      BY <1>2, <1>5, <1>6, <1>7, <2>0, <2>2, <3>2, <3>3, LockDecay
  <2> QED
    BY <2>1, <2>2
<1>8. \E m \in Int : StoresSema(k, m) /\ (segs'[k].sema = m /\ "stray" \notin races' => SegLock(k)')
  BY <1>4, <1>7
<1> QED
  BY <1>2, <1>5, <1>8, FreshInv

\* The check of the target.
LEMMA CheckInv ==
  ASSUME Inv, NEW t \in Threads, scenario' = scenario, CompareTarget(t) \/ GetCompare(t)
  PROVE  Inv'
<1>1. PICK from \in {"i_compare", "g_compare"}, to \in {"i_probe", "g_scan"},
           retry \in {"i_depth", "g_spin"}, unlocks \in BOOLEAN :
        /\ CheckTarget(t, from, to, retry, unlocks)
        /\ (from = "i_compare" /\ to = "i_probe" /\ unlocks = TRUE)
           \/ (from = "g_compare" /\ to = "g_scan" /\ (INPLACE => unlocks = TRUE))
  <2>1. CASE CompareTarget(t)
    BY <2>1 DEF CompareTarget
  <2>2. CASE GetCompare(t)
    <3>1. PICK b \in BOOLEAN : b = (INPLACE \/ ~MSB)
      OBVIOUS
    <3>2. CheckTarget(t, "g_compare", "g_scan", "g_spin", b)
      BY <2>2, <3>1 DEF GetCompare
    <3> QED
      BY <3>1, <3>2
  <2> QED
    BY <2>1, <2>2
<1>2. pc[t] = from /\ UNCHANGED <<dirs, dir, todo, acked>>
  BY <1>1 DEF CheckTarget
<1>3. /\ loc[t] \in Locals /\ loc[t].target \in Pointers
      /\ todo[t] # <<>> /\ todo[t] \in Seq(Calls) /\ todo' = [todo EXCEPT ![t] = todo[t]]
      /\ acked' \in SUBSET Keys /\ races \in SUBSET AllRaces /\ (INPLACE => "stray" \notin races)
  BY <1>2, Facts DEF NoTargetPCs, LocalAt
<1>4. PICK k \in Pointers : k = loc[t].target
  BY <1>3
<1>5. /\ from \in PlainPCs /\ from \notin DirPCs /\ from \notin NoTargetPCs
      /\ from \in InsertPCs \cup GetPCs
      /\ to \in PlainPCs \ {"idle"} /\ (HoldsAt(to) <=> HoldsAt(from)) /\ to # "g_lock"
      /\ HoldsAt(from) <=> (from = "i_compare" \/ INPLACE)
      /\ retry \in NoTargetPCs
  BY <1>1 DEF HoldsAt, InsertPCs, GetPCs, PlainPCs, NoTargetPCs, DirPCs
<1>6. CASE loc[t].target = Dir.segment[loc[t].check]
  <2>1. /\ Goto(t, to) /\ UNCHANGED <<segs, loc>>
        /\ races' = races \cup (IF loc[t].target = Home(Key(t)) THEN {} ELSE {"torn"})
    BY <1>1, <1>6 DEF CheckTarget
  <2>2. races \subseteq races' /\ races' \in SUBSET AllRaces /\ (INPLACE => "stray" \notin races')
    BY <1>3, <2>1 DEF AllRaces
  <2>3. SameLocks
    BY <2>1, SameSegs
  <2> QED
    BY <1>2, <1>3, <1>5, <2>1, <2>2, <2>3, GotoInv
<1>7. CASE loc[t].target # Dir.segment[loc[t].check]
  <2>1. /\ IF unlocks THEN SetSema(t, Cur(t).sema - 1) ELSE UNCHANGED segs
        /\ races' = races \cup (IF unlocks /\ Stray(t) THEN {"stray"} ELSE {})
        /\ Retry(t, retry)
    BY <1>1, <1>7 DEF CheckTarget
  <2>2. PICK l : l = [NoLocals EXCEPT !.must = loc[t].must]
    OBVIOUS
  <2>3. Acts(t, retry, l)
    BY <2>1, <2>2 DEF Acts, Retry, Goto
  <2>4. HoldsAt(from) => ~Stray(t)
    BY <1>2 DEF Stray, Holding, HoldsAt, InsertPCs, GetPCs
  <2>5. races \subseteq races' /\ races' \in SUBSET AllRaces /\ (INPLACE => "stray" \notin races')
    BY <1>3, <1>5, <2>1, <2>4 DEF AllRaces
  <2>6. CASE unlocks = TRUE
    <3>1. SetSema(t, Cur(t).sema - 1) /\ ("stray" \notin races' => ~Stray(t))
      BY <2>1, <2>6
    <3> QED
      BY <1>2, <1>3, <1>5, <2>2, <2>3, <2>5, <3>1, UnlockInv
  <2>7. CASE unlocks = FALSE
    <3>1. segs' = segs /\ ~RolePCs(pc[t])
      BY <1>1, <1>2, <1>5, <2>1, <2>7 DEF RolePCs, SplitPCs
    <3> QED
      BY <1>2, <1>3, <1>4, <1>5, <2>2, <2>3, <2>5, <3>1, FreshInv
  <2> QED
    BY <2>6, <2>7
<1> QED
  BY <1>6, <1>7

\* The ends of the calls.
LEMMA ReturnInv ==
  ASSUME Inv, NEW t \in Threads, scenario' = scenario,
         ReturnInsert(t) \/ Refuse(t) \/ ReturnGet(t)
  PROVE  Inv'
<1>1. pc[t] \in {"i_return", "i_probe", "g_return"} /\ Return(t) /\ UNCHANGED <<dirs, dir, races>>
  BY DEF ReturnInsert, Refuse, ReturnGet
<1>2. /\ pc[t] \in InsertPCs \cup GetPCs /\ pc[t] \notin NoTargetPCs /\ "idle" \in NoTargetPCs
      /\ pc[t] \notin DirPCs
  BY <1>1 DEF InsertPCs, GetPCs, NoTargetPCs, DirPCs
<1>3. /\ loc[t].target \in Pointers /\ todo[t] # <<>> /\ Tail(todo[t]) \in Seq(Calls)
      /\ Key(t) \in Keys /\ acked \in SUBSET Keys
      /\ races \subseteq races' /\ races' \in SUBSET AllRaces /\ (INPLACE => "stray" \notin races')
  BY <1>1, <1>2, Facts DEF LocalAt, NoTargetPCs
<1>4. PICK l : l = NoLocals
  OBVIOUS
<1>5. Acts(t, "idle", l) /\ todo' = [todo EXCEPT ![t] = Tail(todo[t])]
  BY <1>1, <1>4 DEF Return, Goto, Acts
<1>6. acked' \in SUBSET Keys
  BY <1>3 DEF ReturnInsert, Refuse, ReturnGet
<1>7. CASE HoldsAt(pc[t])
  <2>1. SetSema(t, Cur(t).sema - 1)
    BY <1>7 DEF ReturnInsert, Refuse, ReturnGet, HoldsAt, InsertPCs
  <2> QED
    BY <1>1, <1>2, <1>3, <1>4, <1>5, <1>6, <1>7, <2>1, UnlockInv
<1>8. CASE ~HoldsAt(pc[t])
  <2>1. segs' = segs /\ ~RolePCs(pc[t])
    BY <1>1, <1>8 DEF ReturnInsert, Refuse, ReturnGet, HoldsAt, InsertPCs, GetPCs, RolePCs, SplitPCs
  <2>2. PICK k \in Pointers : k = loc[t].target
    BY <1>3
  <2> QED
    BY <1>1, <1>2, <1>3, <1>4, <1>5, <1>6, <2>1, <2>2, FreshInv
<1> QED
  BY <1>7, <1>8

\* COLLISION up to the split: a thread keeps its target, and its locals are in
\* range.
CollidePCs == {"i_suspend", "i_wait", "i_recheck", "i_split"}

\* A step that stores one local variable and one semaphore.
LEMMA CollideStep ==
  ASSUME Inv, NEW t \in Threads, NEW p \in CollidePCs, NEW l \in Locals, Acts(t, p, l),
         pc[t] \in {"i_probe"} \cup CollidePCs,
         l.x = loc[t].x, l.check = loc[t].check, l.target = loc[t].target,
         l.depth \in 0 .. Dir.depth,
         UNCHANGED <<dirs, dir, todo, acked, races>>,
         NEW k \in Pointers, k = loc[t].target, NEW n \in Int, StoresSema(k, n),
         segs'[k].sema = n /\ "stray" \notin races' => SegLock(k)'
  PROVE  Inv'
<1>1. pc[t] # "idle" /\ pc[t] \notin NoTargetPCs /\ pc[t] \notin DirPCs
      /\ p # "idle" /\ p \in PCs /\ p \notin DirPCs /\ p # "g_lock"
  BY DEF NoTargetPCs, DirPCs, PCs, CollidePCs
<1>2. /\ todo[t] # <<>> /\ todo[t] \in Seq(Calls) /\ todo' = [todo EXCEPT ![t] = todo[t]]
      /\ acked' \in SUBSET Keys /\ races \subseteq races' /\ races' \in SUBSET AllRaces
      /\ INPLACE => "stray" \notin races'
  BY <1>1, Facts DEF LocalAt
<1>3. LocalAt(p, l, todo[t])
  <2>1. l.x \in Entries(Dir) /\ l.check \in Entries(Dir)
    BY LocalSame
  <2>2. p \in NoTargetPCs \cup InsertPCs \cup GetPCs
             \cup {"i_lock", "g_lock", "i_suspend", "i_wait", "i_recheck", "i_split"}
    BY DEF CollidePCs
  <2> QED
    BY <1>1, <1>2, <2>1, <2>2, LocalMove
<1>4. /\ segs' \in Seq(Segment) /\ Len(segs') = Len(segs) /\ segs'[k].sema = n
      /\ \A i \in Pointers : Depth(i)' = Depth(i)
      /\ \A i \in Pointers \ {k} : segs'[i].sema = segs[i].sema
  BY SemaStore
<1>5. /\ \A i \in Pointers \ {loc[t].target} : segs'[i].sema = segs[i].sema
      /\ RolePCs(p) => l.target = loc[t].target /\ loc[t].target \in Pointers
      /\ \A j \in Pointers : j = loc[t].target /\ "stray" \notin races' => SegLock(j)'
  BY <1>4
<1> QED
  BY <1>1, <1>2, <1>3, <1>4, <1>5, Step

\* A step that leaves the semaphore alone stores its old value.
LEMMA SameSema ==
  ASSUME Inv, NEW k \in Pointers, segs' = segs
  PROVE  \E n \in Int : n = segs[k].sema /\ StoresSema(k, n)
<1>1. segs[k] \in Segment /\ segs \in Seq(Segment) /\ segs[k].sema \in Int
  BY SegFacts DEF Inv, Typed
<1>2. [segs[k] EXCEPT !.sema = segs[k].sema] = segs[k]
  BY <1>1 DEF Segment
<1>3. [segs EXCEPT ![k] = segs[k]] = segs
  BY <1>1 DEF Pointers
<1> QED
  BY <1>1, <1>2, <1>3 DEF StoresSema

\* unlock(), suspend() and its wait loop.
LEMMA CollideInv ==
  ASSUME Inv, NEW t \in Threads, scenario' = scenario,
         Collide(t) \/ SuspendTarget(t) \/ AwaitTarget(t)
  PROVE  Inv'
<1>1. pc[t] \in {"i_probe"} \cup CollidePCs /\ UNCHANGED <<dirs, dir, todo, acked, races>>
  BY DEF Collide, SuspendTarget, AwaitTarget, Read, CollidePCs
<1>2. Typed /\ DirsOK /\ loc[t] \in Locals /\ loc[t].target \in Pointers
      /\ Depth(loc[t].target) \in 0 .. Dir.depth /\ todo[t] # <<>> /\ todo[t] \in Seq(Calls)
      /\ todo' = [todo EXCEPT ![t] = todo[t]]
      /\ acked' \in SUBSET Keys /\ races \subseteq races' /\ races' \in SUBSET AllRaces
      /\ (INPLACE => "stray" \notin races')
  <2>1. pc[t] \notin NoTargetPCs /\ pc[t] # "idle"
    BY <1>1 DEF NoTargetPCs, CollidePCs
  <2>2. LocalAt(pc[t], loc[t], todo[t]) /\ Typed /\ DirsOK
    BY Facts DEF Inv
  <2>3. loc[t].target \in Pointers /\ Depth(loc[t].target) <= Dir.depth /\ todo[t] # <<>>
    BY <2>1, <2>2 DEF LocalAt
  <2>4. Depth(loc[t].target) \in Nat /\ Dir.depth \in Nat
    BY <2>2, <2>3, SegFacts, DirFacts
  <2> QED
    BY <1>1, <2>2, <2>3, <2>4, Facts
<1>3. PICK k \in Pointers : k = loc[t].target
  BY <1>2
<1>4. segs[k].sema \in Int /\ Depth(k) \in 0 .. HashBits
  BY <1>2, SegFacts
<1>5. loc[t].depth \in 0 .. Dir.depth
  BY LocalSame
<1>6. PICK m \in Locals : m = loc[t]
  BY <1>2
<1>7. CASE Collide(t)
  <2> USE <1>7 DEF Collide
  <2>1. PICK d \in 0 .. HashBits : d = Depth(k) /\ d \in 0 .. Dir.depth
    BY <1>2, <1>3, <1>4
  <2>2. PICK l : l = [loc[t] EXCEPT !["depth"] = d]
    OBVIOUS
  <2>3. l \in Locals /\ Acts(t, "i_suspend", l)
    <3>1. Put(t, "depth", d) /\ Goto(t, "i_suspend")
      BY <1>3, <2>1 DEF Cur, Depth
    <3> QED
      BY <1>2, <2>2, <3>1, PutLocal
  <2>4. l.x = loc[t].x /\ l.check = loc[t].check /\ l.target = loc[t].target /\ l.depth = d
    BY <1>6, <2>2 DEF Locals
  <2>5. PICK n \in Int : n = segs[k].sema - 1
    BY <1>4
  <2>6. StoresSema(k, n)
    BY <1>3, <2>5 DEF SetSema, StoresSema, Cur
  <2>7. ASSUME segs'[k].sema = n, "stray" \notin races' PROVE SegLock(k)'
    <3>1. HoldsAt(pc[t]) /\ ~HoldsAt("i_suspend") /\ "i_suspend" \notin SplitPCs /\ "i_suspend" \in PCs
      BY DEF HoldsAt, InsertPCs, GetPCs, SplitPCs, PCs
    <3>2. segs'[k].sema = segs[k].sema - 1
      BY <2>5, <2>7
    <3> QED
      BY <1>2, <1>3, <2>3, <2>7, <3>1, <3>2, LockLeave
  <2> QED
    BY <1>1, <1>3, <2>1, <2>3, <2>4, <2>6, <2>7, CollideStep DEF CollidePCs
<1>8. CASE SuspendTarget(t)
  <2>0. pc[t] = "i_suspend"
    BY <1>8 DEF SuspendTarget
  <2>1. CASE Cur(t).sema < 0 /\ Retry(t, "i_depth") /\ UNCHANGED segs
    <3>1. PICK l : l = [NoLocals EXCEPT !.must = loc[t].must]
      OBVIOUS
    <3>2. Acts(t, "i_depth", l) /\ "i_depth" \in NoTargetPCs
      BY <2>1, <3>1 DEF Acts, Retry, Goto, NoTargetPCs
    <3>3. ~RolePCs(pc[t]) /\ pc[t] \notin DirPCs
      BY <2>0 DEF RolePCs, HoldsAt, InsertPCs, GetPCs, SplitPCs, DirPCs
    <3> QED
      BY <1>1, <1>2, <1>3, <2>1, <3>1, <3>2, <3>3, FreshInv
  <2>2. CASE Cur(t).sema >= 0 /\ Goto(t, "i_wait") /\ Put(t, "val", Cur(t).sema) /\ SetSema(t, -1)
    <3>1. PICK v \in Nat : v = segs[k].sema /\ segs[k].sema >= 0
      BY <1>3, <1>4, <2>2 DEF Cur
    <3>2. PICK l : l = [loc[t] EXCEPT !["val"] = v]
      OBVIOUS
    <3>3. l \in Locals /\ Acts(t, "i_wait", l)
      <4>1. Put(t, "val", v) /\ Goto(t, "i_wait")
        BY <1>3, <2>2, <3>1 DEF Cur
      <4> QED
        BY <1>2, <3>2, <4>1, PutLocal
    <3>4. /\ l.x = loc[t].x /\ l.check = loc[t].check /\ l.target = loc[t].target
          /\ l.depth = loc[t].depth /\ l.val = v
      BY <1>6, <3>2 DEF Locals
    <3>5. StoresSema(k, -1)
      BY <1>3, <2>2 DEF SetSema, StoresSema
    <3>6. ASSUME segs'[k].sema = -1, "stray" \notin races' PROVE SegLock(k)'
      BY <1>2, <1>3, <2>0, <3>1, <3>3, <3>4, <3>6, LockClose
    <3>7. -1 \in Int
      OBVIOUS
    <3> QED
      BY <1>1, <1>3, <1>5, <3>3, <3>4, <3>5, <3>6, <3>7, CollideStep DEF CollidePCs
  <2> QED
    BY <1>8, <2>1, <2>2 DEF SuspendTarget
<1>9. CASE AwaitTarget(t)
  <2>1. /\ pc[t] = "i_wait" /\ Goto(t, "i_recheck") /\ Put(t, "val", 0) /\ segs' = segs
        /\ loc[t].val = 0 \/ segs[k].sema = 0 - loc[t].val - 1
    BY <1>3, <1>9 DEF AwaitTarget, Read, Cur
  <2>2. PICK l : l = [loc[t] EXCEPT !["val"] = 0]
    OBVIOUS
  <2>3. l \in Locals /\ Acts(t, "i_recheck", l)
    BY <1>2, <2>1, <2>2, PutLocal
  <2>4. /\ l.x = loc[t].x /\ l.check = loc[t].check /\ l.target = loc[t].target
        /\ l.depth = loc[t].depth
    BY <1>6, <2>2 DEF Locals
  <2>5. PICK n \in Int : n = segs[k].sema /\ StoresSema(k, n)
    BY <2>1, SameSema
  <2>6. ASSUME "stray" \notin races' PROVE SegLock(k)'
    BY <1>2, <1>3, <2>1, <2>3, <2>4, <2>6, LockAwait
  <2> QED
    BY <1>1, <1>3, <1>5, <2>3, <2>4, <2>5, <2>6, CollideStep DEF CollidePCs
<1> QED
  BY <1>7, <1>8, <1>9

\* A thread that has closed its target: what it knows.
LEMMA SplitFacts ==
  ASSUME Inv, NEW t \in Threads, pc[t] \in SplitPCs
  PROVE  /\ Typed /\ DirsOK /\ loc[t] \in Locals /\ LocalAt(pc[t], loc[t], todo[t])
         /\ loc[t].target \in Pointers /\ todo[t] # <<>> /\ todo[t] \in Seq(Calls)
         /\ todo = [todo EXCEPT ![t] = todo[t]] /\ pc[t] # "idle"
         /\ acked \in SUBSET Keys /\ races \in SUBSET AllRaces /\ races \subseteq races
         /\ (INPLACE => "stray" \notin races)
         /\ HoldsAt(pc[t]) = FALSE /\ RolePCs(pc[t])
<1>1. pc[t] \notin NoTargetPCs /\ pc[t] # "idle" /\ ~HoldsAt(pc[t]) /\ RolePCs(pc[t])
  BY DEF NoTargetPCs, SplitPCs, HoldsAt, InsertPCs, GetPCs, RolePCs
<1>2. LocalAt(pc[t], loc[t], todo[t]) /\ Typed /\ DirsOK
  BY Facts DEF Inv
<1>3. loc[t].target \in Pointers /\ todo[t] # <<>>
  BY <1>1, <1>2 DEF LocalAt
<1> QED
  BY <1>1, <1>2, <1>3, Facts

\* The second look at the depth.
LEMMA RecheckInv ==
  ASSUME Inv, NEW t \in Threads, scenario' = scenario, Recheck(t)
  PROVE  Inv'
<1>1. pc[t] = "i_recheck" /\ pc[t] \in SplitPCs /\ UNCHANGED <<dirs, dir, todo, acked, races>>
  BY DEF Recheck, SplitPCs
<1>2. /\ Typed /\ DirsOK /\ loc[t] \in Locals
      /\ loc[t].target \in Pointers /\ todo[t] # <<>> /\ todo[t] \in Seq(Calls)
      /\ todo' = [todo EXCEPT ![t] = todo[t]]
      /\ acked' \in SUBSET Keys /\ races \subseteq races' /\ races' \in SUBSET AllRaces
      /\ (INPLACE => "stray" \notin races')
  BY <1>1, SplitFacts
<1>3. PICK k \in Pointers : k = loc[t].target
  BY <1>2
<1>4. CASE Goto(t, "i_split") /\ UNCHANGED <<segs, loc>>
  <2>1. PICK l \in Locals : l = loc[t]
    BY <1>2
  <2>2. Acts(t, "i_split", l)
    BY <1>2, <1>4, <2>1 DEF Acts, Goto, Typed
  <2>3. PICK n \in Int : n = segs[k].sema /\ StoresSema(k, n)
    BY <1>4, SameSema
  <2>4. ASSUME "stray" \notin races' PROVE SegLock(k)'
    <3>1. /\ HoldsAt("i_split") <=> HoldsAt(pc[t])
          /\ "i_split" # "i_wait" /\ pc[t] # "i_wait" /\ "i_split" \in SplitPCs /\ "i_split" \in PCs
      BY <1>1 DEF HoldsAt, InsertPCs, GetPCs, SplitPCs, PCs
    <3>2. segs'[k].sema = segs[k].sema
      BY <1>4
    <3> QED
      BY <1>1, <1>2, <1>3, <2>1, <2>2, <2>4, <3>1, <3>2, LockKept
  <2>5. loc[t].depth \in 0 .. Dir.depth
    BY LocalSame
  <2> QED
    BY <1>1, <1>3, <2>1, <2>2, <2>3, <2>4, <2>5, CollideStep DEF CollidePCs
<1>5. CASE SetSema(t, 0) /\ Retry(t, "i_depth")
  <2>1. PICK l : l = [NoLocals EXCEPT !.must = loc[t].must]
    OBVIOUS
  <2>2. Acts(t, "i_depth", l) /\ "i_depth" \in NoTargetPCs /\ "i_depth" \in PCs
    BY <1>5, <2>1 DEF Acts, Retry, Goto, NoTargetPCs, PCs
  <2>3. StoresSema(k, 0) /\ 0 \in Int
    BY <1>3, <1>5 DEF StoresSema, SetSema
  <2>4. l \in Locals /\ LocalAt("i_depth", l, todo[t])
    BY <1>2, <2>1, <2>2, FreshLocals
  <2>5. ASSUME segs'[k].sema = 0, "stray" \notin races' PROVE SegLock(k)'
    <3>1. ~HoldsAt("i_depth") /\ "i_depth" # "i_wait" /\ "i_depth" \notin SplitPCs
      BY DEF HoldsAt, InsertPCs, GetPCs, SplitPCs
    <3> QED
      BY <1>1, <1>2, <1>3, <2>2, <2>4, <2>5, <3>1, LockOpen
  <2>6. pc[t] \notin DirPCs
    BY <1>1 DEF DirPCs
  <2>7. \E m \in Int : StoresSema(k, m) /\ (segs'[k].sema = m /\ "stray" \notin races' => SegLock(k)')
    BY <2>3, <2>5
  <2> QED
    BY <1>1, <1>2, <1>3, <2>1, <2>2, <2>6, <2>7, FreshInv
<1> QED
  BY <1>4, <1>5 DEF Recheck

-----------------------------------------------------------------------------
(* The copy of the slots                                                    *)

\* Insert4split stores into one slot, or none.
LEMMA Insert4splitTyped ==
  ASSUME NEW b \in [Slots -> Entry], NEW e \in Entry, NEW idx \in Slots
  PROVE  Insert4split(b, e, idx)[2] \in [Slots -> Entry]
<1>1. PICK i : i = FirstIn([j \in 0 .. Probe - 1 |-> b[Window(idx, j)].key = INVALID])
  OBVIOUS
<1>2. i = -1 \/ i \in 0 .. Probe - 1
  BY <1>1, FirstInRange
<1>3. Insert4split(b, e, idx) = IF i = -1 THEN <<FALSE, b>> ELSE <<TRUE, [b EXCEPT ![Window(idx, i)] = e]>>
  BY <1>1 DEF Insert4split
<1>4. CASE i = -1
  BY <1>3, <1>4
<1>5. CASE i \in 0 .. Probe - 1
  <2>1. Window(idx, i) \in Slots /\ i # -1
    BY <1>5, WindowSlot, CCEHAssumption
  <2> QED
    BY <1>3, <2>1
<1> QED
  BY <1>2, <1>4, <1>5

\* Copying a slot of a split segment fills a slot with an entry or none.
LEMMA CopySlotTyped ==
  ASSUME NEW b \in [Slots -> Entry], NEW e \in Entry
  PROVE  CopySlot(b, e) \in [Slots -> Entry]
<1>1. FIdx[e.key] \in Slots /\ SIdx[e.key] \in Slots
  BY CCEHAssumption DEF Entry
<1>2. Insert4split(b, e, FIdx[e.key])[2] \in [Slots -> Entry]
  BY <1>1, Insert4splitTyped
<1>3. Insert4split(b, e, SIdx[e.key])[2] \in [Slots -> Entry]
  BY <1>1, Insert4splitTyped
<1> QED
  BY <1>2, <1>3 DEF CopySlot

\* The bucket array of a half holds entries: an invariant of the loop over
\* the slots.
LEMMA SplitHalfTyped ==
  ASSUME NEW seg \in Segment, NEW bit
  PROVE  SplitHalf(seg, bit) \in [Slots -> Entry]
<1> DEFINE S == [Slots -> Entry]
           c == [j \in Slots |-> Empty]
           moves(i) == SplitBit(seg.bucket[i - 1].key, seg.local_depth) = bit
           Body(u) == [i \in 0 .. NumSlot |->
             IF i = 0 THEN [j \in Slots |-> Empty]
             ELSE LET e == seg.bucket[i - 1]
                  IN  IF SplitBit(e.key, seg.local_depth) = bit
                      THEN CopySlot(u[i - 1], e) ELSE u[i - 1]]
           U == CHOOSE u : u = Body(u)
           turn(i) == [v \in S |-> IF moves(i) THEN CopySlot(v, seg.bucket[i - 1]) ELSE v]
           step == [i \in 1 .. NumSlot |-> turn(i)]
<1>0. NumSlot \in Nat /\ NumSlot # 0
  BY CCEHAssumption
<1>1. SplitHalf(seg, bit) = U[NumSlot]
  BY DEF SplitHalf
<1>2. c \in S
  <2>1. Empty \in Entry
    BY DEF Empty, Entry, KeyWords
  <2> QED
    BY <2>1
<1>3. \A i \in 1 .. NumSlot : seg.bucket[i - 1] \in Entry
  <2>1. \A i \in 1 .. NumSlot : i - 1 \in Slots
    BY <1>0 DEF Slots
  <2> QED
    BY <2>1 DEF Segment
<1>4. ASSUME NEW i \in 1 .. NumSlot PROVE turn(i) \in [S -> S]
  <2> SUFFICES ASSUME NEW v \in S PROVE CopySlot(v, seg.bucket[i - 1]) \in S
    OBVIOUS
  <2> QED
    BY <1>3, CopySlotTyped
<1>5. \A i \in 1 .. NumSlot : step[i] = turn(i)
  OBVIOUS
<1>6. step \in LoopBodies(NumSlot, S)
  <2> HIDE DEF S, turn
  <2> QED BY <1>4 DEF LoopBodies
<1> HIDE DEF step, c
<1>7. PICK f : IsRun(NumSlot, S, c, step, f)
  <2> HIDE DEF S
  <2> QED BY <1>0, <1>2, <1>6, LoopExists
<1>8. f \in [0 .. NumSlot -> S] /\ f[0] = c /\ \A i \in 1 .. NumSlot : f[i] = step[i][f[i - 1]]
  BY <1>7 DEF IsRun
<1>9. f = Body(f)
  <2> SUFFICES ASSUME NEW i \in 0 .. NumSlot PROVE f[i] = Body(f)[i]
    BY <1>8
  <2>1. CASE i = 0
    BY <1>8, <2>1 DEF c
  <2>2. CASE i # 0
    <3>1. i \in 1 .. NumSlot /\ i - 1 \in 0 .. NumSlot /\ f[i - 1] \in S
      BY <1>0, <1>8, <2>2
    <3>2. f[i] = turn(i)[f[i - 1]]
      BY <1>5, <1>8, <3>1
    <3>3. turn(i)[f[i - 1]] = IF moves(i) THEN CopySlot(f[i - 1], seg.bucket[i - 1]) ELSE f[i - 1]
      <4> HIDE DEF S
      <4> QED BY <3>1
    <3> QED
      BY <2>2, <3>2, <3>3
  <2> QED
    BY <2>1, <2>2
<1>10. U = Body(U)
  <2> HIDE DEF Body
  <2> QED BY <1>9
<1> HIDE DEF U
<1> DEFINE T == {i \in 0 .. NumSlot : U[i] \in S}
<1>11. 0 \in T
  <2>1. 0 \in 0 .. NumSlot /\ U[0] = c
    BY <1>0, <1>10 DEF c
  <2> QED
    BY <1>2, <2>1
<1>12. \A i \in 0 .. NumSlot - 1 : i \in T => i + 1 \in T
  <2> SUFFICES ASSUME NEW i \in 0 .. NumSlot - 1, U[i] \in S
               PROVE  i + 1 \in 0 .. NumSlot /\ U[i + 1] \in S
    BY <1>0
  <2>1. i + 1 \in 1 .. NumSlot /\ i + 1 \in 0 .. NumSlot /\ (i + 1) - 1 = i /\ i + 1 # 0
    BY <1>0
  <2>2. seg.bucket[i] \in Entry
    BY <1>3, <2>1
  <2>3. CopySlot(U[i], seg.bucket[i]) \in S
    BY <2>2, CopySlotTyped
  <2>4. U[i + 1] = IF SplitBit(seg.bucket[i].key, seg.local_depth) = bit
                   THEN CopySlot(U[i], seg.bucket[i]) ELSE U[i]
    <3> HIDE DEF S
    <3> QED BY <1>10, <2>1
  <2> QED
    BY <2>1, <2>3, <2>4
<1> HIDE DEF T
<1>13. 0 .. NumSlot \subseteq T
  BY <1>0, <1>11, <1>12, BoundedInduction
<1>14. NumSlot \in T
  BY <1>0, <1>13
<1> QED
  BY <1>1, <1>14 DEF T

\* Segment::Split allocates: thread t has then the locals l, and the new
\* segments, with nobody in them, the depth d.
Splits(t, d, l) ==
  /\ pc[t] = "i_split" /\ Acts(t, "i_dir", l) /\ UNCHANGED <<dirs, dir, todo, acked, races>>
  /\ Depth(loc[t].target) < HashBits /\ d = Depth(loc[t].target) + 1
  /\ l.x = loc[t].x /\ l.check = loc[t].check /\ l.target = loc[t].target /\ l.depth = loc[t].depth
  /\ segs' \in Seq(Segment) /\ Pointers \subseteq Pointers' /\ Len(segs') \in Nat /\ Len(segs) <= Len(segs')
  /\ \A i \in Pointers : Depth(i)' = Depth(i) /\ segs'[i].sema = segs[i].sema
  /\ \A i \in Pointers' \ Pointers : Depth(i)' = d /\ segs'[i].sema = 0
  /\ l.s[1] \in Pointers' /\ l.s[2] \in Pointers' \ Pointers /\ l.s[1] # l.s[2]
  /\ IF INPLACE THEN l.s[1] = l.target ELSE l.s[1] \notin Pointers

\* That is what it does.
LEMMA SplitMoves ==
  ASSUME Inv, NEW t \in Threads, scenario' = scenario, Split(t)
  PROVE  \E d \in 0 .. HashBits, l \in Locals : Splits(t, d, l)
<1> DEFINE seg == Cur(t)
           half(b) == [NewSegment(seg.local_depth + 1) EXCEPT !.bucket = SplitHalf(seg, b)]
<1>1. /\ pc[t] = "i_split" /\ UNCHANGED <<dirs, dir, todo, acked, races>> /\ Goto(t, "i_dir")
      /\ seg.local_depth < HashBits
      /\ segs' = segs \o (IF INPLACE THEN <<half(1)>> ELSE <<half(0), half(1)>>)
      /\ Put(t, "s", IF INPLACE THEN <<loc[t].target, Len(segs) + 1>>
                     ELSE <<Len(segs) + 1, Len(segs) + 2>>)
  BY DEF Split
<1>2. /\ pc[t] \in SplitPCs /\ pc[t] \notin NoTargetPCs /\ pc[t] \notin DirPCs /\ pc[t] # "i_wait"
      /\ "i_dir" \in PCs /\ "i_dir" \notin DirPCs /\ "i_dir" \in SplitPCs /\ "i_dir" \in SharePCs
      /\ ~HoldsAt(pc[t]) /\ ~HoldsAt("i_dir")
  BY <1>1 DEF SplitPCs, NoTargetPCs, PCs, DirPCs, HoldsAt, InsertPCs, GetPCs, SharePCs
<1>3. /\ Typed /\ DirsOK /\ loc[t] \in Locals /\ LocalAt(pc[t], loc[t], todo[t]) /\ todo[t] # <<>>
      /\ races' = races /\ races \subseteq races' /\ loc[t].target \in Pointers
      /\ todo[t] \in Seq(Calls) /\ todo' = [todo EXCEPT ![t] = todo[t]]
  BY <1>1, <1>2, SplitFacts
<1>4. PICK k \in Pointers : k = loc[t].target
  BY <1>3
<1>5. /\ segs[k] \in Segment /\ segs \in Seq(Segment) /\ Depth(k) \in Nat /\ HashBits \in Nat
      /\ Dir.depth \in Nat /\ Depth(k) < HashBits /\ Len(segs) \in Nat
      /\ Depth(k) <= Dir.depth
  BY <1>1, <1>2, <1>3, <1>4, SegFacts, DirFacts DEF Typed, Cur, Depth, LocalAt
<1>6. PICK d \in 0 .. HashBits : d = Depth(k) + 1
  BY <1>5
<1>7. ASSUME NEW b PROVE half(b) \in Segment /\ half(b).sema = 0 /\ half(b).local_depth = d
  <2>1. PICK h \in [Slots -> Entry] : h = SplitHalf(seg, b)
    BY <1>4, <1>5, SplitHalfTyped DEF Cur
  <2>2. half(b) = [bucket |-> h, sema |-> 0, local_depth |-> d]
    BY <1>4, <1>6, <2>1 DEF NewSegment, Cur, Depth
  <2> QED
    BY <2>2 DEF Segment
<1> HIDE DEF half
<1>8. PICK new \in Seq(Segment) :
        /\ segs' = segs \o new /\ Len(new) = (IF INPLACE THEN 1 ELSE 2)
        /\ \A i \in 1 .. Len(new) : new[i].sema = 0 /\ new[i].local_depth = d
  <2>1. CASE INPLACE
    <3>1. PICK g \in Segment : g = half(1) /\ g.sema = 0 /\ g.local_depth = d
      BY <1>7
    <3>2. segs' = segs \o <<g>>
      BY <1>1, <2>1, <3>1
    <3>3. <<g>> \in Seq(Segment) /\ Len(<<g>>) = 1
      OBVIOUS
    <3>4. \A i \in 1 .. Len(<<g>>) : <<g>>[i] = g
      OBVIOUS
    <3> QED
      BY <2>1, <3>1, <3>2, <3>3, <3>4
  <2>2. CASE ~INPLACE
    <3>1. PICK f \in Segment, g \in Segment :
            /\ f = half(0) /\ f.sema = 0 /\ f.local_depth = d
            /\ g = half(1) /\ g.sema = 0 /\ g.local_depth = d
      BY <1>7
    <3>2. segs' = segs \o <<f, g>>
      BY <1>1, <2>2, <3>1
    <3>3. <<f, g>> \in Seq(Segment) /\ Len(<<f, g>>) = 2
      OBVIOUS
    <3>4. \A i \in 1 .. Len(<<f, g>>) : <<f, g>>[i] \in {f, g}
      OBVIOUS
    <3> QED
      BY <2>2, <3>1, <3>2, <3>3, <3>4
  <2> QED
    BY <2>1, <2>2
<1>9. /\ segs' \in Seq(Segment) /\ Len(segs') = Len(segs) + Len(new) /\ Len(new) \in 1 .. 2
      /\ \A i \in 1 .. Len(segs) : segs'[i] = segs[i]
      /\ \A i \in Len(segs) + 1 .. Len(segs') : segs'[i] = new[i - Len(segs)] /\ i - Len(segs) \in 1 .. Len(new)
  <2>1. \A A : \A p, q \in Seq(A) :
          /\ p \o q \in Seq(A) /\ Len(p \o q) = Len(p) + Len(q)
          /\ \A i \in 1 .. Len(p) : (p \o q)[i] = p[i]
          /\ \A i \in Len(p) + 1 .. Len(p) + Len(q) : (p \o q)[i] = q[i - Len(p)] /\ i - Len(p) \in 1 .. Len(q)
    OBVIOUS
  <2>2. /\ segs' \in Seq(Segment) /\ Len(segs') = Len(segs) + Len(new)
        /\ \A i \in 1 .. Len(segs) : segs'[i] = segs[i]
    BY <1>5, <1>8, <2>1
  <2>3. \A i \in Len(segs) + 1 .. Len(segs) + Len(new) :
          segs'[i] = new[i - Len(segs)] /\ i - Len(segs) \in 1 .. Len(new)
    BY <1>5, <1>8, <2>1
  <2>4. Len(new) \in 1 .. 2
    BY <1>8
  <2> QED
    BY <2>2, <2>3, <2>4
<1>10. /\ Pointers \subseteq Pointers' /\ Len(segs') \in Nat /\ Len(segs) <= Len(segs')
       /\ \A i \in Pointers : Depth(i)' = Depth(i) /\ segs'[i].sema = segs[i].sema
       /\ \A i \in Pointers' \ Pointers : Depth(i)' = d /\ segs'[i].sema = 0
  <2>1. Len(segs') \in Nat /\ Len(segs) <= Len(segs')
    BY <1>5, <1>9
  <2>2. Pointers \subseteq Pointers' /\ Pointers' \ Pointers \subseteq Len(segs) + 1 .. Len(segs')
    BY <1>5, <2>1 DEF Pointers
  <2>3. \A i \in Pointers : segs'[i] = segs[i]
    BY <1>9 DEF Pointers
  <2> QED
    BY <1>8, <1>9, <2>1, <2>2, <2>3 DEF Depth
<1>11. PICK sp \in Nat \X Nat :
         /\ Put(t, "s", sp) /\ sp[1] \in Pointers' /\ sp[2] \in Pointers' \ Pointers /\ sp[1] # sp[2]
         /\ IF INPLACE THEN sp[1] = k ELSE sp[1] \notin Pointers
  <2>1. CASE INPLACE
    <3>1. Len(segs) + 1 \in Pointers' /\ Len(segs) + 1 \notin Pointers /\ Len(segs) + 1 \in Nat
      BY <1>5, <1>8, <1>9 DEF Pointers
    <3>2. k \in Pointers' /\ k \in Nat
      BY <1>10 DEF Pointers
    <3>3. <<k, Len(segs) + 1>> \in Nat \X Nat /\ Put(t, "s", <<k, Len(segs) + 1>>)
      BY <1>1, <1>4, <2>1, <3>1, <3>2
    <3>4. PICK sp \in Nat \X Nat : sp = <<k, Len(segs) + 1>> /\ sp[1] = k /\ sp[2] = Len(segs) + 1
      BY <3>3
    <3> QED
      BY <2>1, <3>1, <3>2, <3>3, <3>4
  <2>2. CASE ~INPLACE
    <3>1. /\ Len(segs) + 1 \in Pointers' /\ Len(segs) + 1 \notin Pointers /\ Len(segs) + 1 \in Nat
          /\ Len(segs) + 2 \in Pointers' /\ Len(segs) + 2 \notin Pointers /\ Len(segs) + 2 \in Nat
      BY <1>5, <1>8, <1>9, <2>2 DEF Pointers
    <3>2. <<Len(segs) + 1, Len(segs) + 2>> \in Nat \X Nat
      BY <3>1
    <3>3. Put(t, "s", <<Len(segs) + 1, Len(segs) + 2>>)
      BY <1>1, <2>2
    <3>4. PICK sp \in Nat \X Nat : /\ sp = <<Len(segs) + 1, Len(segs) + 2>>
                                   /\ sp[1] = Len(segs) + 1 /\ sp[2] = Len(segs) + 2
      BY <3>2
    <3> QED
      BY <1>5, <2>2, <3>1, <3>3, <3>4
  <2> QED
    BY <2>1, <2>2
<1>12. PICK l : l = [loc[t] EXCEPT !["s"] = sp]
  OBVIOUS
<1>13. l \in Locals /\ Acts(t, "i_dir", l)
  BY <1>1, <1>3, <1>11, <1>12, PutLocal
<1>14. /\ l.x = loc[t].x /\ l.check = loc[t].check /\ l.target = k
       /\ l.depth = loc[t].depth /\ l.s = sp
  <2>1. PICK m \in Locals : m = loc[t]
    BY <1>3
  <2> QED
    BY <1>4, <1>12, <2>1 DEF Locals
<1> QED
  BY <1>1, <1>4, <1>5, <1>6, <1>9, <1>10, <1>11, <1>13, <1>14 DEF Splits

\* New segments, with nobody in them.
LEMMA SplitInv ==
  ASSUME Inv, NEW t \in Threads, scenario' = scenario, Split(t)
  PROVE  Inv'
<1>1. PICK d \in 0 .. HashBits, l \in Locals : Splits(t, d, l)
  BY SplitMoves
<1>2. /\ pc[t] \in SplitPCs /\ pc[t] \notin NoTargetPCs /\ pc[t] \notin DirPCs /\ pc[t] # "i_wait"
      /\ "i_dir" \in PCs /\ "i_dir" \notin DirPCs /\ "i_dir" \in SplitPCs /\ "i_dir" \in SharePCs
      /\ ~HoldsAt(pc[t]) /\ ~HoldsAt("i_dir")
  BY <1>1 DEF Splits, SplitPCs, NoTargetPCs, PCs, DirPCs, HoldsAt, InsertPCs, GetPCs, SharePCs
<1>3. /\ Typed /\ DirsOK /\ loc[t] \in Locals /\ LocalAt(pc[t], loc[t], todo[t]) /\ todo[t] # <<>>
      /\ races' = races /\ races \subseteq races' /\ loc[t].target \in Pointers
      /\ todo[t] \in Seq(Calls) /\ todo' = [todo EXCEPT ![t] = todo[t]]
  BY <1>1, <1>2, SplitFacts DEF Splits
<1>4. PICK k \in Pointers : k = loc[t].target
  BY <1>3
<1>5. /\ Depth(k) \in Nat /\ HashBits \in Nat /\ Dir.depth \in Nat /\ Depth(k) < HashBits
      /\ d = Depth(k) + 1 /\ pc[t] = "i_split" /\ UNCHANGED <<dirs, dir, todo, acked, races>>
      /\ segs' \in Seq(Segment) /\ Acts(t, "i_dir", l)
  BY <1>1, <1>3, <1>4, SegFacts, DirFacts DEF Splits
<1>6. /\ Pointers \subseteq Pointers' /\ Len(segs') \in Nat /\ Len(segs) <= Len(segs')
      /\ \A i \in Pointers : Depth(i)' = Depth(i) /\ segs'[i].sema = segs[i].sema
      /\ \A i \in Pointers' \ Pointers : Depth(i)' = d /\ segs'[i].sema = 0
  BY <1>1 DEF Splits
<1>7. /\ l.s[1] \in Pointers' /\ l.s[2] \in Pointers'
      /\ l.s[1] \in Pointers => l.s[1] = k
      /\ l.s[2] \in Pointers => l.s[2] = k
  BY <1>1, <1>4 DEF Splits
<1>8. l.x = loc[t].x /\ l.check = loc[t].check /\ l.target = k /\ l.depth = loc[t].depth
  BY <1>1, <1>4 DEF Splits
<1>9. Dir' = Dir /\ Entries(Dir)' = Entries(Dir) /\ INPLACE' = INPLACE
  BY <1>5 DEF Dir, Entries, INPLACE, Acts
<1>10. LocalAt("i_dir", l, todo[t])'
  <2>1. LocalAt("i_split", l, todo[t])
    BY <1>5, <1>3, <1>4, <1>8 DEF LocalAt, SharePCs
  <2>2. LocalAt("i_split", l, todo[t])'
    <3>1. PICK q : q = todo[t]
      OBVIOUS
    <3>2. (Dir.depth)' \in Nat /\ Dir.depth <= (Dir.depth)'
      BY <1>5, <1>9
    <3>3. LocalAt("i_split", l, q)'
      BY <1>3, <1>6, <1>5, <1>9, <2>1, <3>1, <3>2, LocalGrows
    <3> QED
      BY <1>5, <3>1, <3>3
  <2>3. \A i \in Pointers' : (i \in Pointers => i = k) => Depth(i)' <= Depth(k)' + 1
    BY <1>5, <1>6
  <2>4. /\ l.s[1] \in Pointers' /\ Depth(l.s[1])' <= Depth(l.target)' + 1
        /\ l.s[2] \in Pointers' /\ Depth(l.s[2])' <= Depth(l.target)' + 1
        /\ Depth(l.target)' < HashBits
    <3>1. PICK a, b : a = l.s[1] /\ b = l.s[2]
      OBVIOUS
    <3>2. a \in Pointers' /\ (a \in Pointers => a = k) /\ b \in Pointers' /\ (b \in Pointers => b = k)
      BY <1>7, <3>1
    <3>3. Depth(a)' <= Depth(k)' + 1 /\ Depth(b)' <= Depth(k)' + 1
      BY <2>3, <3>2
    <3>4. Depth(k)' < HashBits
      BY <1>5, <1>6
    <3> QED
      BY <1>8, <3>1, <3>2, <3>3, <3>4
  <2>5. "i_split" \notin NoTargetPCs
    BY DEF NoTargetPCs
  <2> QED
    BY <1>2, <2>2, <2>4, <2>5 DEF LocalAt
<1>11. Typed'
  BY <1>2, <1>3, <1>5, ActsOthers DEF Typed, Acts
<1>12. DirsOK'
  <2>1. \A x \in Entries(Dir) : Dir.segment[x] \in Pointers /\ Depth(Dir.segment[x]) <= Dir.depth
    BY <1>3, DirFacts DEF DirsOK
  <2>2. \A x \in Entries(Dir') : segs'[Dir'.segment[x]].local_depth <= Dir'.depth
    BY <1>6, <1>9, <2>1 DEF Depth, Entries
  <2>3. \A e \in 1 .. Len(dirs') : dirs'[e].segment \in [Entries(dirs'[e]) -> Pointers']
    BY <1>5, <1>3, <1>6 DEF DirsOK
  <2> QED
    BY <2>2, <2>3 DEF DirsOK, Entries, Depth
<1>13. LocalsOK'
  <2>1. PICK q : q = todo[t]
    OBVIOUS
  <2>2. (Dir.depth)' \in Nat /\ Dir.depth <= (Dir.depth)' /\ todo' = [todo EXCEPT ![t] = q]
    BY <1>3, <1>5, <1>9, <2>1
  <2>3. LocalAt("i_dir", l, q)'
    BY <1>5, <1>10, <2>1
  <2> QED
    BY <1>2, <1>6, <1>5, <2>2, <2>3, LocalsGrow
<1>14. SegLocks'
  <2>1. ASSUME "stray" \notin races' PROVE SegLock(k)'
    BY <1>2, <1>3, <1>4, <1>6, <1>5, <1>8, <2>1, LockKept
  <2> QED
    BY <1>2, <1>3, <1>4, <1>6, <1>5, <1>8, <2>1, LocksElsewhere
<1>15. DirLock'
  BY <1>2, <1>5, <1>9, DirKept
<1> QED
  BY <1>11, <1>12, <1>13, <1>14, <1>15 DEF Inv

-----------------------------------------------------------------------------
(* The steps on the directory                                               *)

\* What LocalAt asks of a thread that is about to publish its split.
LEMMA ShareMove ==
  ASSUME Inv, NEW t \in Threads, pc[t] \in SharePCs, NEW p \in {"i_dir", "i_dsuspend", "i_dwait", "i_double", "i_dlock"},
         NEW l \in Locals, l.x = loc[t].x, l.target = loc[t].target, l.check = loc[t].check,
         l.depth = loc[t].depth, l.s = loc[t].s,
         p = "i_dlock" => Depth(loc[t].target) < Dir.depth
  PROVE  LocalAt(p, l, todo[t])
<1>1. LocalAt(pc[t], loc[t], todo[t]) /\ pc[t] # "idle" /\ pc[t] \notin NoTargetPCs
  BY Facts DEF SharePCs, NoTargetPCs
<1>2. p \in SharePCs /\ p # "i_update" /\ p # "i_finish" /\ p # "g_lock"
  BY DEF SharePCs
<1> QED
  BY <1>1, <1>2 DEF LocalAt

\* Whether to double.
LEMMA ChooseInv ==
  ASSUME Inv, NEW t \in Threads, scenario' = scenario,
         ChooseDir(t) \/ (pc[t] = "i_dsuspend" /\ Goto(t, "i_dir")
                          /\ UNCHANGED <<segs, dirs, dir, loc, todo, acked, races>>)
  PROVE  Inv'
<1>1. /\ pc[t] \in {"i_dir", "i_dsuspend"}
      /\ UNCHANGED <<segs, dirs, dir, loc, todo, acked, races>>
  BY DEF ChooseDir
<1>2. pc[t] \in SplitPCs /\ pc[t] \in SharePCs
  BY <1>1 DEF SplitPCs, SharePCs
<1>3. /\ Typed /\ DirsOK /\ loc[t] \in Locals /\ LocalAt(pc[t], loc[t], todo[t])
      /\ loc[t].target \in Pointers /\ todo[t] # <<>> /\ todo[t] \in Seq(Calls)
      /\ todo' = [todo EXCEPT ![t] = todo[t]] /\ pc[t] \notin NoTargetPCs
      /\ acked' \in SUBSET Keys /\ races \subseteq races' /\ races' \in SUBSET AllRaces
      /\ (INPLACE => "stray" \notin races')
  BY <1>1, <1>2, SplitFacts DEF NoTargetPCs
<1>4. PICK p \in {"i_dir", "i_dsuspend", "i_dlock"} :
        Goto(t, p) /\ (p = "i_dlock" => Cur(t).local_depth # Dir.depth)
  BY DEF ChooseDir
<1>5. PICK l \in Locals : l = loc[t]
  BY <1>3
<1>6. Acts(t, p, l)
  BY <1>1, <1>3, <1>4, <1>5 DEF Acts, Goto, Typed
<1>7. p = "i_dlock" => Depth(loc[t].target) < Dir.depth
  <2>1. Depth(loc[t].target) <= Dir.depth /\ Cur(t).local_depth = Depth(loc[t].target)
    BY <1>3 DEF LocalAt, Cur, Depth
  <2>2. Depth(loc[t].target) \in Nat /\ Dir.depth \in Nat
    BY <1>3, SegFacts, DirFacts
  <2> QED
    BY <1>4, <2>1, <2>2
<1>8. LocalAt(p, l, todo[t])
  BY <1>2, <1>5, <1>7, ShareMove
<1>9. /\ p \in PCs /\ (HoldsAt(p) <=> HoldsAt(pc[t])) /\ p # "i_wait" /\ pc[t] # "i_wait"
      /\ p \in SplitPCs /\ p \notin DirPCs /\ pc[t] \notin DirPCs
  BY <1>1 DEF PCs, HoldsAt, InsertPCs, GetPCs, SplitPCs, DirPCs
<1>10. SameLocks
  BY <1>1, SameSegs
<1> QED
  BY <1>1, <1>2, <1>3, <1>5, <1>6, <1>8, <1>9, <1>10, QuietStep DEF SameLocks

\* A step of a splitting thread that changes the directory and no segment.
LEMMA DirStep ==
  ASSUME Inv, NEW t \in Threads, pc[t] \in SplitPCs,
         NEW p \in PCs, NEW l \in Locals, Acts(t, p, l),
         UNCHANGED <<segs, todo, acked>>,
         races \subseteq races', races' \in SUBSET AllRaces, INPLACE => "stray" \notin races',
         dirs' \in Seq(Directory), dir' \in 1 .. Len(dirs'), DirsOK', DirLock',
         (Dir.depth)' \in Nat, Dir.depth <= (Dir.depth)',
         LocalAt(p, l, todo[t])',
         \/ p \in SplitPCs /\ l.target = loc[t].target
         \/ p \in NoTargetPCs /\ ~INPLACE
  PROVE  Inv'
<1>1. /\ Typed /\ DirsOK /\ loc[t] \in Locals
      /\ loc[t].target \in Pointers /\ todo[t] \in Seq(Calls)
      /\ todo = [todo EXCEPT ![t] = todo[t]] /\ acked \in SUBSET Keys
      /\ HoldsAt(pc[t]) = FALSE /\ pc[t] # "i_wait"
  BY SplitFacts DEF SplitPCs
<1>2. INPLACE' = INPLACE /\ pc' \in [Threads -> PCs] /\ loc' \in [Threads -> Locals]
  BY <1>1, ActsOthers
<1>3. Typed'
  BY <1>1, <1>2 DEF Typed, Acts
<1>4. LocalsOK'
  <2>1. PICK q \in Seq(Calls) : q = todo[t]
    BY <1>1
  <2>2. todo' = [todo EXCEPT ![t] = q] /\ LocalAt(p, l, q)'
    BY <1>1, <2>1
  <2>3. Len(segs') \in Nat /\ Len(segs) <= Len(segs') /\ \A i \in Pointers : Depth(i)' = Depth(i)
    BY <1>1 DEF Typed, Depth
  <2> QED
    BY <2>2, <2>3, LocalsGrow
<1>5. PICK k \in Pointers : k = loc[t].target
  BY <1>1
<1>6. p \in NoTargetPCs => ~HoldsAt(p) /\ p # "i_wait" /\ p \notin SplitPCs
  BY DEF NoTargetPCs, HoldsAt, InsertPCs, GetPCs, SplitPCs
<1>7. p \in SplitPCs => ~HoldsAt(p) /\ p # "i_wait"
  BY DEF HoldsAt, InsertPCs, GetPCs, SplitPCs
<1>8. ASSUME "stray" \notin races' PROVE SegLock(k)'
  <2>1. segs'[k].sema = segs[k].sema
    OBVIOUS
  <2>2. CASE p \in SplitPCs /\ l.target = loc[t].target
    BY <1>1, <1>5, <1>7, <1>8, <2>1, <2>2, LockKept
  <2>3. CASE p \in NoTargetPCs /\ ~INPLACE
    BY <1>5, <1>6, <1>8, <2>1, <2>3, LockOpen
  <2> QED
    BY <2>2, <2>3
<1>9. SegLocks'
  <2>1. HoldsAt(p) \/ p = "i_wait" \/ p \in SplitPCs => l.target = k /\ k \in Pointers
    BY <1>5, <1>6
  <2>2. Pointers' = Pointers /\ \A i \in Pointers \ {k} : segs'[i].sema = segs[i].sema
    BY DEF Pointers
  <2>3. Pointers \subseteq Pointers' /\ \A i \in Pointers' \ Pointers : segs'[i].sema = 0
    BY <2>2
  <2> QED
    BY <1>5, <1>8, <2>1, <2>2, <2>3, LocksElsewhere
<1> QED
  BY <1>3, <1>4, <1>9 DEF Inv

\* A store into the semaphore of the directory.
LEMMA DirSemaStore ==
  ASSUME Typed, DirsOK, NEW n \in Int, SetDirSema(n), UNCHANGED <<segs, dir>>
  PROVE  /\ dirs' \in Seq(Directory) /\ dir' \in 1 .. Len(dirs') /\ DirsOK'
         /\ (Dir.depth)' = Dir.depth /\ (Dir.sema)' = n /\ Dir.depth \in Nat
<1>1. Dir \in Directory /\ dirs \in Seq(Directory) /\ dir \in 1 .. Len(dirs) /\ Dir.depth \in Nat
  BY DirFacts DEF Typed
<1>2. PICK e : e = [Dir EXCEPT !.sema = n]
  OBVIOUS
<1>3. e \in Directory /\ e.sema = n /\ e.depth = Dir.depth /\ e.segment = Dir.segment
  BY <1>1, <1>2 DEF Directory
<1>4. dirs' = [dirs EXCEPT ![dir] = e]
  BY <1>2 DEF SetDirSema, Dir
<1>5. dirs' \in Seq(Directory) /\ Len(dirs') = Len(dirs)
  BY <1>1, <1>3, <1>4
<1>6. dirs'[dir] = e /\ \A d \in 1 .. Len(dirs) \ {dir} : dirs'[d] = dirs[d]
  BY <1>1, <1>4
<1>7. Dir' = e
  BY <1>6 DEF Dir
<1>8. /\ \A d \in 1 .. Len(dirs) : dirs'[d].segment = dirs[d].segment /\ dirs'[d].depth = dirs[d].depth
      /\ Pointers' = Pointers /\ \A i : Depth(i)' = Depth(i)
  BY <1>3, <1>6 DEF Dir, Pointers, Depth
<1>9. DirsOK'
  <2>1. \A d \in 1 .. Len(dirs') : dirs'[d].segment \in [Entries(dirs'[d]) -> Pointers']
    BY <1>5, <1>8 DEF DirsOK, Entries
  <2>2. \A x \in Entries(e) : Depth(e.segment[x])' <= e.depth
    BY <1>3, <1>8 DEF DirsOK, Entries
  <2>3. \A x \in Entries(Dir') : segs'[Dir'.segment[x]].local_depth <= Dir'.depth
    BY <1>7, <2>2 DEF Depth
  <2> QED
    BY <2>1, <2>3 DEF DirsOK, Entries, Depth
<1> QED
  BY <1>1, <1>3, <1>5, <1>7, <1>9

\* suspend() of the directory up to its wait loop.
LEMMA SuspendDirInv ==
  ASSUME Inv, NEW t \in Threads, scenario' = scenario, SuspendDir(t)
  PROVE  Inv'
<1>1. pc[t] = "i_dsuspend" /\ UNCHANGED <<segs, dir, todo, acked, races>>
  BY DEF SuspendDir
<1>2. pc[t] \in SplitPCs /\ pc[t] \in SharePCs
  BY <1>1 DEF SplitPCs, SharePCs
<1>3. /\ Typed /\ DirsOK /\ loc[t] \in Locals
      /\ races \subseteq races' /\ races' \in SUBSET AllRaces /\ (INPLACE => "stray" \notin races')
  BY <1>1, <1>2, SplitFacts
<1>4. CASE Dir.sema < 0 /\ Goto(t, "i_dir") /\ UNCHANGED <<dirs, loc>>
  BY <1>1, <1>4, ChooseInv
<1>5. CASE Dir.sema >= 0 /\ Goto(t, "i_dwait") /\ Put(t, "val", Dir.sema) /\ SetDirSema(-1)
  <2>1. PICK v \in Nat : v = Dir.sema /\ Dir.sema >= 0
    <3>1. Dir.sema \in Int
      BY <1>3, DirFacts
    <3> QED
      BY <1>5, <3>1
  <2>2. PICK l : l = [loc[t] EXCEPT !["val"] = v]
    OBVIOUS
  <2>3. l \in Locals /\ Acts(t, "i_dwait", l)
    <3>1. Put(t, "val", v) /\ Goto(t, "i_dwait")
      BY <1>5, <2>1
    <3> QED
      BY <1>3, <2>2, <3>1, PutLocal
  <2>4. /\ l.x = loc[t].x /\ l.check = loc[t].check /\ l.target = loc[t].target
        /\ l.depth = loc[t].depth /\ l.s = loc[t].s /\ l.val = v
    <3>1. PICK m \in Locals : m = loc[t]
      BY <1>3
    <3> QED
      BY <2>2, <3>1 DEF Locals
  <2>5. /\ dirs' \in Seq(Directory) /\ dir' \in 1 .. Len(dirs') /\ DirsOK'
        /\ (Dir.depth)' = Dir.depth /\ (Dir.sema)' = -1 /\ Dir.depth \in Nat
    <3>1. -1 \in Int
      OBVIOUS
    <3> QED
      BY <1>1, <1>3, <1>5, <3>1, DirSemaStore
  <2>6. "i_dwait" \in PCs /\ "i_dwait" \in SplitPCs
    BY DEF PCs, SplitPCs
  <2>7. LocalAt("i_dwait", l, todo[t])
    BY <1>2, <2>3, <2>4, ShareMove
  <2>8. LocalAt("i_dwait", l, todo[t])'
    <3>1. PICK q : q = todo[t]
      OBVIOUS
    <3>2. INPLACE' = INPLACE
      BY DEF INPLACE
    <3>3. Len(segs') \in Nat /\ Len(segs) <= Len(segs') /\ \A i \in Pointers : Depth(i)' = Depth(i)
      BY <1>1, <1>3 DEF Typed, Depth
    <3>4. LocalAt("i_dwait", l, q)'
      BY <1>3, <2>3, <2>5, <2>7, <3>1, <3>2, <3>3, LocalGrows
    <3> QED
      BY <1>1, <3>1, <3>4
  <2>9. DirLock'
    <3>1. Doublers = {} /\ Dir.sema = Cardinality(Updaters)
      BY <2>1 DEF Inv, DirLock
    <3>2. t \notin Updaters
      BY <1>1 DEF Updaters
    <3>3. Updaters' = Updaters
      BY <1>3, <2>3, <2>6, <3>2, DirRoles
    <3>4. Doublers' = {t}
      BY <1>3, <2>3, <2>6, <3>1, DirRoles
    <3>5. /\ pc'[t] = "i_dwait" /\ loc'[t] = l
          /\ \A u \in Threads \ {t} : pc'[u] \notin {"i_dwait", "i_double"}
      BY <1>3, <2>3, <2>6, <3>4, ActsOthers DEF Doublers
    <3>6. -1 = Cardinality(Updaters') - loc'[t].val - 1
      BY <2>1, <2>4, <3>1, <3>3, <3>5
    <3>7. ~((Dir.sema)' >= 0)
      BY <2>5
    <3> QED
      BY <2>5, <3>4, <3>5, <3>6, <3>7 DEF DirLock
  <2> QED
    BY <1>1, <1>2, <1>3, <2>3, <2>4, <2>5, <2>6, <2>8, <2>9, DirStep
<1> QED
  BY <1>4, <1>5 DEF SuspendDir

\* Its wait loop.
LEMMA AwaitDirInv ==
  ASSUME Inv, NEW t \in Threads, scenario' = scenario, AwaitDir(t)
  PROVE  Inv'
<1>1. /\ pc[t] = "i_dwait" /\ UNCHANGED <<segs, dirs, dir, todo, acked, races>>
      /\ Goto(t, "i_double") /\ Put(t, "val", 0)
      /\ loc[t].val = 0 \/ Dir.sema = 0 - loc[t].val - 1
  BY DEF AwaitDir, Read
<1>2. pc[t] \in SplitPCs /\ pc[t] \in SharePCs
  BY <1>1 DEF SplitPCs, SharePCs
<1>3. /\ Typed /\ DirsOK /\ loc[t] \in Locals
      /\ races \subseteq races' /\ races' \in SUBSET AllRaces /\ (INPLACE => "stray" \notin races')
  BY <1>1, <1>2, SplitFacts
<1>4. PICK l : l = [loc[t] EXCEPT !["val"] = 0]
  OBVIOUS
<1>5. l \in Locals /\ Acts(t, "i_double", l)
  BY <1>1, <1>3, <1>4, PutLocal
<1>6. /\ l.x = loc[t].x /\ l.check = loc[t].check /\ l.target = loc[t].target
      /\ l.depth = loc[t].depth /\ l.s = loc[t].s
  <2>1. PICK m \in Locals : m = loc[t]
    BY <1>3
  <2> QED
    BY <1>4, <2>1 DEF Locals
<1>7. "i_double" \in PCs /\ "i_double" \in SplitPCs
  BY DEF PCs, SplitPCs
<1>8. LocalAt("i_double", l, todo[t])'
  <2>1. LocalAt("i_double", l, todo[t])
    BY <1>2, <1>5, <1>6, ShareMove
  <2> QED
    BY <1>1, <2>1 DEF LocalAt, Pointers, Depth, Dir, Entries, INPLACE
<1>9. DirsOK' /\ dirs' \in Seq(Directory) /\ dir' \in 1 .. Len(dirs') /\ Dir' = Dir /\ Dir.depth \in Nat
  BY <1>1, <1>3, DirFacts DEF DirsOK, Dir, Entries, Pointers, Depth, Typed
<1>10. DirLock'
  <2>1. /\ t \in Doublers /\ Dir.sema = Cardinality(Updaters) - loc[t].val - 1 /\ DirLock
        /\ loc[t].val \in Nat /\ Dir.sema \in Int
    BY <1>1, <1>3, DirFacts DEF Inv, DirLock, Doublers, Locals
  <2>2. ~(Dir.sema >= 0)
    BY <2>1 DEF DirLock
  <2>3. Updaters \in SUBSET Threads /\ Cardinality(Updaters) \in Nat
    BY ThreadSets DEF Updaters
  <2>4. Cardinality(Updaters) = 0
    BY <1>1, <2>1, <2>2, <2>3
  <2>5. Updaters = {}
    BY <2>3, <2>4, ThreadSets
  <2>6. Updaters' = {}
    BY <1>3, <1>5, <1>7, <2>5, DirRoles
  <2>7. Doublers' = Doublers /\ Doublers = {t}
    BY <1>3, <1>5, <1>7, <2>1, DirRoles DEF DirLock
  <2>8. /\ pc'[t] = "i_double" /\ \A u \in Threads \ {t} : pc'[u] \notin {"i_dwait", "i_double"}
    BY <1>3, <1>5, <1>7, <2>7, ActsOthers DEF Doublers
  <2> QED
    BY <1>9, <2>2, <2>6, <2>7, <2>8 DEF DirLock
<1> QED
  BY <1>1, <1>2, <1>3, <1>5, <1>6, <1>7, <1>8, <1>9, <1>10, DirStep

\* The range of a segment lies within the directory.
LEMMA StrideRange ==
  ASSUME NEW D \in Nat, NEW d \in 0 .. D, NEW x \in 0 .. Pow2[D] - 1
  PROVE  LET stride == Pow2[D - d]
             base == x - (x % stride)
             half == stride \div 2
         IN  base \in Nat /\ half \in Nat /\ base + half + half <= Pow2[D]
<1>0. D - d \in Nat /\ d \in Nat /\ d <= D
  OBVIOUS
<1>1. PICK m \in Nat \ {0}, p \in Nat \ {0}, N \in Nat \ {0} :
        m = Pow2[d] /\ p = Pow2[D - d] /\ N = Pow2[D]
  BY <1>0, Pow2Step
<1>2. N = m * p
  BY <1>0, <1>1, Pow2Diff
<1>3. x \in Nat /\ x < m * p
  BY <1>1, <1>2
<1>4. PICK q \in Nat, r \in 0 .. p - 1 : x \div p = q /\ x % p = r /\ x = p * q + r
  BY <1>3, DivMod
<1>5. q \in 0 .. m - 1
  BY <1>3, <1>4, DivBound
<1>6. x - (x % p) = p * q /\ p * q \in Nat
  BY <1>4
<1>7. p * q + p <= N
  <2>1. \A a, b, c \in Nat : b + 1 <= c => a * b + a <= c * a
    OBVIOUS
  <2>2. q + 1 <= m
    BY <1>5
  <2> QED
    BY <1>2, <2>1, <2>2
<1>8. p \div 2 \in Nat /\ (p \div 2) + (p \div 2) <= p
  OBVIOUS
<1> QED
  BY <1>1, <1>6, <1>7, <1>8

\* The stores of a split go to entries of the directory and store its halves.
LEMMA WritesInRange ==
  ASSUME NEW D \in Nat, NEW d \in 0 .. D, NEW x \in 0 .. Pow2[D] - 1, NEW s \in Nat \X Nat
  PROVE  EntryWrites(x, Pow2[D - d], s) \in Seq((0 .. Pow2[D] - 1) \X {s[1], s[2]})
<1> DEFINE stride == Pow2[D - d]
           base == x - (x % stride)
           half == stride \div 2
           upper == [i \in 1 .. half |-> <<base + half + i - 1, s[2]>>]
           lower == [i \in 1 .. half |-> <<base + i - 1, s[1]>>]
           W == (0 .. Pow2[D] - 1) \X {s[1], s[2]}
<1>1. base \in Nat /\ half \in Nat /\ base + half + half <= Pow2[D] /\ Pow2[D] \in Nat
  BY StrideRange, Pow2Step
<1>2. EntryWrites(x, Pow2[D - d], s) = IF INPLACE THEN upper ELSE upper \o lower
  BY DEF EntryWrites
<1> HIDE DEF base, half
<1>3. \A i \in 1 .. half : upper[i] \in W /\ lower[i] \in W
  <2>1. \A i \in 1 .. half : base + half + i - 1 \in 0 .. Pow2[D] - 1 /\ base + i - 1 \in 0 .. Pow2[D] - 1
    BY <1>1
  <2> QED
    BY <2>1
<1>4. upper \in Seq(W) /\ lower \in Seq(W)
  <2>1. upper \in [1 .. half -> W] /\ lower \in [1 .. half -> W]
    BY <1>3
  <2>2. \A S : \A n \in Nat : \A f \in [1 .. n -> S] : f \in Seq(S)
    OBVIOUS
  <2> QED
    BY <1>1, <2>1, <2>2
<1> HIDE DEF upper, lower, W
<1>5. upper \o lower \in Seq(W)
  BY <1>4
<1> QED
  BY <1>2, <1>4, <1>5 DEF W

\* lock() of the directory.
LEMMA LockDirInv ==
  ASSUME Inv, NEW t \in Threads, scenario' = scenario, LockDir(t)
  PROVE  Inv'
<1>1. /\ pc[t] = "i_dlock" /\ UNCHANGED <<segs, dir, todo, acked, races>> /\ Dir.sema >= 0
      /\ Goto(t, "i_update") /\ SetDirSema(Dir.sema + 1)
  BY DEF LockDir
<1>2. pc[t] \in SplitPCs /\ pc[t] \in SharePCs /\ "i_update" \in PCs /\ "i_update" \in SplitPCs
  BY <1>1 DEF SplitPCs, SharePCs, PCs
<1>3. /\ Typed /\ DirsOK /\ loc[t] \in Locals /\ LocalAt(pc[t], loc[t], todo[t]) /\ todo[t] # <<>>
      /\ races \subseteq races' /\ races' \in SUBSET AllRaces /\ (INPLACE => "stray" \notin races')
  BY <1>1, <1>2, SplitFacts
<1>4. PICK D \in Nat, n \in Int : D = Dir.depth /\ n = Dir.sema + 1
  <2>1. Dir.depth \in Nat /\ Dir.sema \in Int
    BY <1>3, DirFacts
  <2> QED
    BY <2>1
<1>5. /\ loc[t].depth \in 0 .. D /\ Prefix(Key(t), D) \in 0 .. Pow2[D] - 1
      /\ loc[t].s \in Nat \X Nat /\ Pow2[D] \in Nat
  BY <1>3, <1>4, LocalSame, Facts, Pow2Step DEF Entries, Locals
<1>6. PICK w : w = EntryWrites(Prefix(Key(t), D), Pow2[D - loc[t].depth], loc[t].s)
  OBVIOUS
<1>7. w \in Seq((0 .. Pow2[D] - 1) \X {loc[t].s[1], loc[t].s[2]})
  BY <1>4, <1>5, <1>6, WritesInRange
<1>8. w \in Seq(Nat \X Nat)
  <2>1. (0 .. Pow2[D] - 1) \X {loc[t].s[1], loc[t].s[2]} \subseteq Nat \X Nat
    BY <1>5
  <2>2. \A S, T : S \subseteq T => \A q \in Seq(S) : q \in Seq(T)
    OBVIOUS
  <2> QED
    BY <1>7, <2>1, <2>2
<1>9. PICK l : l = [loc[t] EXCEPT !["writes"] = w]
  OBVIOUS
<1>10. l \in Locals /\ Acts(t, "i_update", l)
  <2>1. Put(t, "writes", w)
    BY <1>4, <1>6 DEF LockDir
  <2> QED
    BY <1>1, <1>3, <1>8, <1>9, <2>1, PutLocal
<1>11. /\ l.x = loc[t].x /\ l.check = loc[t].check /\ l.target = loc[t].target
       /\ l.depth = loc[t].depth /\ l.s = loc[t].s /\ l.writes = w
  <2>1. PICK m \in Locals : m = loc[t]
    BY <1>3
  <2> QED
    BY <1>9, <2>1 DEF Locals
<1>12. LocalAt("i_update", l, todo[t])
  <2>1. \A i \in 1 .. Len(w) : w[i][1] \in Entries(Dir) /\ w[i][2] \in {l.s[1], l.s[2]}
    <3>1. \A S, T : \A q \in Seq(S \X T) : \A i \in 1 .. Len(q) : q[i][1] \in S /\ q[i][2] \in T
      OBVIOUS
    <3> QED
      BY <1>4, <1>7, <1>11, <3>1 DEF Entries
  <2>2. pc[t] \notin NoTargetPCs /\ Depth(loc[t].target) < Dir.depth
    BY <1>1, <1>3 DEF NoTargetPCs, LocalAt
  <2> QED
    BY <1>2, <1>3, <1>11, <2>1, <2>2 DEF LocalAt
<1>13. /\ dirs' \in Seq(Directory) /\ dir' \in 1 .. Len(dirs') /\ DirsOK'
       /\ (Dir.depth)' = Dir.depth /\ (Dir.sema)' = n /\ Dir.depth \in Nat
  BY <1>1, <1>3, <1>4, DirSemaStore
<1>14. LocalAt("i_update", l, todo[t])'
  <2>1. PICK q : q = todo[t]
    OBVIOUS
  <2>2. INPLACE' = INPLACE
    BY DEF INPLACE
  <2>3. Len(segs') \in Nat /\ Len(segs) <= Len(segs') /\ \A i \in Pointers : Depth(i)' = Depth(i)
    BY <1>1, <1>3 DEF Typed, Depth
  <2>4. LocalAt("i_update", l, q)'
    BY <1>3, <1>10, <1>12, <1>13, <2>1, <2>2, <2>3, LocalGrows
  <2> QED
    BY <1>1, <2>1, <2>4
<1>15. DirLock'
  <2>1. Doublers = {} /\ Dir.sema = Cardinality(Updaters)
    BY <1>1 DEF Inv, DirLock
  <2>2. t \notin Updaters /\ Updaters \in SUBSET Threads /\ Cardinality(Updaters) \in Nat
    BY <1>1, ThreadSets DEF Updaters
  <2>3. Updaters' = Updaters \cup {t}
    BY <1>2, <1>3, <1>10, DirRoles
  <2>4. Doublers' = {}
    BY <1>2, <1>3, <1>10, <2>1, DirRoles
  <2>5. Cardinality(Updaters') = Cardinality(Updaters) + 1
    BY <2>2, <2>3, ThreadAdd
  <2>6. \A u \in Threads : pc'[u] # "i_dwait" /\ pc'[u] # "i_double"
    BY <2>4 DEF Doublers
  <2> QED
    BY <1>4, <1>13, <2>1, <2>4, <2>5, <2>6 DEF DirLock
<1> QED
  BY <1>1, <1>2, <1>3, <1>10, <1>11, <1>13, <1>14, <1>15, DirStep

\* Where a thread goes after it has published its split.
LEMMA PublishedActs ==
  ASSUME Inv, NEW t \in Threads, pc[t] \in SplitPCs, scenario' = scenario, Published(t)
  PROVE  \E p \in {"i_finish", "i_depth"}, l \in Locals :
           /\ Acts(t, p, l)
           /\ \/ p = "i_finish" /\ l = loc[t] /\ INPLACE
              \/ p = "i_depth" /\ ~INPLACE /\ LocalAt("i_depth", l, todo[t])
<1>1. Typed /\ loc[t] \in Locals /\ todo[t] # <<>>
  BY SplitFacts
<1>2. CASE INPLACE
  <2>1. Acts(t, "i_finish", loc[t])
    BY <1>1, <1>2 DEF Published, Acts, Goto, Typed
  <2> QED
    BY <1>1, <1>2, <2>1
<1>3. CASE ~INPLACE
  <2>1. PICK l : l = [NoLocals EXCEPT !.must = loc[t].must]
    OBVIOUS
  <2>2. Acts(t, "i_depth", l) /\ "i_depth" \in NoTargetPCs
    BY <1>3, <2>1 DEF Published, Acts, Retry, Goto, NoTargetPCs
  <2>3. l \in Locals /\ LocalAt("i_depth", l, todo[t])
    BY <1>1, <2>1, <2>2, FreshLocals
  <2> QED
    BY <1>3, <2>2, <2>3
<1> QED
  BY <1>2, <1>3

\* unlock() of the directory.
LEMMA UnlockDirInv ==
  ASSUME Inv, NEW t \in Threads, scenario' = scenario, UnlockDir(t)
  PROVE  Inv'
<1>1. /\ pc[t] = "i_update" /\ UNCHANGED <<segs, dir, todo, acked, races>>
      /\ SetDirSema(Dir.sema - 1) /\ Published(t)
  BY DEF UnlockDir
<1>2. pc[t] \in SplitPCs /\ pc[t] \in SharePCs /\ {"i_finish", "i_depth"} \subseteq PCs
      /\ "i_finish" \in SplitPCs /\ "i_depth" \in NoTargetPCs
  BY <1>1 DEF SplitPCs, SharePCs, PCs, NoTargetPCs
<1>3. /\ Typed /\ DirsOK /\ loc[t] \in Locals /\ LocalAt(pc[t], loc[t], todo[t]) /\ todo[t] # <<>>
      /\ races \subseteq races' /\ races' \in SUBSET AllRaces /\ (INPLACE => "stray" \notin races')
  BY <1>1, <1>2, SplitFacts
<1>4. PICK p \in {"i_finish", "i_depth"}, l \in Locals :
           /\ Acts(t, p, l)
           /\ \/ p = "i_finish" /\ l = loc[t] /\ INPLACE
              \/ p = "i_depth" /\ ~INPLACE /\ LocalAt("i_depth", l, todo[t])
  BY <1>1, <1>2, PublishedActs
<1>5. LocalAt(p, l, todo[t])
  <2>1. CASE p = "i_finish" /\ l = loc[t] /\ INPLACE
    <3>1. pc[t] \notin NoTargetPCs /\ p \notin SharePCs
      BY <1>1, <2>1 DEF NoTargetPCs, SharePCs
    <3> QED
      BY <1>1, <1>2, <1>3, <2>1, <3>1 DEF LocalAt
  <2> QED
    BY <1>4, <2>1
<1>6. PICK n \in Int : n = Dir.sema - 1 /\ Dir.sema \in Int
  <2>1. Dir.sema \in Int
    BY <1>3, DirFacts
  <2> QED
    BY <2>1
<1>7. /\ dirs' \in Seq(Directory) /\ dir' \in 1 .. Len(dirs') /\ DirsOK'
      /\ (Dir.depth)' = Dir.depth /\ (Dir.sema)' = n /\ Dir.depth \in Nat
  BY <1>1, <1>3, <1>6, DirSemaStore
<1>8. LocalAt(p, l, todo[t])'
  <2>1. PICK q : q = todo[t]
    OBVIOUS
  <2>2. INPLACE' = INPLACE
    BY DEF INPLACE
  <2>3. Len(segs') \in Nat /\ Len(segs) <= Len(segs') /\ \A i \in Pointers : Depth(i)' = Depth(i)
    BY <1>1, <1>3 DEF Typed, Depth
  <2>4. LocalAt(p, l, q)'
    BY <1>3, <1>5, <1>7, <2>1, <2>2, <2>3, LocalGrows
  <2> QED
    BY <1>1, <2>1, <2>4
<1>9. DirLock'
  <2>1. t \in Updaters /\ Updaters \in SUBSET Threads /\ DirLock
    BY <1>1 DEF Updaters, Inv
  <2>2. Cardinality(Updaters) \in Nat \ {0}
    BY <2>1, ThreadSets
  <2>3. p \in PCs /\ p # "i_update" /\ p \notin {"i_dwait", "i_double"} /\ t \notin Doublers
    BY <1>1, <1>2 DEF Doublers
  <2>4. Updaters' = Updaters \ {t}
    BY <1>3, <1>4, <2>3, DirRoles
  <2>5. Doublers' = Doublers
    BY <1>3, <1>4, <2>3, DirRoles
  <2>6. Cardinality(Updaters') = Cardinality(Updaters) - 1
    BY <2>1, <2>4, ThreadRemove
  <2>7. /\ \A u \in Threads : pc'[u] = "i_dwait" => pc[u] = "i_dwait" /\ loc'[u].val = loc[u].val
        /\ \A u \in Threads : pc'[u] # "i_double"
    <3>1. pc'[t] = p
      BY <1>3, <1>4, <2>3, ActsOthers
    <3>2. \A u \in Threads : pc[u] # "i_double"
      BY <2>1 DEF DirLock
    <3> QED
      BY <1>3, <1>4, <2>3, <3>1, <3>2, DirRoles
  <2>8. \A u \in Threads : pc[u] = "i_dwait" => loc[u].val \in Nat
    BY <1>3 DEF Typed, Locals
  <2>9. n >= 0 => Doublers = {} /\ n = Cardinality(Updaters) - 1
    BY <1>6, <2>1, <2>2 DEF DirLock
  <2>10. \A u \in Threads : pc'[u] = "i_dwait" => n = Cardinality(Updaters') - loc'[u].val - 1
    BY <1>6, <2>1, <2>2, <2>6, <2>7, <2>8 DEF DirLock
  <2>11. \A u, v \in Doublers' : u = v
    BY <2>1, <2>5 DEF DirLock
  <2> QED
    BY <1>7, <2>5, <2>6, <2>7, <2>9, <2>10, <2>11 DEF DirLock
<1> QED
  BY <1>1, <1>2, <1>3, <1>4, <1>7, <1>8, <1>9, DirStep

\* A store into an entry of the directory.
LEMMA EntryStore ==
  ASSUME Typed, DirsOK, NEW x \in Entries(Dir), NEW k \in Pointers, Depth(k) <= Dir.depth,
         dirs' = [dirs EXCEPT ![dir].segment[x] = k], UNCHANGED <<segs, dir>>
  PROVE  /\ dirs' \in Seq(Directory) /\ dir' \in 1 .. Len(dirs') /\ DirsOK'
         /\ (Dir.depth)' = Dir.depth /\ (Dir.sema)' = Dir.sema /\ Dir.depth \in Nat
<1>1. /\ Dir \in Directory /\ dirs \in Seq(Directory) /\ dir \in 1 .. Len(dirs) /\ Dir.depth \in Nat
      /\ Dir.segment \in [Entries(Dir) -> Pointers] /\ Pow2[Dir.depth] \in Nat \ {0}
  BY DirFacts DEF Typed
<1>2. PICK f : f = [Dir.segment EXCEPT ![x] = k]
  OBVIOUS
<1>3. /\ f \in [Entries(Dir) -> Pointers] /\ f \in UNION {[0 .. n -> Nat] : n \in Nat}
      /\ \A y \in Entries(Dir) : f[y] = k \/ f[y] = Dir.segment[y]
  <2>1. f \in [Entries(Dir) -> Pointers] /\ \A y \in Entries(Dir) : f[y] = k \/ f[y] = Dir.segment[y]
    BY <1>1, <1>2
  <2>2. PICK n \in Nat : n = Pow2[Dir.depth] - 1
    BY <1>1
  <2>3. Entries(Dir) = 0 .. n /\ Pointers \subseteq Nat
    BY <2>2 DEF Entries, Pointers
  <2>4. f \in [0 .. n -> Nat]
    BY <2>1, <2>3
  <2> QED
    BY <2>1, <2>4
<1>4. PICK e : e = [Dir EXCEPT !.segment = f]
  OBVIOUS
<1>5. e \in Directory /\ e.sema = Dir.sema /\ e.depth = Dir.depth /\ e.segment = f
  BY <1>1, <1>3, <1>4 DEF Directory
<1>6. dirs' = [dirs EXCEPT ![dir] = e]
  BY <1>2, <1>4 DEF Dir
<1>7. dirs' \in Seq(Directory) /\ Len(dirs') = Len(dirs)
  BY <1>1, <1>5, <1>6
<1>8. dirs'[dir] = e /\ \A d \in 1 .. Len(dirs) \ {dir} : dirs'[d] = dirs[d]
  BY <1>1, <1>6
<1>9. Dir' = e
  BY <1>8 DEF Dir
<1>10. Pointers' = Pointers /\ \A i : Depth(i)' = Depth(i)
  BY DEF Pointers, Depth
<1>11. DirsOK'
  <2>1. \A d \in 1 .. Len(dirs') : dirs'[d].segment \in [Entries(dirs'[d]) -> Pointers']
    <3>1. e.segment \in [Entries(e) -> Pointers']
      BY <1>3, <1>5, <1>10 DEF Entries
    <3> QED
      BY <1>7, <1>8, <1>10, <3>1 DEF DirsOK
  <2>2. \A y \in Entries(e) : Depth(e.segment[y])' <= e.depth
    BY <1>3, <1>5, <1>10 DEF DirsOK, Entries
  <2>3. \A y \in Entries(Dir') : segs'[Dir'.segment[y]].local_depth <= Dir'.depth
    BY <1>9, <2>2 DEF Depth
  <2> QED
    BY <2>1, <2>3 DEF DirsOK, Entries, Depth
<1> QED
  BY <1>1, <1>5, <1>7, <1>9, <1>11

\* The stores of the entries.
LEMMA StoreEntryInv ==
  ASSUME Inv, NEW t \in Threads, scenario' = scenario, StoreEntry(t)
  PROVE  Inv'
<1>1. /\ pc[t] = "i_update" /\ UNCHANGED <<segs, dir, pc, todo, acked>>
      /\ races' = races \/ races' = races \cup {"nested"}
      /\ loc[t].writes # <<>> /\ Put(t, "writes", Tail(loc[t].writes))
      /\ dirs' = [dirs EXCEPT ![dir].segment[Head(loc[t].writes)[1]] = Head(loc[t].writes)[2]]
  BY DEF StoreEntry
<1>2. pc[t] \in SplitPCs /\ pc[t] \in SharePCs /\ "i_update" \in PCs /\ pc[t] \notin NoTargetPCs
  BY <1>1 DEF SplitPCs, SharePCs, PCs, NoTargetPCs
<1>3. /\ Typed /\ DirsOK /\ loc[t] \in Locals /\ LocalAt(pc[t], loc[t], todo[t]) /\ todo[t] # <<>>
      /\ races \subseteq races' /\ races' \in SUBSET AllRaces /\ (INPLACE => "stray" \notin races')
  BY <1>1, <1>2, SplitFacts DEF AllRaces
<1>4. loc[t].writes \in Seq(Nat \X Nat)
  BY <1>3 DEF Locals
<1>5. PICK w \in Seq(Nat \X Nat) : w = Tail(loc[t].writes)
  <2>1. \A S : \A q \in Seq(S) : q # <<>> => Tail(q) \in Seq(S)
    OBVIOUS
  <2> QED
    BY <1>1, <1>4, <2>1
<1>6. /\ 1 \in 1 .. Len(loc[t].writes) /\ Head(loc[t].writes) = loc[t].writes[1]
      /\ Len(w) = Len(loc[t].writes) - 1 /\ \A i \in 1 .. Len(w) : w[i] = loc[t].writes[i + 1]
  BY <1>1, <1>4, <1>5
<1>7. PICK x \in Entries(Dir), k \in {loc[t].s[1], loc[t].s[2]} :
        x = Head(loc[t].writes)[1] /\ k = Head(loc[t].writes)[2]
  BY <1>1, <1>3, <1>6 DEF LocalAt
<1>8. k \in Pointers /\ Depth(k) <= Dir.depth
  <2>1. /\ loc[t].target \in Pointers /\ Depth(loc[t].target) < Dir.depth
        /\ k \in Pointers /\ (Depth(k) <= Depth(loc[t].target) + 1 \/ Depth(k) <= Dir.depth)
    BY <1>1, <1>2, <1>3, <1>7 DEF LocalAt
  <2>2. Depth(k) \in Nat /\ Depth(loc[t].target) \in Nat /\ Dir.depth \in Nat
    BY <1>3, <2>1, SegFacts, DirFacts
  <2> QED
    BY <2>1, <2>2
<1>9. PICK l : l = [loc[t] EXCEPT !["writes"] = w]
  OBVIOUS
<1>10. l \in Locals /\ Acts(t, "i_update", l)
  <2>1. Put(t, "writes", w) /\ Goto(t, "i_update")
    BY <1>1, <1>3, <1>5 DEF Goto, Typed
  <2> QED
    BY <1>3, <1>5, <1>9, <2>1, PutLocal
<1>11. /\ l.x = loc[t].x /\ l.check = loc[t].check /\ l.target = loc[t].target
       /\ l.depth = loc[t].depth /\ l.s = loc[t].s /\ l.writes = w /\ l.val = loc[t].val
  <2>1. PICK m \in Locals : m = loc[t]
    BY <1>3
  <2> QED
    BY <1>9, <2>1 DEF Locals
<1>12. LocalAt("i_update", l, todo[t])
  <2>1. \A i \in 1 .. Len(w) : w[i][1] \in Entries(Dir) /\ w[i][2] \in {l.s[1], l.s[2]}
    <3>1. \A i \in 1 .. Len(w) : i + 1 \in 1 .. Len(loc[t].writes)
      BY <1>4, <1>5, <1>6
    <3> QED
      BY <1>1, <1>3, <1>6, <1>11, <3>1 DEF LocalAt
  <2> QED
    BY <1>1, <1>2, <1>3, <1>11, <2>1 DEF LocalAt
<1>13. /\ dirs' \in Seq(Directory) /\ dir' \in 1 .. Len(dirs') /\ DirsOK'
       /\ (Dir.depth)' = Dir.depth /\ (Dir.sema)' = Dir.sema /\ Dir.depth \in Nat
  <2>1. dirs' = [dirs EXCEPT ![dir].segment[x] = k]
    BY <1>1, <1>7
  <2> QED
    BY <1>1, <1>3, <1>8, <2>1, EntryStore
<1>14. LocalAt("i_update", l, todo[t])'
  <2>1. PICK q : q = todo[t]
    OBVIOUS
  <2>2. INPLACE' = INPLACE
    BY DEF INPLACE
  <2>3. Len(segs') \in Nat /\ Len(segs) <= Len(segs') /\ \A i \in Pointers : Depth(i)' = Depth(i)
    BY <1>1, <1>3 DEF Typed, Depth
  <2>4. LocalAt("i_update", l, q)'
    BY <1>3, <1>10, <1>12, <1>13, <2>1, <2>2, <2>3, LocalGrows
  <2> QED
    BY <1>1, <2>1, <2>4
<1>15. DirLock'
  BY <1>1, <1>2, <1>10, <1>11, <1>13, DirKept
<1>16. "i_update" \in SplitPCs /\ (Dir.depth)' \in Nat /\ Dir.depth <= (Dir.depth)'
  BY <1>13 DEF SplitPCs
<1>17. UNCHANGED <<segs, todo, acked>> /\ l.target = loc[t].target
  BY <1>1, <1>11
<1> QED
  BY <1>2, <1>3, <1>10, <1>13, <1>14, <1>15, <1>16, <1>17, DirStep

\* The doubled directory points to the same segments and to the two halves.
LEMMA DoubledDir ==
  ASSUME Typed, DirsOK, NEW x, NEW s \in Pointers \X Pointers, Dir.depth < HashBits,
         Depth(s[1]) <= Dir.depth + 1, Depth(s[2]) <= Dir.depth + 1,
         dirs' = Append(dirs, Doubled(Dir, x, s)), dir' = Len(dirs) + 1, segs' = segs
  PROVE  /\ dirs' \in Seq(Directory) /\ dir' \in 1 .. Len(dirs') /\ DirsOK'
         /\ (Dir.depth)' = Dir.depth + 1 /\ (Dir.sema)' = 0 /\ Dir.depth \in Nat
<1>1. /\ Dir \in Directory /\ dirs \in Seq(Directory) /\ Dir.depth \in Nat /\ HashBits \in Nat
      /\ Dir.segment \in [Entries(Dir) -> Pointers] /\ Pow2[Dir.depth] \in Nat \ {0}
      /\ Dir.depth \in 1 .. HashBits
  BY DirFacts DEF Typed
<1>2. PICK D \in Nat, N \in Nat \ {0} : D = Dir.depth /\ N = Pow2[D]
  BY <1>1
<1>3. Pow2[D + 1] = 2 * N /\ D + 1 \in 1 .. HashBits
  <2>1. Pow2[D + 1] = 2 * Pow2[D]
    BY Pow2Step
  <2>2. D < HashBits
    BY <1>2
  <2> QED
    BY <1>1, <1>2, <2>1, <2>2
<1> DEFINE f == [n \in 0 .. Pow2[D + 1] - 1 |->
                   IF n \div 2 = x THEN s[(n % 2) + 1] ELSE Dir.segment[n \div 2]]
           e == [depth |-> D + 1, sema |-> 0, segment |-> f]
<1>4. Doubled(Dir, x, s) = e
  BY <1>2 DEF Doubled
<1>5. \A n \in 0 .. Pow2[D + 1] - 1 : n \div 2 \in 0 .. N - 1 /\ n % 2 \in {0, 1}
  BY <1>3
<1>6. Entries(Dir) = 0 .. N - 1
  BY <1>2 DEF Entries
<1>7. \A n \in 0 .. Pow2[D + 1] - 1 : f[n] \in {s[1], s[2]} \/ \E y \in Entries(Dir) : f[n] = Dir.segment[y]
  BY <1>5, <1>6
<1>8. \A n \in 0 .. Pow2[D + 1] - 1 : f[n] \in Pointers /\ Depth(f[n]) <= D + 1
  <2> SUFFICES ASSUME NEW n \in 0 .. Pow2[D + 1] - 1 PROVE f[n] \in Pointers /\ Depth(f[n]) <= D + 1
    OBVIOUS
  <2> HIDE DEF f
  <2>1. CASE f[n] \in {s[1], s[2]}
    BY <1>2, <2>1
  <2>2. ASSUME NEW y \in Entries(Dir), f[n] = Dir.segment[y] PROVE f[n] \in Pointers /\ Depth(f[n]) <= D + 1
    <3>1. f[n] \in Pointers /\ Depth(f[n]) <= Dir.depth
      BY <1>1, <2>2 DEF DirsOK
    <3>2. Depth(f[n]) \in Nat
      BY <1>1, <3>1, SegFacts
    <3> QED
      BY <1>2, <3>1, <3>2
  <2> QED
    BY <1>7, <2>1, <2>2
<1>9. f \in [Entries(e) -> Pointers] /\ f \in UNION {[0 .. n -> Nat] : n \in Nat}
  <2>1. f \in [0 .. Pow2[D + 1] - 1 -> Pointers]
    BY <1>8
  <2>2. PICK n \in Nat : n = Pow2[D + 1] - 1
    BY <1>3
  <2>3. Pointers \subseteq Nat
    BY DEF Pointers
  <2> HIDE DEF f
  <2>4. f \in [0 .. n -> Nat]
    BY <2>1, <2>2, <2>3
  <2>5. Entries(e) = 0 .. Pow2[D + 1] - 1
    BY DEF Entries
  <2> QED
    BY <2>1, <2>4, <2>5
<1>10. e \in Directory
  <2>1. PICK E : E = UNION {[0 .. n -> Nat] : n \in Nat}
    OBVIOUS
  <2>2. f \in E /\ Directory = [depth : 1 .. HashBits, sema : Int, segment : E]
    BY <1>9, <2>1 DEF Directory
  <2> HIDE DEF f
  <2> QED
    BY <1>3, <2>2
<1>11. e.depth = D + 1 /\ e.sema = 0 /\ e.segment = f
  OBVIOUS
<1>12. \A y \in Entries(e) : Depth(e.segment[y]) <= e.depth
  BY <1>8 DEF Entries
<1> HIDE DEF e
<1>13. dirs' = Append(dirs, e)
  BY <1>4
<1>14. /\ dirs' \in Seq(Directory) /\ Len(dirs') = Len(dirs) + 1 /\ Len(dirs) \in Nat
       /\ dirs'[Len(dirs) + 1] = e /\ \A d \in 1 .. Len(dirs) : dirs'[d] = dirs[d]
  BY <1>1, <1>10, <1>13
<1>15. Dir' = e
  BY <1>14 DEF Dir
<1>16. Pointers' = Pointers /\ \A i : Depth(i)' = Depth(i)
  BY DEF Pointers, Depth
<1>17. DirsOK'
  <2>1. \A d \in 1 .. Len(dirs') : dirs'[d].segment \in [Entries(dirs'[d]) -> Pointers']
    <3>1. e.segment \in [Entries(e) -> Pointers']
      BY <1>9, <1>11, <1>16
    <3>2. \A d \in 1 .. Len(dirs') : d = Len(dirs) + 1 \/ d \in 1 .. Len(dirs)
      BY <1>14
    <3> QED
      BY <1>14, <1>16, <3>1, <3>2 DEF DirsOK
  <2>2. \A y \in Entries(Dir') : segs'[Dir'.segment[y]].local_depth <= Dir'.depth
    BY <1>12, <1>15 DEF Depth
  <2> QED
    BY <2>1, <2>2 DEF DirsOK, Entries, Depth
<1>18. dir' \in 1 .. Len(dirs')
  BY <1>14
<1> QED
  BY <1>1, <1>2, <1>11, <1>14, <1>15, <1>17, <1>18

\* The doubling of the directory.
LEMMA DoubleDirInv ==
  ASSUME Inv, NEW t \in Threads, scenario' = scenario, DoubleDir(t)
  PROVE  Inv'
<1>1. /\ pc[t] = "i_double" /\ UNCHANGED <<segs, todo, acked>> /\ Dir.depth < HashBits
      /\ Published(t) /\ dir' = Len(dirs) + 1
      /\ dirs' = Append(dirs, Doubled(Dir, Prefix(Key(t), Dir.depth), loc[t].s))
      /\ races' = races \cup (IF Cur(t).local_depth = Dir.depth THEN {} ELSE {"skew"})
  BY DEF DoubleDir
<1>2. pc[t] \in SplitPCs /\ pc[t] \in SharePCs /\ {"i_finish", "i_depth"} \subseteq PCs
      /\ "i_finish" \in SplitPCs /\ "i_depth" \in NoTargetPCs /\ pc[t] \notin NoTargetPCs
  BY <1>1 DEF SplitPCs, SharePCs, PCs, NoTargetPCs
<1>3. /\ Typed /\ DirsOK /\ loc[t] \in Locals /\ LocalAt(pc[t], loc[t], todo[t]) /\ todo[t] # <<>>
      /\ races \in SUBSET AllRaces /\ (INPLACE => "stray" \notin races)
  BY <1>1, <1>2, SplitFacts
<1>4. races \subseteq races' /\ races' \in SUBSET AllRaces /\ (INPLACE => "stray" \notin races')
  BY <1>1, <1>3 DEF AllRaces
<1>5. PICK p \in {"i_finish", "i_depth"}, l \in Locals :
           /\ Acts(t, p, l)
           /\ \/ p = "i_finish" /\ l = loc[t] /\ INPLACE
              \/ p = "i_depth" /\ ~INPLACE /\ LocalAt("i_depth", l, todo[t])
  BY <1>1, <1>2, PublishedActs
<1>6. /\ loc[t].target \in Pointers /\ Depth(loc[t].target) <= Dir.depth
      /\ Depth(loc[t].target) < HashBits
      /\ loc[t].s[1] \in Pointers /\ loc[t].s[2] \in Pointers
      /\ Depth(loc[t].s[1]) <= Depth(loc[t].target) + 1 \/ Depth(loc[t].s[1]) <= Dir.depth
      /\ Depth(loc[t].s[2]) <= Depth(loc[t].target) + 1 \/ Depth(loc[t].s[2]) <= Dir.depth
  BY <1>1, <1>2, <1>3 DEF LocalAt
<1>7. /\ Depth(loc[t].target) \in Nat /\ Depth(loc[t].s[1]) \in Nat /\ Depth(loc[t].s[2]) \in Nat
      /\ Dir.depth \in Nat
  BY <1>3, <1>6, SegFacts, DirFacts
<1>8. Depth(loc[t].s[1]) <= Dir.depth + 1 /\ Depth(loc[t].s[2]) <= Dir.depth + 1
  BY <1>6, <1>7
<1>9. loc[t].s \in Pointers \X Pointers
  <2>1. loc[t].s \in Nat \X Nat
    BY <1>3 DEF Locals
  <2> QED
    BY <1>6, <2>1
<1>10. /\ dirs' \in Seq(Directory) /\ dir' \in 1 .. Len(dirs') /\ DirsOK'
       /\ (Dir.depth)' = Dir.depth + 1 /\ (Dir.sema)' = 0 /\ Dir.depth \in Nat
  BY <1>1, <1>3, <1>8, <1>9, DoubledDir
<1>11. (Dir.depth)' \in Nat /\ Dir.depth <= (Dir.depth)' /\ INPLACE' = INPLACE
  BY <1>10 DEF INPLACE
<1>12. LocalAt(p, l, todo[t])'
  <2>1. PICK q : q = todo[t]
    OBVIOUS
  <2>2. Len(segs') \in Nat /\ Len(segs) <= Len(segs') /\ \A i \in Pointers : Depth(i)' = Depth(i)
    BY <1>1, <1>3 DEF Typed, Depth
  <2>3. CASE p = "i_depth" /\ ~INPLACE /\ LocalAt("i_depth", l, todo[t])
    <3>1. LocalAt(p, l, q)'
      BY <1>3, <1>11, <2>1, <2>2, <2>3, LocalGrows
    <3> QED
      BY <1>1, <2>1, <3>1
  <2>4. CASE p = "i_finish" /\ l = loc[t] /\ INPLACE
    <3>1. LocalAt("i_double", l, q)'
      BY <1>1, <1>3, <1>11, <2>1, <2>2, <2>4, LocalGrows
    <3>2. Depth(l.target)' < (Dir.depth)' /\ Depth(l.target)' < HashBits
      <4>1. PICK i \in Pointers : i = l.target
        BY <1>6, <2>4
      <4>2. Depth(i)' = Depth(i) /\ Depth(i) = Depth(loc[t].target)
        BY <2>2, <2>4, <4>1
      <4>3. Depth(i)' < (Dir.depth)' /\ Depth(i)' < HashBits
        BY <1>6, <1>7, <1>10, <4>2
      <4> QED
        BY <4>1, <4>3
    <3>3. "i_double" \notin NoTargetPCs /\ "i_finish" \notin SharePCs
      BY DEF NoTargetPCs, SharePCs
    <3>4. LocalAt("i_finish", l, q)'
      BY <1>11, <2>4, <3>1, <3>2, <3>3 DEF LocalAt
    <3> QED
      BY <1>1, <2>1, <2>4, <3>4
  <2> QED
    BY <1>5, <2>3, <2>4
<1>13. DirLock'
  <2>1. Updaters = {} /\ Doublers = {t}
    BY <1>1 DEF Inv, DirLock, Doublers
  <2>2. p \in PCs /\ p # "i_update" /\ p \notin {"i_dwait", "i_double"}
    BY <1>2
  <2>3. Updaters' = {}
    BY <1>3, <1>5, <2>1, <2>2, DirRoles
  <2>4. Doublers' = {}
    BY <1>3, <1>5, <2>1, <2>2, DirRoles
  <2>5. Cardinality(Updaters') = 0
    BY <2>3, FS_EmptySet
  <2>6. \A u \in Threads : pc'[u] # "i_dwait" /\ pc'[u] # "i_double"
    BY <2>4 DEF Doublers
  <2> QED
    BY <1>10, <2>4, <2>5, <2>6 DEF DirLock
<1> QED
  BY <1>1, <1>2, <1>3, <1>4, <1>5, <1>10, <1>11, <1>12, <1>13, DirStep

\* What the locals of another thread hold still holds when the depth of a
\* segment that it does not split is raised, and stays within the directory's.
LEMMA LocalDeepens ==
  ASSUME Typed, DirsOK, NEW p, NEW l \in Locals, NEW q, LocalAt(p, l, q),
         NEW k \in Pointers, Depth(k)' = Depth(k) + 1, Depth(k) < Dir.depth,
         \A i \in Pointers \ {k} : Depth(i)' = Depth(i),
         Len(segs') = Len(segs), UNCHANGED <<dirs, dir, scenario>>,
         p \in SplitPCs => l.target # k
  PROVE  LocalAt(p, l, q)'
<1>1. Pointers' = Pointers /\ Dir' = Dir /\ Entries(Dir)' = Entries(Dir) /\ INPLACE' = INPLACE
  BY DEF Pointers, Dir, Entries, INPLACE
<1>2. Dir.depth \in Nat /\ \A i \in Pointers : Depth(i) \in Nat
  BY DirFacts, SegFacts
<1>3. \A i \in Pointers : Depth(i) <= Dir.depth => Depth(i)' <= Dir.depth
  <2> SUFFICES ASSUME NEW i \in Pointers, Depth(i) <= Dir.depth PROVE Depth(i)' <= Dir.depth
    OBVIOUS
  <2>1. CASE i = k
    BY <1>2, <2>1
  <2>2. CASE i # k
    BY <2>2
  <2> QED
    BY <2>1, <2>2
<1>4. p \in SharePCs \cup {"i_finish"} => p \in SplitPCs /\ p \notin NoTargetPCs
  BY DEF SharePCs, SplitPCs, NoTargetPCs
<1>5. p \in SharePCs \cup {"i_finish"} =>
        l.target \in Pointers /\ l.target # k /\ Depth(l.target)' = Depth(l.target)
  BY <1>4 DEF LocalAt
<1>6. p \notin NoTargetPCs => l.target \in Pointers' /\ Depth(l.target)' <= Dir.depth
  BY <1>1, <1>3 DEF LocalAt
<1>7. ASSUME p \in SharePCs, NEW i \in Pointers,
             Depth(i) <= Depth(l.target) + 1 \/ Depth(i) <= Dir.depth
      PROVE  Depth(i)' <= Depth(l.target)' + 1 \/ Depth(i)' <= Dir.depth
  <2>1. CASE i = k
    BY <1>2, <1>3, <2>1
  <2>2. CASE i # k
    BY <1>5, <1>7, <2>2
  <2> QED
    BY <2>1, <2>2
<1>8. p \in SharePCs =>
         /\ l.s[1] \in Pointers'
         /\ Depth(l.s[1])' <= Depth(l.target)' + 1 \/ Depth(l.s[1])' <= Dir.depth
         /\ l.s[2] \in Pointers'
         /\ Depth(l.s[2])' <= Depth(l.target)' + 1 \/ Depth(l.s[2])' <= Dir.depth
  BY <1>1, <1>7 DEF LocalAt
<1>9. /\ p \in SharePCs \cup {"i_finish"} => Depth(l.target)' < HashBits
      /\ p \in {"i_dlock", "i_update", "i_finish"} => Depth(l.target)' < Dir.depth
  BY <1>5 DEF LocalAt, SharePCs
<1> QED
  BY <1>1, <1>6, <1>8, <1>9 DEF LocalAt

\* The end of an in-place split: the local depth is raised, the target opened.
LEMMA FinishInv ==
  ASSUME Inv, NEW t \in Threads, scenario' = scenario, FinishSplit(t)
  PROVE  Inv'
<1>1. /\ pc[t] = "i_finish" /\ UNCHANGED <<dirs, dir, todo, acked, races>> /\ Retry(t, "i_depth")
      /\ segs' = [segs EXCEPT ![loc[t].target].local_depth = @ + 1, ![loc[t].target].sema = 0]
  BY DEF FinishSplit
<1>2. /\ pc[t] \in SplitPCs /\ pc[t] \notin NoTargetPCs /\ pc[t] \notin DirPCs
      /\ "i_depth" \in NoTargetPCs /\ "i_depth" \in PCs /\ "i_depth" \notin DirPCs
      /\ ~HoldsAt("i_depth") /\ "i_depth" \notin SplitPCs
  BY <1>1 DEF SplitPCs, NoTargetPCs, PCs, DirPCs, HoldsAt, InsertPCs, GetPCs
<1>3. /\ Typed /\ DirsOK /\ loc[t] \in Locals /\ LocalAt(pc[t], loc[t], todo[t]) /\ todo[t] # <<>>
      /\ races' = races /\ races \subseteq races' /\ loc[t].target \in Pointers
      /\ (INPLACE => "stray" \notin races)
  BY <1>1, <1>2, SplitFacts
<1>4. PICK k \in Pointers : k = loc[t].target
  BY <1>3
<1>5. Depth(k) < HashBits /\ Depth(k) < Dir.depth /\ INPLACE
  BY <1>1, <1>3, <1>4 DEF LocalAt
<1>6. SegLock(k) /\ t \in Splitters(k)
  BY <1>2, <1>3, <1>4, <1>5 DEF Inv, SegLocks, Splitters
<1>7. \A u \in Threads \ {t} : pc[u] \in SplitPCs => loc[u].target # k
  BY <1>6 DEF SegLock, Splitters, Closers
<1>8. segs[k] \in Segment /\ segs \in Seq(Segment) /\ Depth(k) \in Nat /\ HashBits \in Nat
      /\ Dir.depth \in Nat
  BY <1>3, SegFacts, DirFacts DEF Typed
<1>9. PICK d : d = [segs[k] EXCEPT !.local_depth = Depth(k) + 1, !.sema = 0]
  OBVIOUS
<1>10. Depth(k) + 1 \in 0 .. HashBits
  BY <1>5, <1>8
<1>11. d \in Segment /\ d.sema = 0 /\ d.local_depth = Depth(k) + 1
  <2>1. PICK r \in Segment, n \in 0 .. HashBits : r = segs[k] /\ n = Depth(k) + 1
    BY <1>8, <1>10
  <2>2. d = [r EXCEPT !.local_depth = n, !.sema = 0]
    BY <1>9, <2>1
  <2>3. d = [bucket |-> r.bucket, sema |-> 0, local_depth |-> n]
    BY <2>2 DEF Segment
  <2>4. r.bucket \in [Slots -> Entry]
    BY DEF Segment
  <2> QED
    BY <2>1, <2>3, <2>4 DEF Segment
<1>12. segs' = [segs EXCEPT ![k] = d]
  BY <1>1, <1>4, <1>8, <1>9 DEF Depth, Pointers
<1>13. /\ segs' \in Seq(Segment) /\ Len(segs') = Len(segs) /\ segs'[k] = d
       /\ \A i \in Pointers \ {k} : segs'[i] = segs[i]
  BY <1>8, <1>11, <1>12 DEF Pointers
<1>14. /\ Depth(k)' = Depth(k) + 1 /\ segs'[k].sema = 0
       /\ \A i \in Pointers \ {k} : Depth(i)' = Depth(i) /\ segs'[i].sema = segs[i].sema
  BY <1>11, <1>13 DEF Depth
<1>15. PICK l : l = [NoLocals EXCEPT !.must = loc[t].must]
  OBVIOUS
<1>16. Acts(t, "i_depth", l)
  BY <1>1, <1>15 DEF Acts, Retry, Goto
<1>17. l \in Locals /\ LocalAt("i_depth", l, todo[t])
  BY <1>2, <1>3, <1>15, FreshLocals
<1>18. Typed'
  BY <1>1, <1>2, <1>3, <1>13, <1>16, <1>17, ActsOthers DEF Typed, Acts
<1>19. Pointers' = Pointers /\ Dir' = Dir /\ Entries(Dir)' = Entries(Dir)
  BY <1>1, <1>13 DEF Pointers, Dir, Entries
<1>20. DirsOK'
  <2>1. \A i \in Pointers : Depth(i) <= Dir.depth => Depth(i)' <= Dir.depth
    <3> SUFFICES ASSUME NEW i \in Pointers, Depth(i) <= Dir.depth PROVE Depth(i)' <= Dir.depth
      OBVIOUS
    <3>1. CASE i = k
      BY <1>5, <1>8, <1>14, <3>1
    <3>2. CASE i # k
      BY <1>14, <3>2
    <3> QED
      BY <3>1, <3>2
  <2>2. \A x \in Entries(Dir) : Dir.segment[x] \in Pointers /\ Depth(Dir.segment[x]) <= Dir.depth
    BY <1>3, DirFacts DEF DirsOK
  <2>3. \A x \in Entries(Dir') : segs'[Dir'.segment[x]].local_depth <= Dir'.depth
    BY <1>19, <2>1, <2>2 DEF Depth, Entries
  <2>4. \A e \in 1 .. Len(dirs') : dirs'[e].segment \in [Entries(dirs'[e]) -> Pointers']
    BY <1>1, <1>3, <1>19 DEF DirsOK
  <2> QED
    BY <2>3, <2>4 DEF DirsOK, Entries, Depth
<1>21. LocalsOK'
  <2> SUFFICES ASSUME NEW u \in Threads PROVE LocalAt(pc[u], loc[u], todo[u])'
    BY DEF LocalsOK
  <2>1. PICK pu \in PCs, qu \in Seq(Calls), lu \in Locals :
          /\ pu = pc'[u] /\ lu = loc'[u] /\ qu = todo'[u] /\ LocalAt(pu, lu, qu)
          /\ pu \in SplitPCs => lu.target # k
    <3>1. CASE u = t
      <4>1. pc'[t] = "i_depth" /\ loc'[t] = l /\ todo'[t] = todo[t] /\ todo[t] \in Seq(Calls)
        BY <1>1, <1>2, <1>3, <1>16, <1>17, ActsOthers DEF Typed
      <4> QED
        BY <1>2, <1>17, <3>1, <4>1
    <3>2. CASE u # t
      <4>1. /\ pc'[u] = pc[u] /\ loc'[u] = loc[u] /\ todo'[u] = todo[u]
            /\ pc[u] \in PCs /\ loc[u] \in Locals /\ todo[u] \in Seq(Calls)
        BY <1>1, <1>2, <1>3, <1>16, <1>17, <3>2, ActsOthers DEF Typed
      <4>2. LocalAt(pc[u], loc[u], todo[u])
        BY DEF Inv, LocalsOK
      <4> QED
        BY <1>7, <3>2, <4>1, <4>2
    <3> QED
      BY <3>1, <3>2
  <2>2. LocalAt(pu, lu, qu)'
    BY <1>1, <1>3, <1>5, <1>13, <1>14, <2>1, LocalDeepens
  <2> QED
    BY <2>1, <2>2
<1>22. SegLocks'
  <2>1. ASSUME "stray" \notin races' PROVE SegLock(k)'
    BY <1>2, <1>3, <1>4, <1>14, <1>16, <1>17, <2>1, LockOpen
  <2>2. Pointers \subseteq Pointers' /\ \A i \in Pointers' \ Pointers : segs'[i].sema = 0
    BY <1>19
  <2> QED
    BY <1>2, <1>3, <1>4, <1>14, <1>16, <1>17, <2>1, <2>2, LocksElsewhere
<1>23. DirLock'
  BY <1>2, <1>16, <1>17, <1>19, DirKept
<1> QED
  BY <1>18, <1>20, <1>21, <1>22, <1>23 DEF Inv

-----------------------------------------------------------------------------
(* Theorems                                                                 *)

\* An empty table: nobody is in a segment, all semaphores are 0.
LEMMA InitInv ==
  ASSUME Init
  PROVE  Inv
<1>0. /\ scenario \in Scenarios /\ dir = 1 /\ acked = {} /\ races = {} /\ todo = Program
      /\ segs = [i \in 1 .. Pow2[InitDepth] |-> NewSegment(InitDepth)]
      /\ dirs = <<[depth |-> InitDepth, sema |-> 0,
                   segment |-> [x \in 0 .. Pow2[InitDepth] - 1 |-> x + 1]]>>
      /\ pc = [t \in Threads |-> "idle"] /\ loc = [t \in Threads |-> NoLocals]
  BY DEF Init
<1>1. PICK N \in Nat \ {0} : N = Pow2[InitDepth]
  <2>1. InitDepth \in Nat
    BY CCEHAssumption
  <2> QED
    BY <2>1, Pow2Step
<1>2. InitDepth \in 1 .. HashBits /\ HashBits \in Nat /\ InitDepth \in 0 .. HashBits
  BY CCEHAssumption
<1>3. PICK g \in Segment : g = NewSegment(InitDepth) /\ g.sema = 0 /\ g.local_depth = InitDepth
  <2>1. Empty \in Entry
    BY DEF Empty, Entry, KeyWords
  <2>2. [i \in Slots |-> Empty] \in [Slots -> Entry]
    BY <2>1
  <2>3. NewSegment(InitDepth) = [bucket |-> [i \in Slots |-> Empty], sema |-> 0, local_depth |-> InitDepth]
    BY DEF NewSegment
  <2>4. NewSegment(InitDepth) \in Segment
    BY <1>2, <2>2, <2>3 DEF Segment
  <2> QED
    BY <2>3, <2>4
<1>4. /\ segs \in Seq(Segment) /\ Len(segs) = N /\ Pointers = 1 .. N
      /\ \A i \in Pointers : segs[i] = g
  <2>1. segs = [i \in 1 .. N |-> g]
    BY <1>0, <1>1, <1>3
  <2>2. segs \in Seq(Segment) /\ Len(segs) = N
    <3>1. \A S : \A n \in Nat : \A h \in [1 .. n -> S] : h \in Seq(S) /\ Len(h) = n
      OBVIOUS
    <3>2. segs \in [1 .. N -> Segment]
      BY <2>1
    <3> QED
      BY <3>1, <3>2
  <2> QED
    BY <2>1, <2>2 DEF Pointers
<1>5. PICK f \in [0 .. N - 1 -> 1 .. N] : f = [x \in 0 .. N - 1 |-> x + 1]
  <2>1. \A x \in 0 .. N - 1 : x + 1 \in 1 .. N
    OBVIOUS
  <2> QED
    BY <2>1
<1>6. PICK e : e = [depth |-> InitDepth, sema |-> 0, segment |-> f]
  OBVIOUS
<1>7. e \in Directory
  <2>1. PICK E : E = UNION {[0 .. n -> Nat] : n \in Nat}
    OBVIOUS
  <2>2. f \in E
    <3>1. PICK n \in Nat : n = N - 1
      OBVIOUS
    <3>2. f \in [0 .. n -> Nat]
      BY <3>1
    <3> QED
      BY <2>1, <3>2
  <2>3. Directory = [depth : 1 .. HashBits, sema : Int, segment : E]
    BY <2>1 DEF Directory
  <2> QED
    BY <1>2, <1>6, <2>2, <2>3
<1>8. dirs = <<e>> /\ dir = 1 /\ dirs \in Seq(Directory) /\ Len(dirs) = 1 /\ Dir = e
  <2>1. dirs = <<e>>
    BY <1>0, <1>1, <1>5, <1>6
  <2>2. <<e>> \in Seq(Directory) /\ Len(<<e>>) = 1 /\ <<e>>[1] = e
    BY <1>7
  <2> QED
    BY <1>0, <2>1, <2>2 DEF Dir
<1>9. e.depth = InitDepth /\ e.sema = 0 /\ e.segment = f /\ Entries(e) = 0 .. N - 1
  BY <1>1, <1>6 DEF Entries
<1>10. NoLocals \in Locals
  <2>1. 0 \in Slots /\ 0 \in 0 .. HashBits
    BY CCEHAssumption DEF Slots
  <2> QED
    BY <2>1 DEF NoLocals, Locals
<1>11. /\ pc = [t \in Threads |-> "idle"] /\ pc \in [Threads -> PCs]
       /\ loc = [t \in Threads |-> NoLocals] /\ loc \in [Threads -> Locals]
  BY <1>0, <1>10 DEF PCs
<1>12. todo \in [Threads -> Seq(Calls)]
  BY <1>0, CCEHAssumption DEF Program
<1>13. Typed
  BY <1>0, <1>4, <1>8, <1>11, <1>12 DEF Typed
<1>14. DirsOK
  <2>1. \A x \in 0 .. N - 1 : f[x] \in Pointers /\ Depth(f[x]) = InitDepth
    BY <1>3, <1>4 DEF Depth
  <2>2. f \in [0 .. N - 1 -> Pointers]
    BY <1>4
  <2>3. \A d \in 1 .. Len(dirs) : dirs[d] = e
    BY <1>8 DEF Dir
  <2>4. \A d \in 1 .. Len(dirs) : dirs[d].segment \in [Entries(dirs[d]) -> Pointers]
    BY <1>9, <2>2, <2>3
  <2>5. \A x \in Entries(Dir) : Depth(Dir.segment[x]) <= Dir.depth
    BY <1>2, <1>8, <1>9, <2>1
  <2> QED
    BY <2>4, <2>5 DEF DirsOK
<1>15. LocalsOK
  <2> SUFFICES ASSUME NEW t \in Threads PROVE LocalAt("idle", NoLocals, todo[t])
    BY <1>11 DEF LocalsOK
  <2>1. "idle" \in NoTargetPCs /\ "idle" \notin SharePCs
    BY DEF NoTargetPCs, SharePCs
  <2>2. /\ NoLocals.target = 0 /\ NoLocals.x = 0 /\ NoLocals.check = 0 /\ NoLocals.depth = 0
        /\ Dir.depth = InitDepth /\ Pow2[Dir.depth] = N
    BY <1>1, <1>8, <1>9 DEF NoLocals
  <2> QED
    BY <1>2, <1>4, <2>1, <2>2 DEF LocalAt
<1>16. SegLocks
  <2> SUFFICES ASSUME NEW i \in Pointers PROVE SegLock(i)
    BY DEF SegLocks
  <2>1. Holders(i) = {} /\ Waiters(i) = {} /\ Splitters(i) = {}
    BY <1>11 DEF Holders, Waiters, Splitters, HoldsAt, InsertPCs, GetPCs, SplitPCs
  <2>2. Cardinality(Holders(i)) = 0 /\ segs[i].sema = 0
    BY <1>3, <1>4, <2>1, FS_EmptySet
  <2> QED
    BY <2>1, <2>2 DEF SegLock, Closers
<1>17. DirLock
  <2>1. Updaters = {} /\ Doublers = {}
    BY <1>11 DEF Updaters, Doublers
  <2>2. Cardinality(Updaters) = 0 /\ Dir.sema = 0
    BY <1>8, <1>9, <2>1, FS_EmptySet
  <2> QED
    BY <1>11, <2>1, <2>2 DEF DirLock
<1> QED
  BY <1>13, <1>14, <1>15, <1>16, <1>17 DEF Inv

\* A step that changes nothing.
LEMMA StutterInv ==
  ASSUME Inv, UNCHANGED vars
  PROVE  Inv'
<1> USE DEF vars, INPLACE
<1>1. Typed'
  BY DEF Inv, Typed
<1>2. Dir' = Dir /\ Pointers' = Pointers /\ INPLACE' = INPLACE
  BY DEF Dir, Pointers
<1>3. DirsOK'
  BY DEF Inv, DirsOK, Dir, Pointers, Depth, Entries
<1>4. LocalsOK'
  BY DEF Inv, LocalsOK, LocalAt, Dir, Pointers, Depth, Entries
<1>5. SegLocks'
  <2>1. \A i : SegLock(i) => SegLock(i)'
    BY DEF SegLock, Closers, Holders, Waiters, Splitters, HoldsAt
  <2> QED
    BY <1>2, <2>1 DEF Inv, SegLocks
<1>6. DirLock'
  <2>1. Updaters' = Updaters /\ Doublers' = Doublers
    BY DEF Updaters, Doublers
  <2> QED
    BY <1>2, <2>1 DEF Inv, DirLock
<1> QED
  BY <1>1, <1>3, <1>4, <1>5, <1>6 DEF Inv

\* Inv holds of every behaviour.
THEOREM InvHolds == Spec => []Inv
<1>1. Init => Inv
  BY InitInv
<1>2. Inv /\ [Next]_vars => Inv'
  <2> SUFFICES ASSUME Inv, [Next]_vars PROVE Inv'
    OBVIOUS
  <2>1. CASE UNCHANGED vars
    BY <2>1, StutterInv
  <2>2. ASSUME NEW t \in Threads, InsertStep(t), scenario' = scenario PROVE Inv'
    <3>1. CASE StoreStep(t)
      BY <2>2, <3>1, PlainInsert, StoreInsert, TryLockInv, CheckInv, ReturnInv DEF StoreStep
    <3>2. CASE SplitStep(t)
      BY <2>2, <3>2, CollideInv, RecheckInv, SplitInv DEF SplitStep
    <3>3. CASE DoubleStep(t)
      BY <2>2, <3>3, ChooseInv, SuspendDirInv, AwaitDirInv, DoubleDirInv DEF DoubleStep
    <3>4. CASE UpdateStep(t)
      BY <2>2, <3>4, LockDirInv, StoreEntryInv, UnlockDirInv, FinishInv DEF UpdateStep
    <3> QED
      BY <2>2, <3>1, <3>2, <3>3, <3>4 DEF InsertStep
  <2>3. ASSUME NEW t \in Threads, GetStep(t), scenario' = scenario PROVE Inv'
    BY <2>3, PlainGet, TryLockInv, CheckInv, ReturnInv DEF GetStep
  <2> QED
    BY <2>1, <2>2, <2>3 DEF Next, Terminating
<1> QED
  BY <1>1, <1>2, PTL DEF Spec

\* Types and bounds: pointers point to segments, directories are as long as
\* their depth says, local depths fit the hash, and every entry a split stores
\* is an entry of the directory it stores into, although the depth it started
\* from was read before other threads split and doubled.
THEOREM TypeCorrect == Spec => []TypeOK
<1>1. Inv => TypeOK
  <2> SUFFICES ASSUME Inv PROVE TypeOK
    OBVIOUS
  <2>1. Typed /\ DirsOK
    BY DEF Inv
  <2>2. DOMAIN segs = Pointers /\ DOMAIN dirs = 1 .. Len(dirs) /\ \A d \in 1 .. Len(dirs) : dirs[d] \in Directory
    BY <2>1 DEF Typed, Pointers
  <2>3. \A i \in Pointers :
          /\ segs[i].sema \in Int /\ segs[i].local_depth \in 0 .. HashBits
          /\ \A j \in Slots : segs[i].bucket[j].key \in KeyWords
    BY <2>1, SegFacts DEF Depth, Entry
  <2>4. \A d \in 1 .. Len(dirs) :
          /\ dirs[d].sema \in Int /\ dirs[d].depth \in 1 .. HashBits
          /\ dirs[d].segment \in [0 .. Pow2[dirs[d].depth] - 1 -> Pointers]
    BY <2>1, <2>2 DEF DirsOK, Entries, Directory
  <2>5. ASSUME NEW t \in Threads
        PROVE  /\ loc[t].target \in 0 .. Len(segs)
               /\ pc[t] = "i_update" =>
                    \A n \in DOMAIN loc[t].writes : loc[t].writes[n][1] \in DOMAIN Dir.segment
    <3>1. LocalAt(pc[t], loc[t], todo[t]) /\ loc[t].writes \in Seq(Nat \X Nat)
      BY Facts DEF Locals
    <3>2. DOMAIN Dir.segment = Entries(Dir) /\ DOMAIN loc[t].writes = 1 .. Len(loc[t].writes)
      BY <2>1, <3>1, DirFacts
    <3> QED
      BY <3>1, <3>2 DEF LocalAt
  <2> QED
    BY <2>1, <2>2, <2>3, <2>4, <2>5 DEF TypeOK, Typed, AllRaces
<1> QED
  BY <1>1, InvHolds, PTL

\* While a thread splits a segment nobody else is inside it or splits it, and
\* while it copies the directory nobody stores into it or copies it too, in
\* every build and with any number of threads, unless an unlock() of a lock
\* that was not taken has spoilt a semaphore.
THEOREM SplitsAlone == Spec => []SplitAlone
<1>1. Inv => SplitAlone
  <2> SUFFICES ASSUME Inv, "stray" \notin races PROVE
         /\ \A t \in Threads : \A i \in DOMAIN segs :
              Splitting(t, i) => \A u \in Threads \ {t} : ~Holding(u, i) /\ ~Splitting(u, i)
         /\ \A t \in Threads :
              pc[t] = "i_double" => \A u \in Threads \ {t} : pc[u] \notin {"i_double", "i_update"}
    BY DEF SplitAlone
  <2>1. ASSUME NEW t \in Threads, NEW i \in DOMAIN segs, Splitting(t, i), NEW u \in Threads \ {t}
        PROVE  ~Holding(u, i) /\ ~Splitting(u, i)
    <3>1. i \in Pointers
      BY DEF Inv, Typed, Pointers
    <3>2. SegLock(i) /\ t \in Splitters(i)
      BY <2>1, <3>1 DEF Inv, SegLocks, Splitters, Splitting, SplitPCs
    <3>3. Holders(i) = {} /\ u \notin Splitters(i)
      BY <3>2 DEF SegLock, Closers
    <3> QED
      BY <3>3 DEF Holders, Splitters, Holding, Splitting, HoldsAt, InsertPCs, GetPCs, SplitPCs
  <2>2. ASSUME NEW t \in Threads, pc[t] = "i_double", NEW u \in Threads \ {t}
        PROVE  pc[u] \notin {"i_double", "i_update"}
    BY <2>2 DEF Inv, DirLock, Doublers, Updaters
  <2> QED
    BY <2>1, <2>2
<1> QED
  BY <1>1, InvHolds, PTL

\* In the in-place builds every closed segment, used by the directory or not,
\* has a thread that will open it, whatever the races on `dir'.
InPlaceClosedHasOwner ==
  INPLACE =>
    \A i \in DOMAIN segs :
      segs[i].sema < 0 =>
        \E t \in Threads : Splitting(t, i) \/ (pc[t] = "i_wait" /\ loc[t].target = i)

\* No Insert or Get of an in-place build retries for ever on a segment that
\* nobody owns; the semaphore of a segment is never left negative.
THEOREM ClosedIsOwned == Spec => []InPlaceClosedHasOwner
<1>1. Inv => InPlaceClosedHasOwner
  <2> SUFFICES ASSUME Inv, INPLACE, NEW i \in DOMAIN segs, segs[i].sema < 0
               PROVE  \E t \in Threads : Splitting(t, i) \/ (pc[t] = "i_wait" /\ loc[t].target = i)
    BY DEF InPlaceClosedHasOwner
  <2>1. i \in Pointers /\ "stray" \notin races
    BY DEF Inv, Typed, Pointers
  <2>2. Closers(i) # {}
    BY <2>1 DEF Inv, SegLocks, SegLock
  <2> QED
    BY <2>2 DEF Closers, Waiters, Splitters, Splitting, SplitPCs
<1> QED
  BY <1>1, InvHolds, PTL

-----------------------------------------------------------------------------
(* What a normal split stores                                               *)

\* W holds a store of b into entry x.
HasWrite(W, x, b) == \E n \in 1 .. Len(W) : W[n] = <<x, b>>

\* No two stores of W go to one entry.
OneEach(W) == \A n, m \in 1 .. Len(W) : W[n][1] = W[m][1] => n = m

\* Stores of v into h entries from a on.
Run(a, h, v) == [i \in 1 .. h |-> <<a + i - 1, v>>]

\* Which stores they are.
LEMMA RunWrites ==
  ASSUME NEW h \in Nat, NEW a \in Nat, NEW v
  PROVE  /\ Run(a, h, v) \in Seq(Nat \X {v}) /\ OneEach(Run(a, h, v))
         /\ \A x \in Nat : Within(x, a, h) => HasWrite(Run(a, h, v), x, v)
         /\ \A x \in Nat : \A b : HasWrite(Run(a, h, v), x, b) => Within(x, a, h) /\ b = v
<1>0. PICK W : W = Run(a, h, v)
  OBVIOUS
<1>1. Len(W) = h /\ W \in Seq(Nat \X {v}) /\ \A i \in 1 .. h : W[i] = <<a + i - 1, v>>
  BY <1>0 DEF Run
<1>2. \A i \in 1 .. h : W[i][1] = a + i - 1
  BY <1>1
<1>3. OneEach(W)
  <2> SUFFICES ASSUME NEW n \in 1 .. h, NEW m \in 1 .. h, W[n][1] = W[m][1] PROVE n = m
    BY <1>1 DEF OneEach
  <2>1. W[n][1] = a + n - 1 /\ W[m][1] = a + m - 1
    BY <1>2
  <2>2. a + n - 1 = a + m - 1
    BY <2>1
  <2> QED
    BY <2>2
<1>4. ASSUME NEW x \in Nat, NEW b, HasWrite(W, x, b) PROVE a <= x /\ x < a + h /\ b = v
  <2>1. PICK n \in 1 .. h : W[n] = <<x, b>>
    BY <1>1, <1>4 DEF HasWrite
  <2>2. <<x, b>> = <<a + n - 1, v>>
    BY <1>1, <2>1
  <2>3. x = a + n - 1 /\ b = v
    BY <2>2
  <2> QED
    BY <2>3
<1>5. ASSUME NEW x \in Nat, a <= x, x < a + h PROVE HasWrite(W, x, v)
  <2>1. x - a + 1 \in 1 .. h /\ x = a + (x - a + 1) - 1
    BY <1>5
  <2>2. PICK i \in 1 .. h : x = a + i - 1
    BY <2>1
  <2>3. W[i] = <<x, v>>
    BY <1>1, <2>2
  <2> QED
    BY <1>1, <2>3 DEF HasWrite
<1> QED
  BY <1>0, <1>1, <1>3, <1>4, <1>5 DEF Within

\* One run of stores after another.
LEMMA TwoRuns ==
  ASSUME NEW S, NEW T, NEW U \in Seq(S), NEW L \in Seq(T), OneEach(U), OneEach(L),
         \A n \in 1 .. Len(U), m \in 1 .. Len(L) : U[n][1] # L[m][1]
  PROVE  /\ \A x, b : HasWrite(U \o L, x, b) <=> HasWrite(U, x, b) \/ HasWrite(L, x, b)
         /\ OneEach(U \o L)
<1>0. PICK W : W = U \o L
  OBVIOUS
<1>1. PICK u \in Nat, l \in Nat : u = Len(U) /\ l = Len(L)
  OBVIOUS
<1>2. /\ Len(W) = u + l
      /\ \A n \in 1 .. u : W[n] = U[n]
      /\ \A n \in 1 .. l : W[u + n] = L[n]
  BY <1>0, <1>1
<1>3. \A n \in 1 .. u + l : n \in 1 .. u \/ \E m \in 1 .. l : n = u + m
  <2> SUFFICES ASSUME NEW n \in 1 .. u + l, n \notin 1 .. u PROVE \E m \in 1 .. l : n = u + m
    OBVIOUS
  <2>1. n - u \in 1 .. l /\ n = u + (n - u)
    OBVIOUS
  <2> QED
    BY <2>1
<1>4. (\A n \in 1 .. u : n \in 1 .. u + l) /\ (\A n \in 1 .. l : u + n \in 1 .. u + l)
  OBVIOUS
<1>5. ASSUME NEW x, NEW b, HasWrite(W, x, b) PROVE HasWrite(U, x, b) \/ HasWrite(L, x, b)
  <2>1. PICK n \in 1 .. u + l : W[n] = <<x, b>>
    BY <1>2, <1>5 DEF HasWrite
  <2>2. CASE n \in 1 .. u
    BY <1>1, <1>2, <2>1, <2>2 DEF HasWrite
  <2>3. CASE \E m \in 1 .. l : n = u + m
    BY <1>1, <1>2, <2>1, <2>3 DEF HasWrite
  <2> QED
    BY <1>3, <2>2, <2>3
<1>6. ASSUME NEW x, NEW b, HasWrite(U, x, b) \/ HasWrite(L, x, b) PROVE HasWrite(W, x, b)
  <2>1. CASE HasWrite(U, x, b)
    BY <1>1, <1>2, <1>4, <2>1 DEF HasWrite
  <2>2. CASE HasWrite(L, x, b)
    <3>1. PICK n \in 1 .. l : L[n] = <<x, b>>
      BY <1>1, <2>2 DEF HasWrite
    <3> QED
      BY <1>2, <1>4, <3>1 DEF HasWrite
  <2> QED
    BY <1>6, <2>1, <2>2
<1>7. OneEach(W)
  <2>0. \A n \in 1 .. u, m \in 1 .. l : U[n][1] # L[m][1]
    BY <1>1
  <2> SUFFICES ASSUME NEW n \in 1 .. u + l, NEW m \in 1 .. u + l, W[n][1] = W[m][1] PROVE n = m
    BY <1>2 DEF OneEach
  <2>1. CASE n \in 1 .. u /\ m \in 1 .. u
    BY <1>1, <1>2, <2>1 DEF OneEach
  <2>2. CASE n \in 1 .. u /\ \E k \in 1 .. l : m = u + k
    <3>1. PICK k \in 1 .. l : m = u + k
      BY <2>2
    <3>2. W[n] = U[n] /\ W[m] = L[k]
      BY <1>2, <2>2, <3>1
    <3>3. U[n][1] = L[k][1]
      BY <3>2
    <3> QED
      BY <2>0, <2>2, <3>3
  <2>3. CASE m \in 1 .. u /\ \E k \in 1 .. l : n = u + k
    <3>1. PICK k \in 1 .. l : n = u + k
      BY <2>3
    <3>2. W[m] = U[m] /\ W[n] = L[k]
      BY <1>2, <2>3, <3>1
    <3>3. U[m][1] = L[k][1]
      BY <3>2
    <3> QED
      BY <2>0, <2>3, <3>3
  <2>4. CASE (\E k \in 1 .. l : n = u + k) /\ \E k \in 1 .. l : m = u + k
    <3>1. PICK i \in 1 .. l, k \in 1 .. l : n = u + i /\ m = u + k
      BY <2>4
    <3>2. L[i][1] = L[k][1]
      BY <1>2, <3>1
    <3> QED
      BY <1>1, <3>1, <3>2 DEF OneEach
  <2> QED
    BY <1>3, <2>1, <2>2, <2>3, <2>4
<1> QED
  BY <1>0, <1>5, <1>6, <1>7

\* Stores of hi into h entries from mid on and, copy-on-write, then of lo into h
\* from base on: which they are.
Stores(W, h, base, mid, lo, hi) ==
  W = IF INPLACE THEN Run(mid, h, hi) ELSE Run(mid, h, hi) \o Run(base, h, lo)

StoresAre(W, h, base, mid, lo, hi) ==
  /\ OneEach(W)
  /\ \A x \in Nat : Within(x, mid, h) => HasWrite(W, x, hi)
  /\ \A x \in Nat : ~INPLACE /\ Within(x, base, h) => HasWrite(W, x, lo)
  /\ \A x \in Nat : \A b : HasWrite(W, x, b) =>
       (Within(x, mid, h) /\ b = hi) \/ (~INPLACE /\ Within(x, base, h) /\ b = lo)

\* The stores into the two halves of 2 * h entries from base on.
LEMMA WritesOf ==
  ASSUME NEW h \in Nat, NEW base \in Nat, NEW mid \in Nat, Within(mid, base + h, 1), NEW lo, NEW hi, NEW W,
         Stores(W, h, base, mid, lo, hi)
  PROVE  StoresAre(W, h, base, mid, lo, hi)
<1>1. PICK U, L : U = Run(mid, h, hi) /\ L = Run(base, h, lo)
  OBVIOUS
<1>0. /\ \A n, a \in Nat : \A v : Run(a, n, v) \in Seq(Nat \X {v})
      /\ \A n, a \in Nat : \A v : OneEach(Run(a, n, v))
      /\ \A n, a, x \in Nat : \A v : Within(x, a, n) => HasWrite(Run(a, n, v), x, v)
      /\ \A n, a, x \in Nat : \A v, b : HasWrite(Run(a, n, v), x, b) => Within(x, a, n) /\ b = v
  BY RunWrites, Zenon
<1>2. /\ U \in Seq(Nat \X {hi}) /\ OneEach(U)
      /\ \A x \in Nat : Within(x, mid, h) => HasWrite(U, x, hi)
      /\ \A x \in Nat : \A b : HasWrite(U, x, b) => Within(x, mid, h) /\ b = hi
  BY <1>0, <1>1
<1>3. /\ L \in Seq(Nat \X {lo}) /\ OneEach(L)
      /\ \A x \in Nat : Within(x, base, h) => HasWrite(L, x, lo)
      /\ \A x \in Nat : \A b : HasWrite(L, x, b) => Within(x, base, h) /\ b = lo
  BY <1>0, <1>1
<1>4. CASE INPLACE
  <2>1. W = U
    BY <1>1, <1>4 DEF Stores
  <2> QED
    BY <1>2, <1>4, <2>1 DEF StoresAre
<1>5. CASE ~INPLACE
  <2>1. W = U \o L
    BY <1>1, <1>5 DEF Stores
  <2>2. \A n \in 1 .. Len(U), m \in 1 .. Len(L) : U[n][1] # L[m][1]
    <3> SUFFICES ASSUME NEW n \in 1 .. Len(U), NEW m \in 1 .. Len(L), U[n][1] = L[m][1] PROVE FALSE
      OBVIOUS
    <3>1. n \in 1 .. h /\ m \in 1 .. h
      BY <1>1 DEF Run
    <3>2. U[n][1] = mid + n - 1 /\ L[m][1] = base + m - 1
      BY <1>1, <3>1 DEF Run
    <3>3. mid + n - 1 = base + m - 1
      BY <3>2
    <3> QED
      BY <3>1, <3>3 DEF Within
  <2>3. OneEach(U \o L)
    BY <1>2, <1>3, <2>2, TwoRuns
  <2>4. \A x, b : HasWrite(U \o L, x, b) <=> HasWrite(U, x, b) \/ HasWrite(L, x, b)
    BY <1>2, <1>3, <2>2, TwoRuns
  <2>5. \A x \in Nat : Within(x, mid, h) => HasWrite(W, x, hi)
    BY <1>2, <2>1, <2>4
  <2>6. \A x \in Nat : Within(x, base, h) => HasWrite(W, x, lo)
    BY <1>3, <2>1, <2>4
  <2>7. ASSUME NEW x \in Nat, NEW b, HasWrite(W, x, b)
        PROVE  (Within(x, mid, h) /\ b = hi) \/ (Within(x, base, h) /\ b = lo)
    <3>1. HasWrite(U, x, b) \/ HasWrite(L, x, b)
      BY <2>1, <2>4, <2>7
    <3> QED
      BY <1>2, <1>3, <3>1
  <2>8. OneEach(W)
    BY <2>1, <2>3
  <2> QED
    BY <1>5, <2>5, <2>6, <2>7, <2>8 DEF StoresAre
<1> QED
  BY <1>4, <1>5

\* Stores of the halves s into the entries of the range of p that change.
WritesHalves(W, g, d, p, s) ==
  /\ OneEach(W)
  /\ \A x \in 0 .. Pow2[g] - 1 : \A b :
       HasWrite(W, x, b) <=>
         /\ x \div Pow2[g - d] = p \div Pow2[g - d]
         /\ IF (x \div Pow2[g - d - 1]) % 2 = 0 THEN ~INPLACE /\ b = s[1] ELSE b = s[2]

\* That is what a normal split stores.
LEMMA WritesContent ==
  ASSUME NEW g \in Nat, NEW d \in Nat, d < g, NEW p \in 0 .. Pow2[g] - 1, NEW s, NEW W,
         W = EntryWrites(p, Pow2[g - d], s)
  PROVE  WritesHalves(W, g, d, p, s)
<1>1. g - d \in Nat /\ g - d - 1 \in Nat /\ (g - d - 1) + 1 = g - d
  OBVIOUS
<1>2. PICK h \in Nat \ {0}, r \in Nat \ {0} : 
        h = Pow2[g - d - 1] /\ r = Pow2[g - d] /\ r = 2 * h /\ r = h + h
  BY <1>1, Pow2Step
<1>3. PICK N \in Nat : N = Pow2[g]
  BY Pow2Step
<1>4. PICK q \in Nat, e \in 0 .. r - 1 : p \div r = q /\ p % r = e /\ p = r * q + e
  <2>1. p \in Nat
    BY <1>3
  <2> QED
    BY <2>1, DivMod
<1>5. PICK base \in Nat : base = r * q
  OBVIOUS
<1>6. p - (p % r) = base /\ r \div 2 = h
  <2>1. p - e = r * q /\ (2 * h) \div 2 = h
    BY <1>4
  <2> QED
    BY <1>2, <1>4, <1>5, <2>1
<1>7. PICK mid \in Nat : mid = base + h
  OBVIOUS
<1>8. Within(mid, base + h, 1) /\ h \in Nat
  BY <1>7 DEF Within
<1>9. W = IF INPLACE THEN Run(mid, h, s[2]) ELSE Run(mid, h, s[2]) \o Run(base, h, s[1])
  BY <1>2, <1>6, <1>7 DEF EntryWrites, Run
<1>10. /\ OneEach(W)
       /\ \A x \in Nat : Within(x, mid, h) => HasWrite(W, x, s[2])
       /\ \A x \in Nat : ~INPLACE /\ Within(x, base, h) => HasWrite(W, x, s[1])
       /\ \A x \in Nat : \A b : HasWrite(W, x, b) =>
            (Within(x, mid, h) /\ b = s[2]) \/ (~INPLACE /\ Within(x, base, h) /\ b = s[1])
  <2>1. PICK lo, hi : lo = s[1] /\ hi = s[2]
    OBVIOUS
  <2>2. Stores(W, h, base, mid, lo, hi)
    BY <1>9, <2>1 DEF Stores
  <2>3. StoresAre(W, h, base, mid, lo, hi)
    BY <1>8, <2>2, WritesOf
  <2> QED
    BY <2>1, <2>3 DEF StoresAre
<1>11. ASSUME NEW x \in 0 .. N - 1, NEW b
       PROVE  HasWrite(W, x, b) <=>
                /\ x \div r = q
                /\ IF (x \div h) % 2 = 0 THEN ~INPLACE /\ b = s[1] ELSE b = s[2]
  <2>1. x \in Nat
    OBVIOUS
  <2>2. LowerOf(x, r, h, q) <=> Within(x, r * q, h)
    BY <1>2, <2>1, Halves, Zenon
  <2>4. UpperOf(x, r, h, q) <=> Within(x, r * q + h, h)
    BY <1>2, <2>1, Halves, Zenon
  <2>3. r * q = base /\ r * q + h = mid
    BY <1>5, <1>7
  <2> QED
    BY <1>10, <2>1, <2>2, <2>3, <2>4 DEF LowerOf, UpperOf
<1> QED
  BY <1>2, <1>3, <1>4, <1>10, <1>11 DEF WritesHalves

-----------------------------------------------------------------------------
(* The directory that the stores under way lead to                          *)

\* The split is being published, or its halves are not in the directory yet.
PublishPCs == {"i_update", "i_finish"}
PendingPCs == SharePCs \ {"i_update"}
ClosePCs == SplitPCs \cup {"i_wait"}

\* The depth that a segment has once its split is published.
Raised(i) == INPLACE /\ \E u \in Threads : pc[u] \in PublishPCs /\ loc[u].target = i
FDepth(i) == IF Raised(i) THEN Depth(i) + 1 ELSE Depth(i)
FDepths == [i \in Pointers |-> FDepth(i)]

\* Thread u has still to store b into entry x; some thread has still to store
\* there and splits a.
Pend(u, x, b) == pc[u] = "i_update" /\ HasWrite(loc[u].writes, x, b)
Leads(x, a) == \E v \in Threads, c \in Pointers : Pend(v, x, c) /\ loc[v].target = a

\* F uses segment i.
Linked(F, i) == \E x \in Entries(Dir) : F[x] = i

Shape(F) == F \in [Entries(Dir) -> Pointers] /\ Ranged(Dir.depth, F, FDepths)

\* The stores into entry x make a chain from what it holds to F[x]: each
\* replaces the segment its thread splits.
EntryPlan(x, F) ==
  /\ Dir.segment[x] = F[x] \/ Leads(x, Dir.segment[x])
  /\ \A u \in Threads, b \in Pointers : Pend(u, x, b) =>
       /\ b = F[x] \/ Leads(x, b)
       /\ b # Dir.segment[x] /\ loc[u].target # F[x]
       /\ \A v \in Threads, c \in Pointers : Pend(v, x, c) /\ u # v => b # c

\* The halves that are not in the directory yet.
News(l) == IF INPLACE THEN {l.s[2]} ELSE {l.s[1], l.s[2]}

\* A thread at p with the locals l and the calls q: an open target is in use,
\* and so is one that is to be reopened;
OpenLinked(p, l, F) == p \notin NoTargetPCs /\ segs[l.target].sema >= 0 => Linked(F, l.target)
ClosedLinked(p, l, F) == p \in {"i_wait", "i_recheck", "i_finish"} => Linked(F, l.target)

\* the depth it remembers is not above the target's, and while they agree the
\* target is the home of the key;
HomeOf(l, q, F) == F[Prefix(Head(q).key, Dir.depth)] = l.target
DepthSeen(p, l, q, F) ==
  p \in {"i_suspend", "i_wait", "i_recheck"} =>
    /\ l.depth <= Depth(l.target) /\ (~INPLACE => l.depth = Depth(l.target))
    /\ Linked(F, l.target) /\ FDepth(l.target) = l.depth => HomeOf(l, q, F)
HomeAt(p, l, q, F) ==
  /\ p \in {"i_split"} \cup SharePCs => l.depth = Depth(l.target)
  /\ p \in {"i_probe", "i_split"} \cup PendingPCs => HomeOf(l, q, F)

\* only an in-place split keeps its target in use;
Updates(p, l, F) ==
  p = "i_update" => (INPLACE <=> Linked(F, l.target)) /\ OneEach(l.writes)

\* and the new halves are open, empty of threads and in no directory.
Unlinked(b, F) == \A x \in Entries(Dir) : Dir.segment[x] # b /\ F[x] # b
NewHalf(b, i, F) ==
  b \in Pointers /\ Depth(b) = Depth(i) + 1 /\ segs[b].sema = 0 /\ Unlinked(b, F)
NewsAt(p, l, F) ==
  p \in PendingPCs =>
    /\ l.s[1] # l.s[2] /\ (INPLACE => l.s[1] = l.target)
    /\ \A b \in News(l) : NewHalf(b, l.target, F)

PlanAt(p, l, q, F) ==
  /\ OpenLinked(p, l, F) /\ ClosedLinked(p, l, F) /\ DepthSeen(p, l, q, F)
  /\ HomeAt(p, l, q, F) /\ Updates(p, l, F) /\ NewsAt(p, l, F)

\* No other thread has a new half, as its target or as a half of its own.
NewsApart ==
  \A u \in Threads : pc[u] \in PendingPCs =>
    \A b \in News(loc[u]) : \A v \in Threads :
      /\ loc[v].target # b
      /\ v # u /\ pc[v] \in SharePCs => b \notin {loc[v].s[1], loc[v].s[2]}

\* A segment in use is closed only by a thread that splits it.
Owned(F) == \A x \in Entries(Dir) : segs[F[x]].sema < 0 => Closers(F[x]) # {}

Plan(F) ==
  /\ Shape(F) /\ NewsApart /\ Owned(F)
  /\ \A x \in Entries(Dir) : EntryPlan(x, F)
  /\ \A t \in Threads : PlanAt(pc[t], loc[t], todo[t], F)

PlanInv == races = {} => \E F : Plan(F)

-----------------------------------------------------------------------------
(* Steps that change no entry and no depth                                  *)

\* The directory and the depths stay, and the semaphores but for k's.
Calm(k) ==
  /\ (Dir.segment)' = Dir.segment /\ (Dir.depth)' = Dir.depth
  /\ Len(segs') = Len(segs)
  /\ \A i \in Pointers : Depth(i)' = Depth(i)
  /\ \A i \in Pointers \ {k} : segs'[i].sema = segs[i].sema

\* What it leaves as it is.
LEMMA CalmSame ==
  ASSUME Inv, NEW k, Calm(k)
  PROVE  /\ Pointers' = Pointers /\ Entries(Dir)' = Entries(Dir)
         /\ (Dir.segment)' = Dir.segment /\ (Dir.depth)' = Dir.depth
         /\ \A F, i : Linked(F, i)' <=> Linked(F, i)
         /\ \A l, q, F : HomeOf(l, q, F)' <=> HomeOf(l, q, F)
         /\ \A b, F : Unlinked(b, F)' <=> Unlinked(b, F)
<1>1. Pointers' = Pointers /\ Entries(Dir)' = Entries(Dir)
  BY DEF Calm, Pointers, Entries
<1> QED
  BY <1>1 DEF Calm, Linked, HomeOf, Unlinked, Prefix

\* A step of a thread that publishes no split before or after it.
LEMMA CalmDepth ==
  ASSUME Inv, NEW k, Calm(k), NEW t \in Threads, NEW p \in PCs, NEW l \in Locals, Acts(t, p, l),
         pc[t] \notin PublishPCs, p \notin PublishPCs
  PROVE  /\ \A i \in Pointers : FDepth(i)' = FDepth(i)
         /\ FDepths' = FDepths
         /\ \A u \in Threads : \A x, b : Pend(u, x, b)' <=> Pend(u, x, b)
<1>1. /\ pc'[t] = p /\ loc'[t] = l /\ INPLACE' = INPLACE
      /\ \A u \in Threads \ {t} : pc'[u] = pc[u] /\ loc'[u] = loc[u]
  BY ActsOthers DEF Inv
<1>2. Pointers' = Pointers
  BY CalmSame
<1>3. \A i : Raised(i)' <=> Raised(i)
  BY <1>1 DEF Raised
<1>4. \A i \in Pointers : FDepth(i)' = FDepth(i)
  BY <1>3 DEF FDepth, Calm
<1>5. FDepths' = FDepths
  BY <1>2, <1>4 DEF FDepths
<1>6. \A u \in Threads : \A x, b : Pend(u, x, b)' <=> Pend(u, x, b)
  <2> SUFFICES ASSUME NEW u \in Threads, NEW x, NEW b PROVE Pend(u, x, b)' <=> Pend(u, x, b)
    OBVIOUS
  <2>1. CASE u = t
    BY <1>1, <2>1 DEF Pend, PublishPCs
  <2>2. CASE u # t
    BY <1>1, <2>2 DEF Pend
  <2> QED
    BY <2>1, <2>2
<1> QED
  BY <1>4, <1>5, <1>6

\* The directory and the stores that are left stay.
LEMMA KeptDirectory ==
  ASSUME Pointers' = Pointers, Entries(Dir)' = Entries(Dir),
         (Dir.segment)' = Dir.segment, (Dir.depth)' = Dir.depth,
         FDepths' = FDepths, NEW F, Shape(F),
         \A u \in Threads : \A x, b : Pend(u, x, b)' <=> Pend(u, x, b),
         \A u \in Threads : \A x, b : Pend(u, x, b) => loc'[u].target = loc[u].target,
         \A x \in Entries(Dir) : EntryPlan(x, F)
  PROVE  Shape(F)' /\ \A x \in Entries(Dir)' : EntryPlan(x, F)'
<1>1. /\ Pointers' = Pointers /\ Entries(Dir)' = Entries(Dir)
      /\ (Dir.segment)' = Dir.segment /\ (Dir.depth)' = Dir.depth
  OBVIOUS
<1>2. \A x, a : Leads(x, a)' <=> Leads(x, a)
  BY <1>1 DEF Leads
<1>4. Shape(F)'
  BY <1>1 DEF Shape
<1>5. ASSUME NEW x \in Entries(Dir) PROVE EntryPlan(x, F)'
  <2>1. EntryPlan(x, F)
    BY <1>5
  <2>2. (Dir.segment[x] = F[x] \/ Leads(x, Dir.segment[x]))'
    BY <1>1, <1>2, <2>1 DEF EntryPlan
  <2>3. ASSUME NEW u \in Threads, NEW b \in Pointers, Pend(u, x, b)
        PROVE  /\ b = F[x] \/ Leads(x, b)'
               /\ b # (Dir.segment)'[x] /\ loc'[u].target # F[x]
               /\ \A v \in Threads, c \in Pointers : Pend(v, x, c)' /\ u # v => b # c
    <3>1. /\ b = F[x] \/ Leads(x, b)
          /\ b # Dir.segment[x] /\ loc[u].target # F[x]
          /\ \A v \in Threads, c \in Pointers : Pend(v, x, c) /\ u # v => b # c
      BY <2>1, <2>3 DEF EntryPlan
    <3>2. loc'[u].target = loc[u].target
      BY <2>3
    <3> QED
      BY <1>1, <1>2, <3>1, <3>2
  <2> QED
    BY <1>1, <1>2, <2>2, <2>3 DEF EntryPlan
<1> QED
  BY <1>1, <1>4, <1>5

LEMMA KeptEntries ==
  ASSUME NEW k, Calm(k), Inv, FDepths' = FDepths, NEW F, Shape(F),
         \A u \in Threads : \A x, b : Pend(u, x, b)' <=> Pend(u, x, b),
         \A u \in Threads : \A x, b : Pend(u, x, b) => loc'[u].target = loc[u].target,
         \A x \in Entries(Dir) : EntryPlan(x, F)
  PROVE  Shape(F)' /\ \A x \in Entries(Dir)' : EntryPlan(x, F)'
<1>1. /\ Pointers' = Pointers /\ Entries(Dir)' = Entries(Dir)
      /\ (Dir.segment)' = Dir.segment /\ (Dir.depth)' = Dir.depth
  BY CalmSame
<1> QED
  BY <1>1, KeptDirectory

\* A thread that does not move.
LEMMA OtherPlan ==
  ASSUME NEW p, NEW l, NEW q, NEW F, NEW G, PlanAt(p, l, q, F), INPLACE' = INPLACE, NEW j, j = l.target,
         p \notin NoTargetPCs /\ segs'[j].sema >= 0 => segs[j].sema >= 0 \/ Linked(G, j)',
         p \notin NoTargetPCs =>
           /\ Depth(j)' = Depth(j) /\ FDepth(j)' = FDepth(j)
           /\ Linked(G, j)' <=> Linked(F, j)
           /\ HomeOf(l, q, F) => HomeOf(l, q, G)',
         p \in PendingPCs => \A b \in News(l) : NewHalf(b, j, F) => NewHalf(b, j, G)'
  PROVE  PlanAt(p, l, q, G)'
<1>1. p \in {"i_suspend", "i_wait", "i_recheck", "i_probe", "i_split", "i_finish"} \cup SharePCs =>
        p \notin NoTargetPCs
  BY DEF SharePCs, NoTargetPCs
<1>2. PendingPCs \subseteq SharePCs /\ "i_update" \in SharePCs
  BY DEF PendingPCs, SharePCs
<1>3. OpenLinked(p, l, G)'
  BY DEF PlanAt, OpenLinked
<1>4. ClosedLinked(p, l, G)'
  BY <1>1 DEF PlanAt, ClosedLinked
<1>5. DepthSeen(p, l, q, G)'
  <2> SUFFICES ASSUME p \in {"i_suspend", "i_wait", "i_recheck"}
               PROVE  /\ l.depth <= Depth(j)' /\ (~INPLACE' => l.depth = Depth(j)')
                      /\ Linked(G, j)' /\ FDepth(j)' = l.depth => HomeOf(l, q, G)'
    BY DEF DepthSeen
  <2>1. /\ l.depth <= Depth(j) /\ (~INPLACE => l.depth = Depth(j))
        /\ Linked(F, j) /\ FDepth(j) = l.depth => HomeOf(l, q, F)
    BY DEF PlanAt, DepthSeen
  <2> QED
    BY <1>1, <2>1
<1>6. HomeAt(p, l, q, G)'
  BY <1>1, <1>2 DEF PlanAt, HomeAt
<1>7. Updates(p, l, G)'
  BY <1>1, <1>2 DEF PlanAt, Updates
<1>8. NewsAt(p, l, G)'
  BY DEF PlanAt, NewsAt, News
<1> QED
  BY <1>3, <1>4, <1>5, <1>6, <1>7, <1>8 DEF PlanAt

\* The threads that do not move.
LEMMA CalmOthers ==
  ASSUME Inv, NEW k, Calm(k), NEW t \in Threads, NEW p \in PCs, NEW l \in Locals, Acts(t, p, l),
         k = loc[t].target, NEW q, todo' = [todo EXCEPT ![t] = q],
         \A i \in Pointers : FDepth(i)' = FDepth(i), NEW F, Plan(F),
         k \in Pointers /\ segs'[k].sema >= 0 => segs[k].sema >= 0 \/ Linked(F, k),
         NEW u \in Threads, u # t
  PROVE  PlanAt(pc[u], loc[u], todo[u], F)'
<1>1. Typed /\ INPLACE' = INPLACE /\ Pointers' = Pointers
  BY ActsOthers, CalmSame DEF Inv
<1>2. PICK pu, lu, qu : pu = pc[u] /\ lu = loc[u] /\ qu = todo[u]
  OBVIOUS
<1>3. pc'[u] = pu /\ loc'[u] = lu /\ todo'[u] = qu
  BY <1>1, <1>2, ActsOthers DEF Typed
<1>4. PlanAt(pu, lu, qu, F) /\ LocalAt(pu, lu, qu)
  BY <1>2 DEF Plan, Inv, LocalsOK
<1>5. PICK j : j = lu.target
  OBVIOUS
<1>6. pu \notin NoTargetPCs => j \in Pointers
  BY <1>4, <1>5 DEF LocalAt
<1>7. pu \notin NoTargetPCs =>
           /\ Depth(j)' = Depth(j) /\ FDepth(j)' = FDepth(j)
           /\ Linked(F, j)' <=> Linked(F, j)
           /\ HomeOf(lu, qu, F) => HomeOf(lu, qu, F)'
  <2>2. (Linked(F, j)' <=> Linked(F, j)) /\ (HomeOf(lu, qu, F) <=> HomeOf(lu, qu, F)')
    BY CalmSame
  <2> QED
    BY <1>6, <2>2 DEF Calm
<1>8. pu \notin NoTargetPCs /\ segs'[j].sema >= 0 => segs[j].sema >= 0 \/ Linked(F, j)'
  <2>1. Linked(F, j)' <=> Linked(F, j)
    BY CalmSame
  <2> QED
    BY <1>6, <2>1 DEF Calm
<1>9. pu \in PendingPCs => \A b \in News(lu) : NewHalf(b, j, F) => NewHalf(b, j, F)'
  <2> SUFFICES ASSUME pu \in PendingPCs, NEW b \in News(lu), NewHalf(b, j, F) PROVE NewHalf(b, j, F)'
    OBVIOUS
  <2>1. b # k
    BY <1>2 DEF Plan, NewsApart
  <2>2. Unlinked(b, F)' <=> Unlinked(b, F)
    BY CalmSame
  <2>3. pu \notin NoTargetPCs
    BY DEF PendingPCs, SharePCs, NoTargetPCs
  <2>4. Depth(b)' = Depth(b) /\ segs'[b].sema = segs[b].sema /\ b \in Pointers /\ Depth(j)' = Depth(j)
    BY <1>7, <2>1, <2>3 DEF Calm, NewHalf
  <2> QED
    BY <1>1, <2>2, <2>4 DEF NewHalf
<1>10. PlanAt(pu, lu, qu, F)'
  BY <1>1, <1>4, <1>5, <1>7, <1>8, <1>9, OtherPlan
<1> QED
  BY <1>3, <1>10

\* The new halves stay apart.
LEMMA CalmApart ==
  ASSUME Inv, NEW t \in Threads, NEW p \in PCs, NEW l \in Locals, Acts(t, p, l),
         NEW F, NewsApart, \A u \in Threads : PlanAt(pc[u], loc[u], todo[u], F),
         p \in SharePCs => pc[t] \in SharePCs /\ l.s = loc[t].s,
         p \in PendingPCs => pc[t] \in PendingPCs,
         \/ l.target = loc[t].target
         \/ l.target = 0
         \/ \E x \in Entries(Dir) : l.target = Dir.segment[x]
  PROVE  NewsApart'
<1>1. /\ pc'[t] = p /\ loc'[t] = l /\ INPLACE' = INPLACE
      /\ \A u \in Threads \ {t} : pc'[u] = pc[u] /\ loc'[u] = loc[u]
  BY ActsOthers DEF Inv
<1> SUFFICES ASSUME NEW u \in Threads, pc'[u] \in PendingPCs, NEW b \in News(loc[u])', NEW v \in Threads
             PROVE  /\ loc'[v].target # b
                    /\ v # u /\ pc'[v] \in SharePCs => b \notin {loc'[v].s[1], loc'[v].s[2]}
  BY DEF NewsApart
<1>2. PendingPCs \subseteq SharePCs
  BY DEF PendingPCs
<1>3. loc'[u].s = loc[u].s /\ pc[u] \in PendingPCs
  BY <1>1, <1>2
<1>4. b \in News(loc[u])
  BY <1>1, <1>3 DEF News
<1>5. b \in Pointers /\ Unlinked(b, F)
  BY <1>3, <1>4 DEF PlanAt, NewsAt, NewHalf
<1>6. b # 0 /\ \A x \in Entries(Dir) : Dir.segment[x] # b
  BY <1>5 DEF Pointers, Unlinked
<1>7. /\ loc[v].target # b
      /\ v # u /\ pc[v] \in SharePCs => b \notin {loc[v].s[1], loc[v].s[2]}
  BY <1>3, <1>4 DEF NewsApart
<1>8. CASE v = t
  BY <1>1, <1>6, <1>7, <1>8
<1>9. CASE v # t
  BY <1>1, <1>7, <1>9
<1> QED
  BY <1>8, <1>9

\* Closed segments keep an owner.
LEMMA CalmOwned ==
  ASSUME Inv, NEW k, Calm(k), NEW t \in Threads, NEW p \in PCs, NEW l \in Locals, Acts(t, p, l),
         k = loc[t].target, NEW F, Shape(F), Owned(F),
         Linked(F, k) /\ segs'[k].sema < 0 => segs[k].sema < 0 \/ (l.target = k /\ p \in ClosePCs),
         Linked(F, k) /\ pc[t] \in ClosePCs /\ segs'[k].sema < 0 => l.target = k /\ p \in ClosePCs
  PROVE  Owned(F)'
<1>1. /\ pc'[t] = p /\ loc'[t] = l
      /\ \A u \in Threads \ {t} : pc'[u] = pc[u] /\ loc'[u] = loc[u]
  BY ActsOthers DEF Inv
<1>2. \A i : Closers(i) = {u \in Threads : loc[u].target = i /\ pc[u] \in ClosePCs}
  BY DEF Closers, Waiters, Splitters, ClosePCs
<1>3. \A i : Closers(i)' = {u \in Threads : loc'[u].target = i /\ pc'[u] \in ClosePCs}
  BY DEF Closers, Waiters, Splitters, ClosePCs
<1> SUFFICES ASSUME NEW x \in Entries(Dir)', NEW i, i = F[x], segs'[i].sema < 0 PROVE Closers(i)' # {}
  BY DEF Owned
<1>4. i \in Pointers /\ x \in Entries(Dir) /\ Linked(F, i)
  BY CalmSame DEF Shape, Linked
<1>5. CASE i # k
  <2>1. segs[i].sema < 0
    BY <1>4, <1>5 DEF Calm
  <2>2. PICK u \in Closers(i) : TRUE
    BY <1>4, <2>1 DEF Owned
  <2> QED
    BY <1>1, <1>2, <1>3, <1>5, <2>2
<1>6. CASE i = k
  <2>1. CASE l.target = k /\ p \in ClosePCs
    BY <1>1, <1>3, <1>6, <2>1
  <2>2. CASE ~(l.target = k /\ p \in ClosePCs)
    <3>1. segs[i].sema < 0 /\ pc[t] \notin ClosePCs
      BY <1>4, <1>6, <2>2
    <3>2. PICK u \in Closers(i) : TRUE
      BY <1>4, <3>1 DEF Owned
    <3> QED
      BY <1>1, <1>2, <1>3, <3>1, <3>2
  <2> QED
    BY <2>1, <2>2
<1> QED
  BY <1>5, <1>6

\* What the thread that moves needs, said of the state before.
NextAt(p, l, q, F) ==
  /\ p \notin NoTargetPCs /\ segs'[l.target].sema >= 0 => Linked(F, l.target)
  /\ p \in ClosePCs \cup {"i_suspend"} => l.target \in Pointers
  /\ ClosedLinked(p, l, F) /\ DepthSeen(p, l, q, F) /\ HomeAt(p, l, q, F)

\* A calm step keeps the plan.
LEMMA CalmPlan ==
  ASSUME Inv, NEW k, Calm(k), NEW t \in Threads, NEW p \in PCs, NEW l \in Locals, Acts(t, p, l),
         k = loc[t].target, NEW q, todo' = [todo EXCEPT ![t] = q],
         pc[t] \notin PublishPCs, p \notin PublishPCs, NEW F, Plan(F),
         p \in PendingPCs => pc[t] \in PendingPCs /\ l.s = loc[t].s /\ l.target = k,
         \/ l.target = k
         \/ l.target = 0
         \/ \E x \in Entries(Dir) : l.target = Dir.segment[x],
         k \in Pointers /\ segs'[k].sema >= 0 => segs[k].sema >= 0 \/ Linked(F, k),
         k \in Pointers /\ segs'[k].sema < 0 => segs[k].sema < 0 \/ (l.target = k /\ p \in ClosePCs),
         k \in Pointers /\ pc[t] \in ClosePCs /\ segs'[k].sema < 0 => l.target = k /\ p \in ClosePCs,
         NextAt(p, l, q, F)
  PROVE  Plan(F)'
<1>0. /\ Shape(F) /\ NewsApart /\ Owned(F)
      /\ \A x \in Entries(Dir) : EntryPlan(x, F)
      /\ \A u \in Threads : PlanAt(pc[u], loc[u], todo[u], F)
  BY DEF Plan
<1>1. Shape(F)' /\ \A x \in Entries(Dir)' : EntryPlan(x, F)'
  <2>1. FDepths' = FDepths /\ \A u \in Threads : \A x, b : Pend(u, x, b)' <=> Pend(u, x, b)
    BY CalmDepth
  <2>2. \A u \in Threads : \A x, b : Pend(u, x, b) => loc'[u].target = loc[u].target
    <3>1. \A u \in Threads \ {t} : pc'[u] = pc[u] /\ loc'[u] = loc[u]
      BY ActsOthers DEF Inv
    <3> QED
      BY <3>1 DEF Pend, PublishPCs
  <2> QED
    BY <1>0, <2>1, <2>2, KeptEntries
<1>2. NewsApart'
  <2>1. p \in SharePCs => p \in PendingPCs
    BY DEF PendingPCs, PublishPCs
  <2>2. PendingPCs \subseteq SharePCs
    BY DEF PendingPCs
  <2> QED
    BY <1>0, <2>1, <2>2, CalmApart
<1>3. Owned(F)'
  <2>1. Linked(F, k) => k \in Pointers
    BY <1>0 DEF Linked, Shape
  <2> QED
    BY <1>0, <2>1, CalmOwned
<1>4. pc'[t] = p /\ loc'[t] = l /\ todo'[t] = q /\ INPLACE' = INPLACE /\ Pointers' = Pointers
  BY ActsOthers, CalmSame DEF Inv, Typed
<1>5. /\ Linked(F, l.target)' <=> Linked(F, l.target)
      /\ HomeOf(l, q, F)' <=> HomeOf(l, q, F)
  BY CalmSame
<1>6. p \in ClosePCs \cup {"i_suspend"} => Depth(l.target)' = Depth(l.target) /\ FDepth(l.target)' = FDepth(l.target)
  <2>1. \A i \in Pointers : FDepth(i)' = FDepth(i) /\ Depth(i)' = Depth(i)
    BY CalmDepth DEF Calm
  <2> QED
    BY <2>1 DEF NextAt
<1>7. PlanAt(p, l, q, F)'
  <2>1. OpenLinked(p, l, F)'
    BY <1>5 DEF OpenLinked, NextAt
  <2>2. ClosedLinked(p, l, F)'
    BY <1>5 DEF ClosedLinked, NextAt
  <2>3. DepthSeen(p, l, q, F)'
    <3>1. p \in {"i_suspend", "i_wait", "i_recheck"} => p \in ClosePCs \cup {"i_suspend"}
      BY DEF ClosePCs, SplitPCs
    <3> QED
      BY <1>4, <1>5, <1>6, <3>1 DEF DepthSeen, NextAt
  <2>4. HomeAt(p, l, q, F)'
    <3>1. p \in {"i_split"} \cup SharePCs => p \in ClosePCs
      BY DEF ClosePCs, SplitPCs, SharePCs
    <3> QED
      BY <1>4, <1>5, <1>6, <3>1 DEF HomeAt, NextAt
  <2>5. Updates(p, l, F)'
    BY DEF Updates, PublishPCs
  <2>6. NewsAt(p, l, F)'
    <3> SUFFICES ASSUME p \in PendingPCs
                 PROVE  /\ l.s[1] # l.s[2] /\ (INPLACE' => l.s[1] = l.target)
                        /\ \A b \in News(l)' : NewHalf(b, l.target, F)'
      BY DEF NewsAt
    <3>1. NewsAt(pc[t], loc[t], F)
      BY <1>0 DEF PlanAt
    <3>2. /\ l.s[1] # l.s[2] /\ (INPLACE => l.s[1] = l.target)
          /\ \A b \in News(l) : NewHalf(b, l.target, F)
      BY <3>1 DEF NewsAt, News
    <3>3. ASSUME NEW b \in News(l) PROVE NewHalf(b, l.target, F)'
      <4>1. b # k
        <5>1. b \in News(loc[t]) /\ pc[t] \in PendingPCs
          BY <3>3 DEF News
        <5> QED
          BY <1>0, <5>1 DEF NewsApart
      <4>2. Unlinked(b, F)' <=> Unlinked(b, F)
        BY CalmSame
      <4>3. p \in ClosePCs
        BY DEF ClosePCs, SplitPCs, PendingPCs, SharePCs
      <4>4. NewHalf(b, l.target, F)
        BY <3>2, <3>3
      <4>5. b \in Pointers /\ Depth(b)' = Depth(b) /\ segs'[b].sema = segs[b].sema
        BY <4>1, <4>4 DEF Calm, NewHalf
      <4> QED
        BY <1>4, <1>6, <4>2, <4>3, <4>4, <4>5 DEF NewHalf
    <3>4. News(l)' = News(l)
      BY <1>4 DEF News
    <3> QED
      BY <1>4, <3>2, <3>3, <3>4
  <2> QED
    BY <2>1, <2>2, <2>3, <2>4, <2>5, <2>6 DEF PlanAt
<1>8. \A u \in Threads : PlanAt(pc[u], loc[u], todo[u], F)'
  <2> SUFFICES ASSUME NEW u \in Threads PROVE PlanAt(pc[u], loc[u], todo[u], F)'
    OBVIOUS
  <2>1. CASE u = t
    BY <1>4, <1>7, <2>1
  <2>2. CASE u # t
    <3>1. \A i \in Pointers : FDepth(i)' = FDepth(i)
      BY CalmDepth
    <3> QED
      BY <2>2, <3>1, CalmOthers
  <2> QED
    BY <2>1, <2>2
<1> QED
  BY <1>1, <1>2, <1>3, <1>8 DEF Plan

\* An open segment that the directory points to is in use: who still has to
\* replace it has closed it.
LEMMA OpenEntry ==
  ASSUME Inv, races = {}, NEW F, Plan(F), NEW x \in Entries(Dir),
         Splitters(Dir.segment[x]) = {}
  PROVE  F[x] = Dir.segment[x]
<1>1. EntryPlan(x, F)
  BY DEF Plan
<1>2. CASE Leads(x, Dir.segment[x])
  <2>1. PICK v \in Threads : pc[v] = "i_update" /\ loc[v].target = Dir.segment[x]
    BY <1>2 DEF Leads, Pend
  <2>2. v \in Splitters(Dir.segment[x])
    BY <2>1 DEF Splitters, SplitPCs
  <2> QED
    BY <2>2
<1> QED
  BY <1>1, <1>2 DEF EntryPlan

\* The segments an open lock or a thread inside rules out of being split.
LEMMA NotSplit ==
  ASSUME Inv, races = {}, NEW i \in Pointers, segs[i].sema >= 0 \/ Holders(i) # {}
  PROVE  Splitters(i) = {}
<1>1. SegLock(i)
  BY DEF Inv, SegLocks
<1> QED
  BY <1>1 DEF SegLock, Closers

\* No semaphore is opened or closed.
SignKept ==
  \A i \in Pointers : /\ segs'[i].sema >= 0 <=> segs[i].sema >= 0
                      /\ segs'[i].sema < 0 <=> segs[i].sema < 0

\* A thread that neither waits nor splits, before and after the step.
LEMMA PlainPlan ==
  ASSUME Inv, races = {}, NEW t \in Threads, NEW p \in PlainPCs, NEW l \in Locals, Acts(t, p, l),
         NEW q, todo' = [todo EXCEPT ![t] = q],
         pc[t] \in PlainPCs, Calm(loc[t].target), SignKept, NEW F, Plan(F),
         \/ l.target = loc[t].target /\ (p \in NoTargetPCs \/ pc[t] \notin NoTargetPCs)
         \/ l.target = 0 /\ p \in NoTargetPCs
         \/ \E x \in Entries(Dir) : l.target = Dir.segment[x],
         p = "i_probe" => HomeOf(l, q, F),
         p = "i_suspend" => DepthSeen(p, l, q, F)
  PROVE  Plan(F)'
<1>1. Typed /\ DirsOK /\ LocalAt(pc[t], loc[t], todo[t]) /\ PlanAt(pc[t], loc[t], todo[t], F)
  BY Facts DEF Inv, Plan
<1>2. PICK k : k = loc[t].target
  OBVIOUS
<1>3. p \in PCs /\ p \notin ClosePCs /\ pc[t] \notin ClosePCs
  BY PlainPC DEF ClosePCs
<1>4. PublishPCs \subseteq ClosePCs /\ PendingPCs \subseteq ClosePCs
  BY DEF PublishPCs, PendingPCs, ClosePCs, SplitPCs, SharePCs
<1>5. p \notin NoTargetPCs => l.target \in Pointers
  BY <1>1, DirFacts DEF LocalAt
<1>6. p \notin NoTargetPCs /\ segs'[l.target].sema >= 0 => Linked(F, l.target)
  <2> SUFFICES ASSUME p \notin NoTargetPCs, segs'[l.target].sema >= 0 PROVE Linked(F, l.target)
    OBVIOUS
  <2>1. segs[l.target].sema >= 0
    BY <1>5 DEF SignKept
  <2>2. CASE l.target = loc[t].target /\ pc[t] \notin NoTargetPCs
    BY <1>1, <2>1, <2>2 DEF PlanAt, OpenLinked
  <2>3. CASE \E x \in Entries(Dir) : l.target = Dir.segment[x]
    <3>1. PICK x \in Entries(Dir) : l.target = Dir.segment[x]
      BY <2>3
    <3>2. Splitters(l.target) = {}
      BY <1>5, <2>1, NotSplit
    <3>3. F[x] = Dir.segment[x]
      BY <3>1, <3>2, OpenEntry
    <3> QED
      BY <3>1, <3>3 DEF Linked
  <2> QED
    BY <2>2, <2>3
<1>7. NextAt(p, l, q, F)
  <2>1. p \in ClosePCs \cup {"i_suspend"} => p \notin NoTargetPCs
    BY <1>3 DEF NoTargetPCs
  <2>2. ClosedLinked(p, l, F)
    BY <1>3 DEF ClosedLinked, ClosePCs, SplitPCs
  <2>3. DepthSeen(p, l, q, F)
    BY <1>3 DEF DepthSeen, ClosePCs, SplitPCs
  <2>4. HomeAt(p, l, q, F)
    BY <1>3 DEF HomeAt, ClosePCs, SplitPCs, SharePCs, PendingPCs
  <2> QED
    BY <1>5, <1>6, <2>1, <2>2, <2>3, <2>4 DEF NextAt
<1>8. /\ k \in Pointers /\ segs'[k].sema >= 0 => segs[k].sema >= 0 \/ Linked(F, k)
      /\ k \in Pointers /\ segs'[k].sema < 0 => segs[k].sema < 0 \/ (l.target = k /\ p \in ClosePCs)
      /\ k \in Pointers /\ pc[t] \in ClosePCs /\ segs'[k].sema < 0 => l.target = k /\ p \in ClosePCs
  BY <1>3 DEF SignKept
<1>9. \/ l.target = k
      \/ l.target = 0
      \/ \E x \in Entries(Dir) : l.target = Dir.segment[x]
  BY <1>2
<1>10. pc[t] \notin PublishPCs /\ p \notin PublishPCs /\ p \notin PendingPCs
  BY <1>3, <1>4
<1> QED
  BY <1>2, <1>3, <1>7, <1>8, <1>9, <1>10, CalmPlan

\* The locals after a store into one of them, after none, and after a RETRY.
LEMMA PutMoves ==
  ASSUME Inv, NEW t \in Threads, NEW f, NEW v, NEW p, Goto(t, p), Put(t, f, v), scenario' = scenario,
         \/ f \in {"x", "target", "check", "val"} /\ v \in Nat
         \/ f = "slot" /\ v \in Slots
         \/ f = "depth" /\ v \in 0 .. HashBits
         \/ f = "s" /\ v \in Nat \X Nat
         \/ f = "writes" /\ v \in Seq(Nat \X Nat)
         \/ f = "must" /\ v \in BOOLEAN
         \/ f = "result" /\ v \in Values \cup {NONE}
  PROVE  \E l \in Locals :
           /\ Acts(t, p, l)
           /\ l.target = IF f = "target" THEN v ELSE loc[t].target
           /\ l.depth = IF f = "depth" THEN v ELSE loc[t].depth
           /\ l.s = IF f = "s" THEN v ELSE loc[t].s
           /\ l.writes = IF f = "writes" THEN v ELSE loc[t].writes
<1>1. Typed /\ loc[t] \in Locals
  BY Facts DEF Inv
<1>2. PICK l : l = [loc[t] EXCEPT ![f] = v]
  OBVIOUS
<1>3. l \in Locals /\ Acts(t, p, l)
  BY <1>1, <1>2, PutLocal
<1>4. /\ f # "target" => l.target = loc[t].target
      /\ f # "depth" => l.depth = loc[t].depth
      /\ f # "s" => l.s = loc[t].s
      /\ f # "writes" => l.writes = loc[t].writes
      /\ f = "target" => l.target = v
      /\ f = "depth" => l.depth = v
      /\ f = "s" => l.s = v
      /\ f = "writes" => l.writes = v
  <2>1. PICK m \in Locals : m = loc[t]
    BY <1>1
  <2>2. l = [m EXCEPT ![f] = v]
    BY <1>2, <2>1
  <2>3. /\ f # "target" => l.target = m.target
        /\ f # "depth" => l.depth = m.depth
        /\ f # "s" => l.s = m.s
        /\ f # "writes" => l.writes = m.writes
    BY <2>2, PutOthers
  <2>4. /\ f = "target" => l.target = v
        /\ f = "depth" => l.depth = v
        /\ f = "s" => l.s = v
        /\ f = "writes" => l.writes = v
    <3>1. f = "target" => l.target = v
      BY <2>2 DEF Locals
    <3>2. f = "depth" => l.depth = v
      BY <2>2 DEF Locals
    <3>3. f = "s" => l.s = v
      BY <2>2 DEF Locals
    <3>4. f = "writes" => l.writes = v
      BY <2>2 DEF Locals
    <3> QED
      BY <3>1, <3>2, <3>3, <3>4
  <2> QED
    BY <2>1, <2>3, <2>4
<1> QED
  BY <1>3, <1>4

\* The same when none is changed.
LEMMA GotoMoves ==
  ASSUME Inv, NEW t \in Threads, NEW p, Goto(t, p), UNCHANGED <<loc, scenario>>
  PROVE  \E l \in Locals : l = loc[t] /\ Acts(t, p, l)
<1>1. loc[t] \in Locals
  BY Facts
<1> QED
  BY <1>1 DEF Acts, Goto, Inv, Typed

\* And when the attempt or the call is over.
LEMMA FreshMoves ==
  ASSUME Inv, NEW t \in Threads, NEW p, scenario' = scenario, Retry(t, p) \/ (Return(t) /\ p = "idle")
  PROVE  \E l \in Locals : l.target = 0 /\ Acts(t, p, l)
<1>1. PICK l : /\ l = NoLocals \/ l = [NoLocals EXCEPT !.must = loc[t].must]
               /\ pc' = [pc EXCEPT ![t] = p] /\ loc' = [loc EXCEPT ![t] = l]
  BY DEF Retry, Return, Goto
<1>2. l \in Locals
  <2>1. "g_spin" \in NoTargetPCs
    BY DEF NoTargetPCs
  <2>2. "g_spin" # "idle" => <<0>> # <<>>
    OBVIOUS
  <2>3. l = NoLocals \/ l = [NoLocals EXCEPT !.must = loc[t].must]
    BY <1>1
  <2>4. l \in Locals /\ LocalAt("g_spin", l, <<0>>)
    BY <2>1, <2>2, <2>3, FreshLocals, Zenon
  <2> QED
    BY <2>4
<1>3. l.target = 0
  BY <1>1 DEF NoLocals
<1> QED
  BY <1>1, <1>2, <1>3 DEF Acts

\* Stores that keep the locks are calm;
LEMMA QuietCalm ==
  ASSUME Inv, SameLocks, UNCHANGED <<dirs, dir>>, NEW k
  PROVE  Calm(k) /\ SignKept
BY DEF Calm, SameLocks, SignKept, Dir

\* so is a store into one semaphore.
LEMMA SemaCalm ==
  ASSUME Inv, NEW k \in Pointers, NEW n \in Int, StoresSema(k, n), UNCHANGED <<dirs, dir>>
  PROVE  /\ Calm(k) /\ segs'[k].sema = n /\ segs[k].sema \in Int
         /\ (n >= 0 <=> segs[k].sema >= 0) => SignKept
<1>1. /\ Len(segs') = Len(segs) /\ segs'[k].sema = n
      /\ \A i \in Pointers : Depth(i)' = Depth(i)
      /\ \A i \in Pointers \ {k} : segs'[i].sema = segs[i].sema
  BY SemaStore
<1>2. segs[k].sema \in Int
  BY SegFacts DEF Inv
<1>3. (n >= 0 <=> segs[k].sema >= 0) => (n < 0 <=> segs[k].sema < 0)
  BY <1>2
<1>4. Calm(k)
  BY <1>1 DEF Calm, Dir
<1>5. (n >= 0 <=> segs[k].sema >= 0) => SignKept
  <2> SUFFICES ASSUME n >= 0 <=> segs[k].sema >= 0, NEW i \in Pointers
               PROVE  /\ segs'[i].sema >= 0 <=> segs[i].sema >= 0
                      /\ segs'[i].sema < 0 <=> segs[i].sema < 0
    BY DEF SignKept
  <2>1. CASE i = k
    BY <1>1, <1>3, <2>1
  <2>2. CASE i # k
    BY <1>1, <2>2
  <2> QED
    BY <2>1, <2>2
<1> QED
  BY <1>1, <1>2, <1>4, <1>5

\* A step that changes one local variable, and no lock.
LEMMA LoadPlan ==
  ASSUME Inv, races = {}, NEW t \in Threads, NEW p \in PlainPCs \ {"i_probe", "i_suspend"}, NEW f, NEW v,
         pc[t] \in PlainPCs, Goto(t, p), Put(t, f, v), SameLocks,
         UNCHANGED <<scenario, dirs, dir, todo>>, NEW F, Plan(F),
         p \in NoTargetPCs \/ pc[t] \notin NoTargetPCs \/ f = "target",
         \/ f \in {"x", "check"} /\ v \in Entries(Dir)
         \/ f = "target" /\ (\E x \in Entries(Dir) : v = Dir.segment[x])
         \/ f = "must" /\ v \in BOOLEAN
         \/ f = "slot" /\ v \in Slots
         \/ f = "result" /\ v \in Values \cup {NONE}
  PROVE  Plan(F)'
<1>1. Typed /\ DirsOK /\ todo = [todo EXCEPT ![t] = todo[t]]
  BY Facts DEF Inv
<1>2. PICK q : q = todo[t]
  OBVIOUS
<1>3. \/ f \in {"x", "target", "check", "val"} /\ v \in Nat
      \/ f = "slot" /\ v \in Slots
      \/ f = "must" /\ v \in BOOLEAN
      \/ f = "result" /\ v \in Values \cup {NONE}
  <2>1. Pow2[Dir.depth] \in Nat
    BY <1>1, DirFacts
  <2>2. \A i \in Entries(Dir) \cup Pointers : i \in Nat
    BY <2>1 DEF Entries, Pointers
  <2> QED
    BY <1>1, <2>2, DirFacts
<1>4. PICK l \in Locals : Acts(t, p, l) /\ l.target = IF f = "target" THEN v ELSE loc[t].target
  <2>1. \E l \in Locals :
           /\ Acts(t, p, l)
           /\ l.target = IF f = "target" THEN v ELSE loc[t].target
           /\ l.depth = IF f = "depth" THEN v ELSE loc[t].depth
           /\ l.s = IF f = "s" THEN v ELSE loc[t].s
           /\ l.writes = IF f = "writes" THEN v ELSE loc[t].writes
    BY <1>3, PutMoves
  <2> QED
    BY <2>1
<1>5. Calm(loc[t].target) /\ SignKept
  BY QuietCalm
<1>6. \/ l.target = loc[t].target /\ (p \in NoTargetPCs \/ pc[t] \notin NoTargetPCs)
      \/ \E x \in Entries(Dir) : l.target = Dir.segment[x]
  BY <1>4
<1> QED
  BY <1>1, <1>2, <1>4, <1>5, <1>6, PlainPlan

\* A step that changes none, and no lock.
LEMMA GotoPlan ==
  ASSUME Inv, races = {}, NEW t \in Threads, NEW p \in PlainPCs \ {"i_suspend"},
         pc[t] \in PlainPCs, Goto(t, p), Calm(loc[t].target), SignKept,
         UNCHANGED <<scenario, loc, todo>>, NEW F, Plan(F),
         p \in NoTargetPCs \/ pc[t] \notin NoTargetPCs,
         p = "i_probe" => HomeOf(loc[t], todo[t], F)
  PROVE  Plan(F)'
<1>1. todo = [todo EXCEPT ![t] = todo[t]]
  BY Facts
<1>2. PICK q : q = todo[t]
  OBVIOUS
<1>3. PICK l \in Locals : l = loc[t] /\ Acts(t, p, l)
  BY GotoMoves
<1> QED
  BY <1>1, <1>2, <1>3, PlainPlan

\* The end of an attempt or of a call.
LEMMA FreshPlan ==
  ASSUME Inv, races = {}, NEW t \in Threads, NEW p \in NoTargetPCs, NEW q, todo' = [todo EXCEPT ![t] = q],
         pc[t] \in PlainPCs, Retry(t, p) \/ (Return(t) /\ p = "idle"), scenario' = scenario,
         Calm(loc[t].target), SignKept, NEW F, Plan(F)
  PROVE  Plan(F)'
<1>1. PICK l \in Locals : l.target = 0 /\ Acts(t, p, l)
  BY FreshMoves
<1>2. p \in PlainPCs /\ p # "i_probe" /\ p # "i_suspend"
  BY DEF PlainPCs, NoTargetPCs
<1> QED
  BY <1>1, <1>2, PlainPlan

\* The steps of an Insert between its lock operations,
LEMMA InsertPlan ==
  ASSUME Inv, races = {}, NEW t \in Threads, scenario' = scenario, NEW F, Plan(F),
         StartInsert(t) \/ ReadDepth(t) \/ ReadTarget(t) \/ ReadCheck(t)
  PROVE  Plan(F)'
<1>1. /\ LocalAt(pc[t], loc[t], todo[t])
      /\ todo[t] # <<>> => Prefix(Key(t), Dir.depth) \in Entries(Dir)
      /\ pc[t] # "idle" => todo[t] # <<>>
  BY Facts DEF LocalAt
<1>2. segs' = segs => SameLocks
  BY SameSegs
<1>3. loc[t].x \in Entries(Dir)
  BY LocalSame
<1>0. SameLocks /\ UNCHANGED <<dirs, dir>> => Calm(loc[t].target) /\ SignKept
  BY QuietCalm
<1> USE DEF PlainPCs, NoTargetPCs, InsertPCs, GetPCs
<1>4. CASE StartInsert(t)
  BY <1>0, <1>2, <1>4, GotoPlan DEF StartInsert
<1>5. CASE ReadDepth(t)
  BY <1>1, <1>2, <1>5, LoadPlan DEF ReadDepth, Read
<1>6. CASE ReadTarget(t)
  BY <1>1, <1>2, <1>3, <1>6, LoadPlan DEF ReadTarget, Read
<1>7. CASE ReadCheck(t)
  BY <1>1, <1>2, <1>3, <1>7, LoadPlan DEF ReadCheck, Read
<1> QED
  BY <1>4, <1>5, <1>6, <1>7

\* its stores into a slot,
LEMMA StorePlan ==
  ASSUME Inv, races = {}, NEW t \in Threads, scenario' = scenario, NEW F, Plan(F),
         ClaimSlot(t) \/ StoreValue(t) \/ StoreKey(t)
  PROVE  Plan(F)'
<1>0. pc[t] \in {"i_probe", "i_value", "i_key"}
  BY DEF ClaimSlot, StoreValue, StoreKey
<1>1. pc[t] # "idle" /\ pc[t] \notin NoTargetPCs /\ pc[t] \in PlainPCs
  BY <1>0 DEF NoTargetPCs, PlainPCs, InsertPCs
<1>2. /\ todo[t] # <<>> /\ loc[t].target \in Pointers /\ loc[t] \in Locals
      /\ Key(t) \in KeyWords /\ Call(t).value \in Values
  <2>1. todo[t] # <<>> /\ loc[t].target \in Pointers /\ loc[t] \in Locals
    BY <1>1, Facts DEF LocalAt
  <2>2. Key(t) \in Keys /\ Call(t) \in Calls
    BY <2>1, Facts
  <2> QED
    BY <2>1, <2>2, Facts DEF KeyWords, Calls
<1>3. loc[t].slot \in Slots
  BY <1>2 DEF Locals
<1>4. {"i_value", "i_key", "i_return"} \subseteq PlainPCs \ {"i_probe", "i_suspend"}
  BY DEF PlainPCs, NoTargetPCs, InsertPCs
<1>8. SameLocks /\ UNCHANGED <<dirs, dir>> => Calm(loc[t].target) /\ SignKept
  BY QuietCalm
<1>5. CASE ClaimSlot(t)
  <2>1. PICK i \in Slots : /\ Goto(t, "i_value") /\ Put(t, "slot", i)
                           /\ segs' = [segs EXCEPT ![loc[t].target].bucket[i].key = SENTINEL]
                           /\ UNCHANGED <<dirs, dir, todo, acked, races>>
    BY <1>2, <1>5, ProbeSlot DEF ClaimSlot
  <2>2. SENTINEL \in KeyWords /\ NONE \in Values \cup {NONE}
    BY DEF KeyWords
  <2>3. SameLocks
    BY <1>2, <2>1, <2>2, SlotStore
  <2> QED
    BY <1>1, <1>2, <1>4, <2>1, <2>3, LoadPlan
<1>6. CASE StoreValue(t)
  <2> USE <1>6 DEF StoreValue
  <2>1. SENTINEL \in KeyWords
    BY DEF KeyWords
  <2>2. SameLocks
    BY <1>2, <1>3, <2>1, SlotStore
  <2> QED
    BY <1>1, <1>2, <1>4, <1>8, <2>2, GotoPlan
<1>7. CASE StoreKey(t)
  <2> USE <1>7 DEF StoreKey
  <2>1. NONE \in Values \cup {NONE}
    OBVIOUS
  <2>2. SameLocks
    BY <1>2, <1>3, <2>1, SlotStore
  <2> QED
    BY <1>1, <1>2, <1>4, <1>8, <2>2, GotoPlan
<1> QED
  BY <1>5, <1>6, <1>7

\* and the steps of a Get between its.
LEMMA GetPlan ==
  ASSUME Inv, races = {}, NEW t \in Threads, scenario' = scenario, NEW F, Plan(F),
         StartGet(t) \/ GetSpin(t) \/ GetDepth(t) \/ GetTarget(t) \/ GetCheck(t) \/ GetScan(t) \/ GetValue(t)
  PROVE  Plan(F)'
<1>1. /\ LocalAt(pc[t], loc[t], todo[t])
      /\ todo[t] # <<>> => Prefix(Key(t), Dir.depth) \in Entries(Dir) /\ Key(t) \in KeyWords
      /\ pc[t] # "idle" => todo[t] # <<>>
      /\ pc[t] \notin NoTargetPCs => Cur(t) \in Segment
      /\ loc[t].slot \in Slots
  BY Facts DEF LocalAt, KeyWords, Locals
<1>2. segs' = segs => SameLocks
  BY SameSegs
<1>3. loc[t].x \in Entries(Dir)
  BY LocalSame
<1>0. SameLocks /\ UNCHANGED <<dirs, dir>> => Calm(loc[t].target) /\ SignKept
  BY QuietCalm
<1> USE DEF PlainPCs, NoTargetPCs, InsertPCs, GetPCs
<1>4. CASE StartGet(t)
  <2>1. (Key(t) \in acked) \in BOOLEAN
    OBVIOUS
  <2> QED
    BY <1>1, <1>2, <1>4, <2>1, LoadPlan DEF StartGet, Read
<1>5. CASE GetSpin(t)
  BY <1>0, <1>2, <1>5, GotoPlan DEF GetSpin
<1>6. CASE GetDepth(t)
  BY <1>1, <1>2, <1>6, LoadPlan DEF GetDepth, Read
<1>7. CASE GetTarget(t)
  <2>1. CASE INPLACE
    BY <1>1, <1>2, <1>3, <1>7, <2>1, LoadPlan DEF GetTarget, Read
  <2>2. CASE ~INPLACE
    BY <1>1, <1>2, <1>3, <1>7, <2>2, LoadPlan DEF GetTarget, Read
  <2> QED
    BY <2>1, <2>2
<1>8. CASE GetCheck(t)
  BY <1>1, <1>2, <1>8, LoadPlan DEF GetCheck, Read
<1>9. CASE GetScan(t)
  <2> DEFINE i == ProbeFor(Key(t), {j \in Slots : Cur(t).bucket[j].key = Key(t)})
  <2>1. /\ pc[t] = "g_scan" /\ UNCHANGED <<segs, dirs, dir, todo, acked, races>>
        /\ \/ i # -1 /\ Goto(t, "g_value") /\ Put(t, "slot", i)
           \/ i = -1 /\ Goto(t, "g_return") /\ UNCHANGED loc
    BY <1>9 DEF GetScan
  <2>2. i # -1 => i \in Slots
    BY <1>1, <2>1, ProbeSlot
  <2> HIDE DEF i
  <2>3. CASE i # -1 /\ Goto(t, "g_value") /\ Put(t, "slot", i)
    BY <1>1, <1>2, <2>1, <2>2, <2>3, LoadPlan
  <2>4. CASE Goto(t, "g_return") /\ UNCHANGED loc
    BY <1>0, <1>1, <1>2, <2>1, <2>4, GotoPlan
  <2> QED
    BY <2>1, <2>3, <2>4
<1>10. CASE GetValue(t)
  <2>1. pc[t] = "g_value"
    BY <1>10 DEF GetValue, Read
  <2>2. Cur(t).bucket[loc[t].slot].value \in Values \cup {NONE}
    BY <1>1, <2>1 DEF Segment, Entry
  <2> QED
    BY <1>1, <1>2, <1>10, <2>2, LoadPlan DEF GetValue, Read
<1> QED
  BY <1>4, <1>5, <1>6, <1>7, <1>8, <1>9, <1>10

\* unlock() does not close an open segment: it counts at least the thread that
\* leaves.
LEMMA UnlockCalm ==
  ASSUME Inv, races = {}, NEW t \in Threads, pc[t] \in InsertPCs \cup GetPCs, UNCHANGED <<dirs, dir>>,
         SetSema(t, Cur(t).sema - 1), HoldsAt(pc[t]) \/ ~Stray(t)
  PROVE  Calm(loc[t].target) /\ SignKept
<1>1. PICK k \in Pointers : k = loc[t].target
  <2>1. pc[t] \notin NoTargetPCs
    BY DEF InsertPCs, GetPCs, NoTargetPCs
  <2> QED
    BY <2>1, Facts
<1>2. segs[k].sema \in Int
  BY SegFacts DEF Inv
<1>3. PICK n \in Int : n = segs[k].sema - 1
  BY <1>2
<1>4. StoresSema(k, n)
  BY <1>1, <1>3 DEF SetSema, StoresSema, Cur
<1>5. n >= 0 <=> segs[k].sema >= 0
  <2>1. CASE HoldsAt(pc[t])
    <3>1. t \in Holders(k) /\ Holders(k) \in SUBSET Threads
      BY <1>1, <2>1 DEF Holders
    <3>2. SegLock(k)
      BY DEF Inv, SegLocks
    <3>3. Cardinality(Holders(k)) \in Nat /\ Cardinality(Holders(k)) # 0
      BY <3>1, ThreadSets
    <3>4. segs[k].sema >= 0 => segs[k].sema = Cardinality(Holders(k))
      BY <3>2 DEF SegLock
    <3> QED
      BY <1>2, <1>3, <3>3, <3>4
  <2>2. CASE ~HoldsAt(pc[t])
    <3>1. ~Stray(t) /\ ~Holding(t, loc[t].target)
      BY <2>2 DEF Holding, HoldsAt, InsertPCs, GetPCs
    <3>2. ~(segs[k].sema >= 0)
      BY <1>1, <3>1 DEF Stray, Cur
    <3> QED
      BY <1>2, <1>3, <3>2
  <2> QED
    BY <2>1, <2>2
<1> QED
  BY <1>1, <1>4, <1>5, SemaCalm

\* lock() of the target.
LEMMA TryLockPlan ==
  ASSUME Inv, races = {}, NEW t \in Threads, scenario' = scenario, NEW F, Plan(F), LockTarget(t) \/ GetLock(t)
  PROVE  Plan(F)'
<1>1. PICK from \in {"i_lock", "g_lock"}, to \in {"i_check", "g_check"},
           retry \in {"i_depth", "g_spin"} : TryLock(t, from, to, retry)
  BY DEF LockTarget, GetLock
<1>2. pc[t] = from /\ UNCHANGED <<dirs, dir, todo, acked, races>>
  BY <1>1 DEF TryLock
<1>3. loc[t].target \in Pointers /\ todo = [todo EXCEPT ![t] = todo[t]]
  BY <1>2, Facts DEF NoTargetPCs
<1>4. PICK k \in Pointers : k = loc[t].target
  BY <1>3
<1>5. /\ pc[t] \in PlainPCs /\ pc[t] \notin NoTargetPCs /\ retry \in NoTargetPCs
      /\ to \in PlainPCs \ {"i_suspend"} /\ to # "i_probe"
  BY <1>2 DEF PlainPCs, NoTargetPCs, InsertPCs, GetPCs
<1>6. CASE Cur(t).sema < 0 /\ Retry(t, retry) /\ UNCHANGED segs
  <2>1. Calm(loc[t].target) /\ SignKept
    BY <1>2, <1>6, SameSegs, QuietCalm
  <2>2. PICK q : q = todo[t]
    OBVIOUS
  <2>3. todo' = [todo EXCEPT ![t] = q]
    BY <1>2, <1>3, <2>2
  <2> QED
    BY <1>5, <1>6, <2>1, <2>3, FreshPlan
<1>7. CASE Cur(t).sema >= 0 /\ Goto(t, to) /\ SetSema(t, Cur(t).sema + 1) /\ UNCHANGED loc
  <2>1. segs[k].sema \in Int /\ segs[k].sema >= 0
    BY <1>4, <1>7, SegFacts DEF Inv, Cur
  <2>2. PICK n \in Int : n = segs[k].sema + 1 /\ n >= 0
    BY <2>1
  <2>3. StoresSema(k, n)
    BY <1>4, <1>7, <2>2 DEF SetSema, StoresSema, Cur
  <2>4. Calm(loc[t].target) /\ SignKept
    BY <1>2, <1>4, <2>1, <2>2, <2>3, SemaCalm
  <2> QED
    BY <1>2, <1>5, <1>7, <2>4, GotoPlan
<1> QED
  BY <1>1, <1>6, <1>7 DEF TryLock

\* The check of the target: it is the home of the key now, and the home of the
\* key after the stores under way, as nobody splits a segment with a thread
\* inside.
LEMMA CheckPlan ==
  ASSUME Inv, races = {}, races' = {}, NEW t \in Threads, scenario' = scenario, NEW F, Plan(F),
         CompareTarget(t) \/ GetCompare(t)
  PROVE  Plan(F)'
<1>1. PICK from \in {"i_compare", "g_compare"}, to \in {"i_probe", "g_scan"},
           retry \in {"i_depth", "g_spin"}, unlocks \in BOOLEAN :
        /\ CheckTarget(t, from, to, retry, unlocks)
        /\ from = "i_compare" \/ (from = "g_compare" /\ to = "g_scan")
  <2>1. CASE CompareTarget(t)
    BY <2>1 DEF CompareTarget
  <2>2. CASE GetCompare(t)
    <3>1. PICK b \in BOOLEAN : b = (INPLACE \/ ~MSB)
      OBVIOUS
    <3>2. CheckTarget(t, "g_compare", "g_scan", "g_spin", b)
      BY <2>2, <3>1 DEF GetCompare
    <3> QED
      BY <3>1, <3>2
  <2> QED
    BY <2>1, <2>2
<1>2. pc[t] = from /\ UNCHANGED <<dirs, dir, todo, acked>>
  BY <1>1 DEF CheckTarget
<1>3. /\ loc[t].target \in Pointers /\ todo = [todo EXCEPT ![t] = todo[t]]
      /\ Prefix(Key(t), Dir.depth) \in Entries(Dir)
  <2>1. pc[t] \notin NoTargetPCs /\ pc[t] # "idle"
    BY <1>2 DEF NoTargetPCs
  <2> QED
    BY <2>1, Facts DEF LocalAt
<1>5. /\ pc[t] \in PlainPCs /\ pc[t] \notin NoTargetPCs /\ pc[t] \in InsertPCs \cup GetPCs
      /\ to \in PlainPCs \ {"i_suspend"} /\ retry \in NoTargetPCs
  BY <1>2 DEF InsertPCs, GetPCs, PlainPCs, NoTargetPCs
<1>6. CASE loc[t].target = Dir.segment[loc[t].check]
  <2>1. /\ Goto(t, to) /\ UNCHANGED <<segs, loc>>
        /\ races' = races \cup (IF loc[t].target = Home(Key(t)) THEN {} ELSE {"torn"})
    BY <1>1, <1>6 DEF CheckTarget
  <2>2. PICK x \in Entries(Dir) : x = Prefix(Key(t), Dir.depth) /\ loc[t].target = Dir.segment[x]
    BY <1>3, <2>1 DEF Home
  <2>3. to = "i_probe" => HomeOf(loc[t], todo[t], F)
    <3> SUFFICES ASSUME to = "i_probe" PROVE HomeOf(loc[t], todo[t], F)
      OBVIOUS
    <3>1. pc[t] = "i_compare"
      BY <1>1, <1>2
    <3>2. t \in Holders(loc[t].target)
      BY <3>1 DEF Holders, HoldsAt, InsertPCs
    <3>3. Splitters(loc[t].target) = {}
      BY <1>3, <3>2, NotSplit
    <3>4. F[x] = loc[t].target
      BY <2>2, <3>3, OpenEntry
    <3> QED
      BY <2>2, <3>4 DEF HomeOf, Key, Call
  <2>4. Calm(loc[t].target) /\ SignKept
    BY <1>2, <2>1, SameSegs, QuietCalm
  <2> QED
    BY <1>2, <1>5, <2>1, <2>3, <2>4, GotoPlan
<1>7. CASE loc[t].target # Dir.segment[loc[t].check]
  <2>1. /\ IF unlocks THEN SetSema(t, Cur(t).sema - 1) ELSE UNCHANGED segs
        /\ races' = races \cup (IF unlocks /\ Stray(t) THEN {"stray"} ELSE {})
        /\ Retry(t, retry)
    BY <1>1, <1>7 DEF CheckTarget
  <2>2. Calm(loc[t].target) /\ SignKept
    <3>1. CASE unlocks = TRUE
      <4>1. SetSema(t, Cur(t).sema - 1) /\ ~Stray(t)
        BY <2>1, <3>1
      <4> QED
        BY <1>2, <1>5, <4>1, UnlockCalm
    <3>2. CASE unlocks = FALSE
      BY <1>2, <2>1, <3>2, SameSegs, QuietCalm
    <3> QED
      BY <3>1, <3>2
  <2>3. PICK q : q = todo[t]
    OBVIOUS
  <2>4. todo' = [todo EXCEPT ![t] = q]
    BY <1>2, <1>3, <2>3
  <2> QED
    BY <1>5, <2>1, <2>2, <2>4, FreshPlan
<1> QED
  BY <1>6, <1>7

\* The ends of the calls.
LEMMA ReturnPlan ==
  ASSUME Inv, races = {}, NEW t \in Threads, scenario' = scenario, NEW F, Plan(F),
         ReturnInsert(t) \/ Refuse(t) \/ ReturnGet(t)
  PROVE  Plan(F)'
<1>1. pc[t] \in {"i_return", "i_probe", "g_return"} /\ Return(t) /\ UNCHANGED <<dirs, dir, races>>
  BY DEF ReturnInsert, Refuse, ReturnGet
<1>2. pc[t] \in InsertPCs \cup GetPCs /\ pc[t] \in PlainPCs /\ "idle" \in NoTargetPCs
  BY <1>1 DEF InsertPCs, GetPCs, NoTargetPCs, PlainPCs
<1>3. PICK q : q = Tail(todo[t])
  OBVIOUS
<1>4. todo' = [todo EXCEPT ![t] = q]
  BY <1>1, <1>3 DEF Return
<1>5. Calm(loc[t].target) /\ SignKept
  <2>1. CASE HoldsAt(pc[t])
    <3>1. SetSema(t, Cur(t).sema - 1)
      BY <2>1 DEF ReturnInsert, Refuse, ReturnGet, HoldsAt, InsertPCs
    <3> QED
      BY <1>1, <1>2, <2>1, <3>1, UnlockCalm
  <2>2. CASE ~HoldsAt(pc[t])
    <3>1. segs' = segs
      BY <1>1, <2>2 DEF ReturnInsert, Refuse, ReturnGet, HoldsAt, InsertPCs, GetPCs
    <3> QED
      BY <1>1, <3>1, SameSegs, QuietCalm
  <2> QED
    BY <2>1, <2>2
<1> QED
  BY <1>1, <1>2, <1>4, <1>5, FreshPlan

\* COLLISION: the depth it remembers is the target's.
LEMMA CollidePlan ==
  ASSUME Inv, races = {}, NEW t \in Threads, scenario' = scenario, NEW F, Plan(F), Collide(t)
  PROVE  Plan(F)'
<1>1. pc[t] = "i_probe" /\ UNCHANGED <<dirs, dir, todo, acked, races>> /\ SetSema(t, Cur(t).sema - 1)
  BY DEF Collide
<1>2. pc[t] \in InsertPCs \cup GetPCs /\ pc[t] \in PlainPCs /\ HoldsAt(pc[t]) /\ pc[t] \notin NoTargetPCs
      /\ "i_suspend" \in PlainPCs
  BY <1>1 DEF InsertPCs, GetPCs, NoTargetPCs, PlainPCs, HoldsAt
<1>3. PICK k \in Pointers : k = loc[t].target
  BY <1>2, Facts
<1>4. PICK d \in 0 .. HashBits : d = Depth(k)
  BY SegFacts DEF Inv
<1>5. Put(t, "depth", d) /\ Goto(t, "i_suspend")
  BY <1>3, <1>4 DEF Collide, Cur, Depth
<1>6. PICK l \in Locals : Acts(t, "i_suspend", l) /\ l.target = k /\ l.depth = d
  <2>1. \E l \in Locals :
           /\ Acts(t, "i_suspend", l)
           /\ l.target = IF "depth" = "target" THEN d ELSE loc[t].target
           /\ l.depth = IF "depth" = "depth" THEN d ELSE loc[t].depth
           /\ l.s = IF "depth" = "s" THEN d ELSE loc[t].s
           /\ l.writes = IF "depth" = "writes" THEN d ELSE loc[t].writes
    BY <1>5, PutMoves
  <2> QED
    BY <1>3, <2>1
<1>7. Calm(loc[t].target) /\ SignKept
  BY <1>1, <1>2, UnlockCalm
<1>8. PICK q : q = todo[t]
  OBVIOUS
<1>9. todo' = [todo EXCEPT ![t] = q]
  BY <1>1, <1>8, Facts
<1>10. DepthSeen("i_suspend", l, q, F)
  <2>1. HomeOf(loc[t], todo[t], F)
    BY <1>1 DEF Plan, PlanAt, HomeAt
  <2>2. HomeOf(l, q, F)
    BY <1>3, <1>6, <1>8, <2>1 DEF HomeOf
  <2>3. d <= d
    BY <1>4, CCEHAssumption
  <2> QED
    BY <1>4, <1>6, <2>2, <2>3 DEF DepthSeen
<1>11. l.target = loc[t].target
  BY <1>3, <1>6
<1> QED
  BY <1>2, <1>6, <1>7, <1>9, <1>10, <1>11, PlainPlan

\* suspend() of the target.
LEMMA SuspendPlan ==
  ASSUME Inv, races = {}, NEW t \in Threads, scenario' = scenario, NEW F, Plan(F), SuspendTarget(t)
  PROVE  Plan(F)'
<1>1. pc[t] = "i_suspend" /\ UNCHANGED <<dirs, dir, todo, acked, races>>
  BY DEF SuspendTarget
<1>2. pc[t] \notin NoTargetPCs /\ pc[t] \in PlainPCs /\ "i_depth" \in NoTargetPCs
  BY <1>1 DEF NoTargetPCs, PlainPCs
<1>3. PICK k \in Pointers : k = loc[t].target
  BY <1>2, Facts
<1>4. PICK q : q = todo[t]
  OBVIOUS
<1>5. todo' = [todo EXCEPT ![t] = q]
  BY <1>1, <1>4, Facts
<1>6. CASE Cur(t).sema < 0 /\ Retry(t, "i_depth") /\ UNCHANGED segs
  <2>1. Calm(loc[t].target) /\ SignKept
    BY <1>1, <1>6, SameSegs, QuietCalm
  <2> QED
    BY <1>2, <1>5, <1>6, <2>1, FreshPlan
<1>7. CASE Cur(t).sema >= 0 /\ Goto(t, "i_wait") /\ Put(t, "val", Cur(t).sema) /\ SetSema(t, -1)
  <2>1. PICK v \in Nat : v = segs[k].sema /\ segs[k].sema >= 0
    <3>1. segs[k].sema \in Int
      BY SegFacts DEF Inv
    <3> QED
      BY <1>3, <1>7, <3>1 DEF Cur
  <2>2. Put(t, "val", v) /\ Goto(t, "i_wait")
    BY <1>3, <1>7, <2>1 DEF Cur
  <2>3. PICK l \in Locals : Acts(t, "i_wait", l) /\ l.target = k /\ l.depth = loc[t].depth
    <3>1. \E l \in Locals :
           /\ Acts(t, "i_wait", l)
           /\ l.target = IF "val" = "target" THEN v ELSE loc[t].target
           /\ l.depth = IF "val" = "depth" THEN v ELSE loc[t].depth
           /\ l.s = IF "val" = "s" THEN v ELSE loc[t].s
           /\ l.writes = IF "val" = "writes" THEN v ELSE loc[t].writes
      BY <2>2, PutMoves
    <3> QED
      BY <1>3, <3>1
  <2>4. StoresSema(k, -1) /\ -1 \in Int
    BY <1>3, <1>7 DEF SetSema, StoresSema
  <2>5. Calm(k) /\ segs'[k].sema = -1
    BY <1>1, <2>4, SemaCalm
  <2>6. OpenLinked(pc[t], loc[t], F) /\ DepthSeen(pc[t], loc[t], todo[t], F)
    BY DEF Plan, PlanAt
  <2>7. Linked(F, k)
    BY <1>2, <1>3, <2>1, <2>6 DEF OpenLinked
  <2>8. NextAt("i_wait", l, q, F)
    <3>1. ClosedLinked("i_wait", l, F)
      BY <2>3, <2>7 DEF ClosedLinked
    <3>2. DepthSeen("i_wait", l, q, F)
      BY <1>1, <1>3, <1>4, <2>3, <2>6 DEF DepthSeen, HomeOf
    <3>3. HomeAt("i_wait", l, q, F)
      BY DEF HomeAt, SharePCs, PendingPCs
    <3> QED
      BY <2>3, <2>7, <3>1, <3>2, <3>3 DEF NextAt
  <2>9. /\ "i_wait" \in PCs /\ "i_wait" \notin PublishPCs /\ "i_wait" \notin PendingPCs /\ "i_wait" \in ClosePCs
        /\ pc[t] \notin PublishPCs
    BY <1>1 DEF PCs, PublishPCs, PendingPCs, SharePCs, ClosePCs
  <2>10. /\ k \in Pointers /\ segs'[k].sema >= 0 => segs[k].sema >= 0 \/ Linked(F, k)
         /\ k \in Pointers /\ segs'[k].sema < 0 => segs[k].sema < 0 \/ (l.target = k /\ "i_wait" \in ClosePCs)
         /\ k \in Pointers /\ pc[t] \in ClosePCs /\ segs'[k].sema < 0 => l.target = k /\ "i_wait" \in ClosePCs
    BY <2>3, <2>7, <2>9
  <2> QED
    BY <1>3, <1>5, <2>3, <2>5, <2>8, <2>9, <2>10, CalmPlan
<1> QED
  BY <1>6, <1>7 DEF SuspendTarget

\* A thread that has closed its target, and keeps it closed.
LEMMA ClosedPlan ==
  ASSUME Inv, NEW t \in Threads, NEW p \in ClosePCs, NEW l \in Locals, Acts(t, p, l),
         pc[t] \in ClosePCs, pc[t] \notin PublishPCs, p \notin PublishPCs,
         p \in PendingPCs => pc[t] \in PendingPCs,
         l.target = loc[t].target, l.depth = loc[t].depth, l.s = loc[t].s,
         UNCHANGED <<segs, todo>>, (Dir.segment)' = Dir.segment, (Dir.depth)' = Dir.depth,
         NEW F, Plan(F), NEW q, q = todo[t],
         ClosedLinked(p, l, F), DepthSeen(p, l, q, F), HomeAt(p, l, q, F)
  PROVE  Plan(F)'
<1>1. pc[t] \notin NoTargetPCs /\ p \in PCs
  BY DEF ClosePCs, SplitPCs, NoTargetPCs, PCs
<1>2. PICK k \in Pointers : k = loc[t].target
  BY <1>1, Facts
<1>3. todo' = [todo EXCEPT ![t] = q]
  BY Facts
<1>4. Calm(k)
  BY DEF Calm, Depth
<1>5. OpenLinked(pc[t], loc[t], F)
  BY DEF Plan, PlanAt
<1>6. NextAt(p, l, q, F)
  BY <1>1, <1>2, <1>5 DEF NextAt, OpenLinked
<1>7. /\ k \in Pointers /\ segs'[k].sema >= 0 => segs[k].sema >= 0 \/ Linked(F, k)
      /\ k \in Pointers /\ segs'[k].sema < 0 => segs[k].sema < 0 \/ (l.target = k /\ p \in ClosePCs)
      /\ k \in Pointers /\ pc[t] \in ClosePCs /\ segs'[k].sema < 0 => l.target = k /\ p \in ClosePCs
  BY <1>2
<1> QED
  BY <1>1, <1>2, <1>3, <1>4, <1>6, <1>7, CalmPlan

\* Its wait loop.
LEMMA AwaitPlan ==
  ASSUME Inv, races = {}, NEW t \in Threads, scenario' = scenario, NEW F, Plan(F), AwaitTarget(t)
  PROVE  Plan(F)'
<1>1. /\ pc[t] = "i_wait" /\ Goto(t, "i_recheck") /\ Put(t, "val", 0)
      /\ UNCHANGED <<segs, dirs, dir, todo, acked, races>>
  BY DEF AwaitTarget, Read
<1>2. PICK l \in Locals : /\ Acts(t, "i_recheck", l) /\ l.target = loc[t].target
                          /\ l.depth = loc[t].depth /\ l.s = loc[t].s
  <2>1. \E l \in Locals :
           /\ Acts(t, "i_recheck", l)
           /\ l.target = IF "val" = "target" THEN 0 ELSE loc[t].target
           /\ l.depth = IF "val" = "depth" THEN 0 ELSE loc[t].depth
           /\ l.s = IF "val" = "s" THEN 0 ELSE loc[t].s
           /\ l.writes = IF "val" = "writes" THEN 0 ELSE loc[t].writes
    BY <1>1, PutMoves
  <2> QED
    BY <2>1
<1>3. PICK q : q = todo[t]
  OBVIOUS
<1>4. ClosedLinked(pc[t], loc[t], F) /\ DepthSeen(pc[t], loc[t], todo[t], F)
  BY DEF Plan, PlanAt
<1>5. /\ ClosedLinked("i_recheck", l, F) /\ DepthSeen("i_recheck", l, q, F) /\ HomeAt("i_recheck", l, q, F)
  <2>1. ClosedLinked("i_recheck", l, F)
    BY <1>1, <1>2, <1>4 DEF ClosedLinked
  <2>2. DepthSeen("i_recheck", l, q, F)
    BY <1>1, <1>2, <1>3, <1>4 DEF DepthSeen, HomeOf
  <2>3. HomeAt("i_recheck", l, q, F)
    BY DEF HomeAt, SharePCs, PendingPCs
  <2> QED
    BY <2>1, <2>2, <2>3
<1>6. /\ "i_recheck" \in ClosePCs /\ pc[t] \in ClosePCs /\ pc[t] \notin PublishPCs
      /\ "i_recheck" \notin PublishPCs /\ "i_recheck" \notin PendingPCs
  BY <1>1 DEF ClosePCs, SplitPCs, PublishPCs, PendingPCs, SharePCs
<1>7. (Dir.segment)' = Dir.segment /\ (Dir.depth)' = Dir.depth
  BY <1>1 DEF Dir
<1> QED
  BY <1>1, <1>2, <1>3, <1>5, <1>6, <1>7, ClosedPlan

\* The second look at the depth: the target has not been split, so it is still
\* the home of the key; or it is reopened, and in use.
LEMMA RecheckPlan ==
  ASSUME Inv, races = {}, NEW t \in Threads, scenario' = scenario, NEW F, Plan(F), Recheck(t)
  PROVE  Plan(F)'
<1>1. pc[t] = "i_recheck" /\ pc[t] \in SplitPCs /\ UNCHANGED <<dirs, dir, todo, acked, races>>
  BY DEF Recheck, SplitPCs
<1>2. PICK k \in Pointers : k = loc[t].target
  BY <1>1, SplitFacts
<1>3. PICK q : q = todo[t]
  OBVIOUS
<1>4. todo' = [todo EXCEPT ![t] = q]
  BY <1>1, <1>3, Facts
<1>5. Linked(F, k) /\ DepthSeen(pc[t], loc[t], todo[t], F)
  BY <1>1, <1>2 DEF Plan, PlanAt, ClosedLinked
<1>6. CASE loc[t].depth = DepthNow(t) /\ Goto(t, "i_split") /\ UNCHANGED <<segs, loc>>
  <2>1. PICK l \in Locals : l = loc[t] /\ Acts(t, "i_split", l)
    BY <1>6, GotoMoves
  <2>2. l.depth = Depth(k)
    BY <1>1, <1>2, <1>5, <1>6, <2>1 DEF DepthNow, DepthSeen, Cur, Depth
  <2>3. ~Raised(k)
    <3> SUFFICES ASSUME NEW u \in Threads, pc[u] \in PublishPCs, loc[u].target = k PROVE FALSE
      BY DEF Raised
    <3>1. u \in Closers(k) /\ t \in Closers(k)
      BY <1>1, <1>2 DEF Closers, Splitters, SplitPCs, PublishPCs
    <3>2. SegLock(k)
      BY DEF Inv, SegLocks
    <3>3. u = t
      BY <3>1, <3>2 DEF SegLock
    <3> QED
      BY <1>1, <3>3 DEF PublishPCs
  <2>4. HomeOf(l, q, F)
    <3>1. FDepth(k) = l.depth
      BY <2>2, <2>3 DEF FDepth
    <3> QED
      BY <1>1, <1>2, <1>3, <1>5, <2>1, <3>1 DEF DepthSeen
  <2>5. ClosedLinked("i_split", l, F) /\ DepthSeen("i_split", l, q, F) /\ HomeAt("i_split", l, q, F)
    <3>1. ClosedLinked("i_split", l, F)
      BY DEF ClosedLinked
    <3>2. DepthSeen("i_split", l, q, F)
      BY DEF DepthSeen
    <3>3. HomeAt("i_split", l, q, F)
      BY <1>2, <2>1, <2>2, <2>4 DEF HomeAt
    <3> QED
      BY <3>1, <3>2, <3>3
  <2>6. /\ "i_split" \in ClosePCs /\ pc[t] \in ClosePCs /\ pc[t] \notin PublishPCs
        /\ "i_split" \notin PublishPCs /\ "i_split" \notin PendingPCs
    BY <1>1 DEF ClosePCs, SplitPCs, PublishPCs, PendingPCs, SharePCs
  <2>7. (Dir.segment)' = Dir.segment /\ (Dir.depth)' = Dir.depth
    BY <1>1 DEF Dir
  <2> QED
    BY <1>1, <1>3, <1>6, <2>1, <2>5, <2>6, <2>7, ClosedPlan
<1>7. CASE SetSema(t, 0) /\ Retry(t, "i_depth")
  <2>1. PICK l \in Locals : l.target = 0 /\ Acts(t, "i_depth", l)
    BY <1>7, FreshMoves
  <2>2. StoresSema(k, 0) /\ 0 \in Int
    BY <1>2, <1>7 DEF StoresSema, SetSema
  <2>3. Calm(k) /\ segs'[k].sema = 0
    BY <1>1, <2>2, SemaCalm
  <2>4. /\ "i_depth" \in PCs /\ "i_depth" \notin PublishPCs /\ "i_depth" \notin PendingPCs
        /\ "i_depth" \notin ClosePCs /\ pc[t] \notin PublishPCs
    BY <1>1 DEF PCs, PublishPCs, PendingPCs, SharePCs, ClosePCs, SplitPCs
  <2>5. NextAt("i_depth", l, q, F)
    <3>1. ClosedLinked("i_depth", l, F)
      BY DEF ClosedLinked
    <3>2. DepthSeen("i_depth", l, q, F)
      BY DEF DepthSeen
    <3>3. HomeAt("i_depth", l, q, F)
      BY DEF HomeAt, SharePCs, PendingPCs
    <3> QED
      BY <2>4, <3>1, <3>2, <3>3 DEF NextAt, NoTargetPCs
  <2>6. /\ k \in Pointers /\ segs'[k].sema >= 0 => segs[k].sema >= 0 \/ Linked(F, k)
        /\ k \in Pointers /\ segs'[k].sema < 0 => segs[k].sema < 0 \/ (l.target = k /\ "i_depth" \in ClosePCs)
        /\ k \in Pointers /\ pc[t] \in ClosePCs /\ segs'[k].sema < 0 => l.target = k /\ "i_depth" \in ClosePCs
    BY <1>5, <2>3
  <2> QED
    BY <1>2, <1>4, <2>1, <2>3, <2>4, <2>5, <2>6, CalmPlan
<1> QED
  BY <1>6, <1>7 DEF Recheck

\* A store into the semaphore of the directory is calm.
LEMMA DirSemaCalm ==
  ASSUME Inv, NEW n \in Int, SetDirSema(n), UNCHANGED <<segs, dir>>
  PROVE  (Dir.segment)' = Dir.segment /\ (Dir.depth)' = Dir.depth
<1>1. Dir \in Directory /\ dirs \in Seq(Directory) /\ dir \in 1 .. Len(dirs)
  BY DirFacts DEF Inv, Typed
<1>2. PICK e : e = [Dir EXCEPT !.sema = n]
  OBVIOUS
<1>3. e.depth = Dir.depth /\ e.segment = Dir.segment
  BY <1>1, <1>2 DEF Directory
<1>4. dirs' = [dirs EXCEPT ![dir] = e]
  BY <1>2 DEF SetDirSema, Dir
<1>5. dirs'[dir] = e
  BY <1>1, <1>4
<1> QED
  BY <1>3, <1>5 DEF Dir

\* A thread whose new halves are not in the directory yet, and that does not
\* link them.
LEMMA PendingPlan ==
  ASSUME Inv, NEW t \in Threads, NEW p \in PendingPCs, NEW l \in Locals, Acts(t, p, l), pc[t] \in PendingPCs,
         l.target = loc[t].target, l.depth = loc[t].depth, l.s = loc[t].s,
         UNCHANGED <<segs, todo>>, (Dir.segment)' = Dir.segment, (Dir.depth)' = Dir.depth,
         NEW F, Plan(F)
  PROVE  Plan(F)'
<1>1. PICK q : q = todo[t]
  OBVIOUS
<1>2. /\ p \in ClosePCs /\ pc[t] \in ClosePCs /\ p \notin PublishPCs /\ pc[t] \notin PublishPCs
      /\ p \in SharePCs /\ pc[t] \in SharePCs
      /\ p \notin {"i_wait", "i_recheck", "i_finish", "i_suspend"}
  BY DEF PendingPCs, PublishPCs, SharePCs, ClosePCs, SplitPCs
<1>3. ClosedLinked(p, l, F) /\ DepthSeen(p, l, q, F)
  BY <1>2 DEF ClosedLinked, DepthSeen
<1>4. HomeAt(p, l, q, F)
  <2>1. HomeAt(pc[t], loc[t], todo[t], F)
    BY DEF Plan, PlanAt
  <2>2. loc[t].depth = Depth(loc[t].target) /\ HomeOf(loc[t], todo[t], F)
    BY <1>2, <2>1 DEF HomeAt
  <2> QED
    BY <1>1, <2>2 DEF HomeAt, HomeOf
<1> QED
  BY <1>1, <1>2, <1>3, <1>4, ClosedPlan

\* DIR_RETRY, and suspend() of the directory.
LEMMA ChoosePlan ==
  ASSUME Inv, NEW t \in Threads, scenario' = scenario, NEW F, Plan(F),
         ChooseDir(t) \/ SuspendDir(t) \/ AwaitDir(t)
  PROVE  Plan(F)'
<1>1. Typed /\ DirsOK /\ Dir.sema \in Int
  BY DirFacts DEF Inv
<1>2. {"i_dir", "i_dsuspend", "i_dlock", "i_dwait", "i_double"} \subseteq PendingPCs
  BY DEF PendingPCs, SharePCs
<1>3. pc[t] \in PendingPCs /\ UNCHANGED <<segs, todo>>
  BY <1>2 DEF ChooseDir, SuspendDir, AwaitDir, Read
<1>4. ASSUME NEW p \in PendingPCs, Goto(t, p), UNCHANGED <<dirs, dir, loc>> PROVE Plan(F)'
  <2>1. PICK l \in Locals : l = loc[t] /\ Acts(t, p, l)
    BY <1>4, GotoMoves
  <2>2. (Dir.segment)' = Dir.segment /\ (Dir.depth)' = Dir.depth
    BY <1>4 DEF Dir
  <2> QED
    BY <1>3, <2>1, <2>2, PendingPlan
<1>5. ASSUME NEW p \in PendingPCs, Goto(t, p), NEW v \in Nat, Put(t, "val", v),
             (Dir.segment)' = Dir.segment, (Dir.depth)' = Dir.depth
      PROVE  Plan(F)'
  <2>1. PICK l \in Locals : /\ Acts(t, p, l) /\ l.target = loc[t].target
                            /\ l.depth = loc[t].depth /\ l.s = loc[t].s
    <3>1. \E l \in Locals :
           /\ Acts(t, p, l)
           /\ l.target = IF "val" = "target" THEN v ELSE loc[t].target
           /\ l.depth = IF "val" = "depth" THEN v ELSE loc[t].depth
           /\ l.s = IF "val" = "s" THEN v ELSE loc[t].s
           /\ l.writes = IF "val" = "writes" THEN v ELSE loc[t].writes
      BY <1>5, PutMoves
    <3> QED
      BY <3>1
  <2> QED
    BY <1>3, <1>5, <2>1, PendingPlan
<1>6. CASE ChooseDir(t)
  BY <1>2, <1>4, <1>6 DEF ChooseDir
<1>7. CASE SuspendDir(t)
  <2>1. CASE Dir.sema < 0 /\ Goto(t, "i_dir") /\ UNCHANGED <<dirs, loc>>
    BY <1>2, <1>4, <1>7, <2>1 DEF SuspendDir
  <2>2. CASE Dir.sema >= 0 /\ Goto(t, "i_dwait") /\ Put(t, "val", Dir.sema) /\ SetDirSema(-1)
    <3>1. PICK v \in Nat : v = Dir.sema
      BY <1>1, <2>2
    <3>2. (Dir.segment)' = Dir.segment /\ (Dir.depth)' = Dir.depth
      <4>1. -1 \in Int /\ UNCHANGED <<segs, dir>>
        BY <1>7 DEF SuspendDir
      <4> QED
        BY <2>2, <4>1, DirSemaCalm
    <3> QED
      BY <1>2, <1>5, <2>2, <3>1, <3>2
  <2> QED
    BY <1>7, <2>1, <2>2 DEF SuspendDir
<1>8. CASE AwaitDir(t)
  <2>1. Goto(t, "i_double") /\ Put(t, "val", 0) /\ UNCHANGED <<dirs, dir>>
    BY <1>8 DEF AwaitDir, Read
  <2>2. (Dir.segment)' = Dir.segment /\ (Dir.depth)' = Dir.depth
    BY <2>1 DEF Dir
  <2> QED
    BY <1>2, <1>5, <2>1, <2>2
<1> QED
  BY <1>6, <1>7, <1>8

-----------------------------------------------------------------------------
(* Steps that publish a split                                               *)

\* A thread without a target has nothing to keep.
LEMMA FreshAt ==
  ASSUME NEW p \in NoTargetPCs, NEW l, NEW q, NEW F
  PROVE  PlanAt(p, l, q, F)'
<1>1. /\ p \notin {"i_suspend", "i_wait", "i_recheck", "i_finish", "i_probe", "i_split", "i_update"}
      /\ p \notin SharePCs /\ p \notin PendingPCs
  BY DEF NoTargetPCs, SharePCs, PendingPCs
<1>2. OpenLinked(p, l, F)' /\ ClosedLinked(p, l, F)' /\ DepthSeen(p, l, q, F)'
  BY <1>1 DEF OpenLinked, ClosedLinked, DepthSeen
<1>3. HomeAt(p, l, q, F)' /\ Updates(p, l, F)' /\ NewsAt(p, l, F)'
  BY <1>1 DEF HomeAt, Updates, NewsAt
<1> QED
  BY <1>2, <1>3 DEF PlanAt

\* Where it goes once its split is published.
LEMMA PublishedMoves ==
  ASSUME Inv, NEW t \in Threads, scenario' = scenario, Published(t)
  PROVE  \E p \in {"i_finish", "i_depth"}, l \in Locals :
           /\ Acts(t, p, l)
           /\ \/ p = "i_finish" /\ l = loc[t] /\ INPLACE
              \/ p = "i_depth" /\ l.target = 0 /\ ~INPLACE
<1>1. CASE INPLACE
  <2>1. PICK l \in Locals : l = loc[t] /\ Acts(t, "i_finish", l)
    BY <1>1, GotoMoves DEF Published
  <2> QED
    BY <1>1, <2>1
<1>2. CASE ~INPLACE
  <2>1. PICK l \in Locals : l.target = 0 /\ Acts(t, "i_depth", l)
    BY <1>2, FreshMoves DEF Published
  <2> QED
    BY <1>2, <2>1
<1> QED
  BY <1>1, <1>2

\* unlock() of the directory.
LEMMA UnlockDirPlan ==
  ASSUME Inv, races = {}, NEW t \in Threads, scenario' = scenario, NEW F, Plan(F), UnlockDir(t)
  PROVE  Plan(F)'
<1>1. /\ pc[t] = "i_update" /\ loc[t].writes = <<>> /\ UNCHANGED <<segs, dir, todo, acked, races>>
      /\ SetDirSema(Dir.sema - 1) /\ Published(t)
  BY DEF UnlockDir
<1>2. pc[t] \in SplitPCs /\ pc[t] \in ClosePCs /\ pc[t] \in PublishPCs /\ pc[t] \notin NoTargetPCs
      /\ pc[t] \in SharePCs
  BY <1>1 DEF SplitPCs, ClosePCs, PublishPCs, NoTargetPCs, SharePCs
<1>3. PICK k \in Pointers : k = loc[t].target
  BY <1>2, SplitFacts
<1>4. PICK q : q = todo[t]
  OBVIOUS
<1>5. todo' = [todo EXCEPT ![t] = q] /\ Typed
  BY <1>1, <1>4, Facts DEF Inv
<1>6. PICK p \in {"i_finish", "i_depth"}, l \in Locals :
           /\ Acts(t, p, l)
           /\ \/ p = "i_finish" /\ l = loc[t] /\ INPLACE
              \/ p = "i_depth" /\ l.target = 0 /\ ~INPLACE
  BY <1>1, PublishedMoves
<1>7. /\ p \in PCs /\ p \notin SharePCs /\ p \notin PendingPCs /\ p # "i_update"
      /\ "i_finish" \in PublishPCs /\ "i_finish" \in ClosePCs /\ "i_depth" \in NoTargetPCs
  BY DEF PCs, SharePCs, PendingPCs, PublishPCs, ClosePCs, SplitPCs, NoTargetPCs
<1>8. /\ pc'[t] = p /\ loc'[t] = l /\ INPLACE' = INPLACE /\ todo'[t] = q
      /\ \A u \in Threads \ {t} : pc'[u] = pc[u] /\ loc'[u] = loc[u]
  BY <1>1, <1>4, <1>5, <1>6, <1>7, ActsOthers
<1>9. (Dir.segment)' = Dir.segment /\ (Dir.depth)' = Dir.depth
  <2>1. Dir.sema - 1 \in Int
    BY DirFacts DEF Inv
  <2> QED
    BY <1>1, <2>1, DirSemaCalm
<1>10. Calm(k)
  BY <1>1, <1>9 DEF Calm, Depth
<1>11. FDepths' = FDepths /\ \A i \in Pointers : FDepth(i)' = FDepth(i)
  <2>1. \A i : Raised(i)' <=> Raised(i)
    <3>1. CASE INPLACE
      BY <1>2, <1>6, <1>7, <1>8, <3>1 DEF Raised
    <3>2. CASE ~INPLACE
      BY <1>8, <3>2 DEF Raised
    <3> QED
      BY <3>1, <3>2
  <2>2. \A i \in Pointers : FDepth(i)' = FDepth(i)
    BY <1>10, <2>1 DEF FDepth, Calm
  <2>3. Pointers' = Pointers
    BY <1>10, CalmSame
  <2> QED
    BY <2>2, <2>3 DEF FDepths
<1>12. /\ \A u \in Threads : \A x, b : Pend(u, x, b)' <=> Pend(u, x, b)
       /\ \A u \in Threads : \A x, b : Pend(u, x, b) => loc'[u].target = loc[u].target
  <2>1. \A x, b : ~Pend(t, x, b)
    <3>1. Len(loc[t].writes) = 0
      BY <1>1
    <3> QED
      BY <3>1 DEF Pend, HasWrite
  <2>2. \A x, b : ~Pend(t, x, b)'
    BY <1>7, <1>8 DEF Pend
  <2>3. \A u \in Threads \ {t} : \A x, b : Pend(u, x, b)' <=> Pend(u, x, b)
    BY <1>8 DEF Pend
  <2> QED
    BY <1>8, <2>1, <2>2, <2>3
<1>13. /\ Shape(F) /\ NewsApart /\ Owned(F)
       /\ \A x \in Entries(Dir) : EntryPlan(x, F)
       /\ \A u \in Threads : PlanAt(pc[u], loc[u], todo[u], F)
  BY DEF Plan
<1>14. Shape(F)' /\ \A x \in Entries(Dir)' : EntryPlan(x, F)'
  BY <1>10, <1>11, <1>12, <1>13, KeptEntries
<1>15. NewsApart'
  BY <1>6, <1>7, <1>13, CalmApart
<1>16. Updates(pc[t], loc[t], F) /\ OpenLinked(pc[t], loc[t], F)
  BY <1>13 DEF PlanAt
<1>17. INPLACE <=> Linked(F, k)
  BY <1>1, <1>3, <1>16 DEF Updates
<1>18. Owned(F)'
  <2>1. /\ Linked(F, k) /\ segs'[k].sema < 0 => segs[k].sema < 0 \/ (l.target = k /\ p \in ClosePCs)
        /\ Linked(F, k) /\ pc[t] \in ClosePCs /\ segs'[k].sema < 0 => l.target = k /\ p \in ClosePCs
    BY <1>1, <1>3, <1>6, <1>7, <1>17
  <2> QED
    BY <1>3, <1>6, <1>7, <1>10, <1>13, <2>1, CalmOwned
<1>19. PlanAt(p, l, q, F)'
  <2>1. CASE p = "i_depth"
    BY <1>7, <2>1, FreshAt
  <2>2. CASE p = "i_finish"
    <3>1. l.target = k /\ (Linked(F, k)' <=> Linked(F, k)) /\ Linked(F, k)
      BY <1>3, <1>6, <1>10, <1>17, <2>2, CalmSame
    <3>2. OpenLinked(p, l, F)' /\ ClosedLinked(p, l, F)'
      BY <3>1 DEF OpenLinked, ClosedLinked
    <3>3. DepthSeen(p, l, q, F)' /\ HomeAt(p, l, q, F)' /\ Updates(p, l, F)' /\ NewsAt(p, l, F)'
      BY <1>7, <2>2 DEF DepthSeen, HomeAt, Updates, NewsAt
    <3> QED
      BY <3>2, <3>3 DEF PlanAt
  <2> QED
    BY <2>1, <2>2
<1>20. \A u \in Threads : PlanAt(pc[u], loc[u], todo[u], F)'
  <2> SUFFICES ASSUME NEW u \in Threads PROVE PlanAt(pc[u], loc[u], todo[u], F)'
    OBVIOUS
  <2>1. CASE u = t
    BY <1>8, <1>19, <2>1
  <2>2. CASE u # t
    <3>1. k \in Pointers /\ segs'[k].sema >= 0 => segs[k].sema >= 0 \/ Linked(F, k)
      BY <1>1
    <3> QED
      BY <1>3, <1>5, <1>6, <1>7, <1>10, <1>11, <2>2, <3>1, CalmOthers
  <2> QED
    BY <2>1, <2>2
<1> QED
  BY <1>14, <1>15, <1>18, <1>20 DEF Plan

\* What is left of the stores after the first.
LEMMA TailWrites ==
  ASSUME NEW W \in Seq(Nat \X Nat), W # <<>>, OneEach(W), NEW x, NEW b, Head(W) = <<x, b>>
  PROVE  /\ Tail(W) \in Seq(Nat \X Nat) /\ OneEach(Tail(W)) /\ HasWrite(W, x, b)
         /\ \A y, c : HasWrite(Tail(W), y, c) => HasWrite(W, y, c) /\ y # x
         /\ \A y, c : HasWrite(W, y, c) /\ y # x => HasWrite(Tail(W), y, c)
<1>1. PICK V \in Seq(Nat \X Nat), m \in Nat :
        /\ V = Tail(W) /\ Len(V) = m /\ Len(W) = m + 1 /\ W[1] = <<x, b>>
        /\ \A n \in 1 .. m : V[n] = W[n + 1]
  <2>1. /\ Tail(W) \in Seq(Nat \X Nat) /\ Len(Tail(W)) \in Nat /\ Len(W) = Len(Tail(W)) + 1
        /\ W[1] = Head(W) /\ \A n \in 1 .. Len(Tail(W)) : Tail(W)[n] = W[n + 1]
    OBVIOUS
  <2> QED
    BY <2>1
<1>2. /\ 1 \in 1 .. m + 1 /\ \A n \in 1 .. m : n + 1 \in 1 .. m + 1 /\ n + 1 # 1
      /\ \A n \in 1 .. m + 1 : n = 1 \/ \E i \in 1 .. m : n = i + 1
  <2>1. \A n \in 1 .. m + 1 : n = 1 \/ (n - 1 \in 1 .. m /\ n = (n - 1) + 1)
    OBVIOUS
  <2> QED
    BY <2>1
<1>3. \A i, n \in 1 .. m + 1 : W[i][1] = W[n][1] => i = n
  BY <1>1 DEF OneEach
<1>4. OneEach(V)
  <2> SUFFICES ASSUME NEW i \in 1 .. m, NEW n \in 1 .. m, V[i][1] = V[n][1] PROVE i = n
    BY <1>1 DEF OneEach
  <2>1. i + 1 = n + 1
    BY <1>1, <1>2, <1>3
  <2> QED
    BY <2>1
<1>5. HasWrite(W, x, b)
  BY <1>1, <1>2 DEF HasWrite
<1>6. ASSUME NEW y, NEW c, HasWrite(V, y, c) PROVE HasWrite(W, y, c) /\ y # x
  <2>1. PICK n \in 1 .. m : V[n] = <<y, c>>
    BY <1>1, <1>6 DEF HasWrite
  <2>2. n + 1 \in 1 .. m + 1 /\ W[n + 1] = <<y, c>> /\ n + 1 # 1
    BY <1>1, <1>2, <2>1
  <2>3. HasWrite(W, y, c)
    BY <1>1, <2>2 DEF HasWrite
  <2>4. W[1][1] = x /\ W[n + 1][1] = y
    BY <1>1, <2>2
  <2>5. y # x
    BY <1>2, <1>3, <2>2, <2>4
  <2> QED
    BY <2>3, <2>5
<1>7. ASSUME NEW y, NEW c, HasWrite(W, y, c), y # x PROVE HasWrite(V, y, c)
  <2>1. PICK n \in 1 .. m + 1 : W[n] = <<y, c>>
    BY <1>1, <1>7 DEF HasWrite
  <2>2. n # 1
    BY <1>1, <1>7, <2>1
  <2>3. PICK i \in 1 .. m : n = i + 1
    BY <1>2, <2>2
  <2> QED
    BY <1>1, <2>1, <2>3 DEF HasWrite
<1> QED
  BY <1>1, <1>4, <1>5, <1>6, <1>7

\* The entry that is stored.
LEMMA SegmentStore ==
  ASSUME Typed, DirsOK, NEW x \in Entries(Dir), NEW k \in Pointers,
         dirs' = [dirs EXCEPT ![dir].segment[x] = k], UNCHANGED <<segs, dir>>
  PROVE  /\ (Dir.depth)' = Dir.depth /\ Entries(Dir)' = Entries(Dir) /\ (Dir.segment)'[x] = k
         /\ \A y \in Entries(Dir) : y # x => (Dir.segment)'[y] = Dir.segment[y]
<1>1. /\ Dir \in Directory /\ dirs \in Seq(Directory) /\ dir \in 1 .. Len(dirs)
      /\ Dir.segment \in [Entries(Dir) -> Pointers]
  BY DirFacts DEF Typed
<1>2. PICK f : f = [Dir.segment EXCEPT ![x] = k]
  OBVIOUS
<1>3. f[x] = k /\ \A y \in Entries(Dir) : y # x => f[y] = Dir.segment[y]
  BY <1>1, <1>2
<1>4. PICK e : e = [Dir EXCEPT !.segment = f]
  OBVIOUS
<1>5. e.depth = Dir.depth /\ e.segment = f
  BY <1>1, <1>4 DEF Directory
<1>6. dirs' = [dirs EXCEPT ![dir] = e]
  BY <1>2, <1>4 DEF Dir
<1>7. Dir' = e
  BY <1>1, <1>6 DEF Dir
<1> QED
  BY <1>3, <1>5, <1>7 DEF Entries

\* What is left, by a name of its own.
LEMMA FirstStore ==
  ASSUME NEW W \in Seq(Nat \X Nat), W # <<>>, OneEach(W), NEW x, NEW b, Head(W) = <<x, b>>
  PROVE  \E V \in Seq(Nat \X Nat) :
           /\ V = Tail(W) /\ OneEach(V) /\ HasWrite(W, x, b)
           /\ \A y, c : HasWrite(V, y, c) => HasWrite(W, y, c) /\ y # x
           /\ \A y, c : HasWrite(W, y, c) /\ y # x => HasWrite(V, y, c)
BY TailWrites

\* The locals after the list of the stores changes.
LEMMA PutWrites ==
  ASSUME Inv, NEW t \in Threads, NEW v \in Seq(Nat \X Nat), NEW p, Goto(t, p), Put(t, "writes", v),
         scenario' = scenario
  PROVE  \E l \in Locals : /\ Acts(t, p, l) /\ l.target = loc[t].target
                           /\ l.depth = loc[t].depth /\ l.s = loc[t].s /\ l.writes = v
<1>1. \E l \in Locals :
        /\ Acts(t, p, l)
        /\ l.target = IF "writes" = "target" THEN v ELSE loc[t].target
        /\ l.depth = IF "writes" = "depth" THEN v ELSE loc[t].depth
        /\ l.s = IF "writes" = "s" THEN v ELSE loc[t].s
        /\ l.writes = IF "writes" = "writes" THEN v ELSE loc[t].writes
  BY PutMoves
<1> QED
  BY <1>1

\* Thread t stores b into entry x, in place of the segment it splits, and has
\* then the locals l.
Storing(t, x, b, l) ==
  /\ pc[t] = "i_update" /\ loc[t].target = Dir.segment[x] /\ b \in {loc[t].s[1], loc[t].s[2]}
  /\ Acts(t, "i_update", l) /\ l.target = loc[t].target /\ l.depth = loc[t].depth /\ l.s = loc[t].s
  /\ OneEach(l.writes) /\ HasWrite(loc[t].writes, x, b)
  /\ \A y, c : HasWrite(l.writes, y, c) => HasWrite(loc[t].writes, y, c) /\ y # x
  /\ \A y, c : HasWrite(loc[t].writes, y, c) /\ y # x => HasWrite(l.writes, y, c)
  /\ UNCHANGED <<segs, todo>> /\ (Dir.depth)' = Dir.depth /\ Entries(Dir)' = Entries(Dir)
  /\ (Dir.segment)'[x] = b /\ \A y \in Entries(Dir) : y # x => (Dir.segment)'[y] = Dir.segment[y]

\* That is what it does while no split nests in another.
LEMMA StoreEntryMoves ==
  ASSUME Inv, races = {}, races' = {}, NEW t \in Threads, scenario' = scenario, NEW F, Plan(F), StoreEntry(t)
  PROVE  \E x \in Entries(Dir), b \in Pointers, l \in Locals : Storing(t, x, b, l)
<1>1. PICK w : w = Head(loc[t].writes)
  OBVIOUS
<1>2. /\ pc[t] = "i_update" /\ loc[t].writes # <<>>
      /\ dirs' = [dirs EXCEPT ![dir].segment[w[1]] = w[2]]
      /\ Put(t, "writes", Tail(loc[t].writes))
      /\ races' = races \cup (IF Dir.segment[w[1]] = loc[t].target THEN {} ELSE {"nested"})
      /\ UNCHANGED <<segs, dir, pc, todo, acked>>
  BY <1>1 DEF StoreEntry
<1>3. Dir.segment[w[1]] = loc[t].target
  BY <1>2
<1>4. pc[t] \in SplitPCs /\ pc[t] \in SharePCs
  BY <1>2 DEF SplitPCs, SharePCs
<1>5. Typed /\ DirsOK /\ loc[t] \in Locals /\ LocalAt(pc[t], loc[t], todo[t])
  BY <1>4, SplitFacts
<1>6. PICK W \in Seq(Nat \X Nat) : W = loc[t].writes /\ W # <<>>
  BY <1>2, <1>5 DEF Locals
<1>7. 1 \in 1 .. Len(W) /\ w = W[1] /\ w \in Nat \X Nat
  BY <1>1, <1>6
<1>8. w[1] \in Entries(Dir) /\ w[2] \in {loc[t].s[1], loc[t].s[2]}
  BY <1>2, <1>5, <1>6, <1>7 DEF LocalAt
<1>9. loc[t].s[1] \in Pointers /\ loc[t].s[2] \in Pointers
  BY <1>4, <1>5 DEF LocalAt
<1>10. PICK x \in Entries(Dir), b \in Pointers : x = w[1] /\ b = w[2] /\ Head(W) = <<x, b>>
  BY <1>1, <1>6, <1>7, <1>8, <1>9
<1>11. OneEach(W)
  BY <1>2, <1>6 DEF Plan, PlanAt, Updates
<1>12. PICK V \in Seq(Nat \X Nat) :
        /\ V = Tail(W) /\ OneEach(V) /\ HasWrite(W, x, b)
        /\ \A y, c : HasWrite(V, y, c) => HasWrite(W, y, c) /\ y # x
        /\ \A y, c : HasWrite(W, y, c) /\ y # x => HasWrite(V, y, c)
  <2>1. W # <<>> /\ Head(W) = <<x, b>>
    BY <1>6, <1>10
  <2> QED
    BY <1>11, <2>1, FirstStore
<1>13. Goto(t, "i_update") /\ Put(t, "writes", V)
  BY <1>2, <1>5, <1>6, <1>12 DEF Goto, Typed
<1>14. PICK l \in Locals : /\ Acts(t, "i_update", l) /\ l.target = loc[t].target
                           /\ l.depth = loc[t].depth /\ l.s = loc[t].s /\ l.writes = V
  BY <1>13, PutWrites
<1>15. dirs' = [dirs EXCEPT ![dir].segment[x] = b]
  BY <1>2, <1>10
<1>16. /\ (Dir.depth)' = Dir.depth /\ Entries(Dir)' = Entries(Dir) /\ (Dir.segment)'[x] = b
       /\ \A y \in Entries(Dir) : y # x => (Dir.segment)'[y] = Dir.segment[y]
  BY <1>2, <1>5, <1>15, SegmentStore
<1>17. b \in {loc[t].s[1], loc[t].s[2]} /\ loc[t].target = Dir.segment[x]
  BY <1>3, <1>8, <1>10
<1>18. Storing(t, x, b, l)
  BY <1>2, <1>6, <1>12, <1>14, <1>16, <1>17 DEF Storing
<1> QED
  BY <1>18

\* What such a store leaves as it is.
LEMMA StoringSame ==
  ASSUME Inv, NEW t \in Threads, NEW x \in Entries(Dir), NEW b \in Pointers, NEW l \in Locals,
         Storing(t, x, b, l)
  PROVE  /\ pc'[t] = "i_update" /\ loc'[t] = l /\ INPLACE' = INPLACE /\ Pointers' = Pointers /\ todo' = todo
         /\ \A u \in Threads \ {t} : pc'[u] = pc[u] /\ loc'[u] = loc[u]
         /\ \A u \in Threads : pc'[u] = pc[u] /\ loc'[u].target = loc[u].target /\ loc'[u].s = loc[u].s
         /\ \A i : Depth(i)' = Depth(i) /\ FDepth(i)' = FDepth(i) /\ segs'[i] = segs[i]
         /\ \A F, i : Linked(F, i)' <=> Linked(F, i)
         /\ \A m, q, F : HomeOf(m, q, F)' <=> HomeOf(m, q, F)
         /\ \A c, F : Unlinked(c, F) /\ c # b => Unlinked(c, F)'
         /\ \A i : Closers(i)' = Closers(i)
<1> USE DEF Storing
<1>0. "i_update" \in PCs
  BY DEF PCs
<1>1. /\ pc'[t] = "i_update" /\ loc'[t] = l /\ INPLACE' = INPLACE
      /\ \A u \in Threads \ {t} : pc'[u] = pc[u] /\ loc'[u] = loc[u]
  BY <1>0, ActsOthers DEF Inv
<1>2. \A u \in Threads : pc'[u] = pc[u] /\ loc'[u].target = loc[u].target /\ loc'[u].s = loc[u].s
  BY <1>1
<1>3. Pointers' = Pointers /\ \A i : Depth(i)' = Depth(i) /\ segs'[i] = segs[i]
  BY DEF Pointers, Depth
<1>4. \A i : Raised(i)' <=> Raised(i)
  BY <1>1, <1>2 DEF Raised
<1>5. \A i : FDepth(i)' = FDepth(i)
  BY <1>3, <1>4 DEF FDepth
<1>6. \A F, i : Linked(F, i)' <=> Linked(F, i)
  BY DEF Linked
<1>7. \A m, q, F : HomeOf(m, q, F)' <=> HomeOf(m, q, F)
  BY DEF HomeOf, Prefix
<1>8. \A c, F : Unlinked(c, F) /\ c # b => Unlinked(c, F)'
  BY DEF Unlinked
<1>9. \A i : Closers(i)' = Closers(i)
  BY <1>2 DEF Closers, Waiters, Splitters
<1> QED
  BY <1>1, <1>2, <1>3, <1>5, <1>6, <1>7, <1>8, <1>9

\* The stores into the entry that are left still make a chain.
LEMMA StoringEntries ==
  ASSUME Inv, NEW t \in Threads, NEW x \in Entries(Dir), NEW b \in Pointers, NEW l \in Locals,
         Storing(t, x, b, l), NEW F, \A y \in Entries(Dir) : EntryPlan(y, F), NEW y \in Entries(Dir)
  PROVE  EntryPlan(y, F)'
<1>1. /\ pc'[t] = "i_update" /\ loc'[t] = l /\ Pointers' = Pointers
      /\ \A u \in Threads \ {t} : pc'[u] = pc[u] /\ loc'[u] = loc[u]
      /\ \A u \in Threads : loc'[u].target = loc[u].target
  BY StoringSame
<1>2. /\ pc[t] = "i_update" /\ loc[t].target = Dir.segment[x] /\ HasWrite(loc[t].writes, x, b)
      /\ \A z, c : HasWrite(l.writes, z, c) => HasWrite(loc[t].writes, z, c) /\ z # x
      /\ \A z, c : HasWrite(loc[t].writes, z, c) /\ z # x => HasWrite(l.writes, z, c)
      /\ (Dir.segment)'[x] = b /\ \A z \in Entries(Dir) : z # x => (Dir.segment)'[z] = Dir.segment[z]
  BY DEF Storing
<1>3. /\ \A u \in Threads : \A z, c : u # t => (Pend(u, z, c)' <=> Pend(u, z, c))
      /\ \A z, c : Pend(t, z, c)' => Pend(t, z, c) /\ z # x
      /\ \A z, c : Pend(t, z, c) /\ z # x => Pend(t, z, c)'
      /\ Pend(t, x, b)
  <2>1. \A u \in Threads : \A z, c : u # t => (Pend(u, z, c)' <=> Pend(u, z, c))
    BY <1>1 DEF Pend
  <2>2. \A z, c : (Pend(t, z, c)' <=> HasWrite(l.writes, z, c)) /\ (Pend(t, z, c) <=> HasWrite(loc[t].writes, z, c))
    BY <1>1, <1>2 DEF Pend
  <2> QED
    BY <1>2, <2>1, <2>2
<1>4. EntryPlan(y, F)
  OBVIOUS
<1>5. CASE y # x
  <2>1. (\A u \in Threads : \A c : Pend(u, y, c)' <=> Pend(u, y, c)) /\ (Dir.segment)'[y] = Dir.segment[y]
    BY <1>2, <1>3, <1>5
  <2>2. \A a : Leads(y, a)' <=> Leads(y, a)
    BY <1>1, <2>1 DEF Leads
  <2>3. (Dir.segment[y] = F[y] \/ Leads(y, Dir.segment[y]))'
    BY <1>4, <2>1, <2>2 DEF EntryPlan
  <2>4. ASSUME NEW u \in Threads, NEW c \in Pointers, Pend(u, y, c)'
        PROVE  /\ c = F[y] \/ Leads(y, c)'
               /\ c # (Dir.segment)'[y] /\ loc'[u].target # F[y]
               /\ \A v \in Threads, d \in Pointers : Pend(v, y, d)' /\ u # v => c # d
    <3>1. Pend(u, y, c)
      BY <2>1, <2>4
    <3>2. /\ c = F[y] \/ Leads(y, c)
          /\ c # Dir.segment[y] /\ loc[u].target # F[y]
          /\ \A v \in Threads, d \in Pointers : Pend(v, y, d) /\ u # v => c # d
      BY <1>4, <3>1 DEF EntryPlan
    <3> QED
      BY <1>1, <2>1, <2>2, <3>2
  <2> QED
    BY <1>1, <2>3, <2>4 DEF EntryPlan
<1>6. CASE y = x
  <2>0. PICK k : k = Dir.segment[x] /\ k = loc[t].target
    BY <1>2
  <2>1. /\ b = F[x] \/ Leads(x, b)
        /\ b # k
        /\ \A v \in Threads, d \in Pointers : Pend(v, x, d) /\ t # v => b # d
    BY <1>3, <1>4, <1>6, <2>0 DEF EntryPlan
  <2>2. \A u \in Threads : \A c : Pend(u, x, c)' => u # t /\ Pend(u, x, c)
    BY <1>3
  <2>3. \A a : Leads(x, a) /\ a # k => Leads(x, a)'
    <3> SUFFICES ASSUME NEW a, Leads(x, a), a # k PROVE Leads(x, a)'
      OBVIOUS
    <3>1. PICK v \in Threads, c \in Pointers : Pend(v, x, c) /\ loc[v].target = a
      BY DEF Leads
    <3>2. v # t
      BY <2>0, <3>1
    <3>3. Pend(v, x, c)' /\ loc'[v].target = a
      BY <1>1, <1>3, <3>1, <3>2
    <3> QED
      BY <1>1, <3>3 DEF Leads
  <2>4. (Dir.segment[x] = F[x] \/ Leads(x, Dir.segment[x]))'
    BY <1>2, <2>1, <2>3
  <2>5. ASSUME NEW u \in Threads, NEW c \in Pointers, Pend(u, x, c)'
        PROVE  /\ c = F[x] \/ Leads(x, c)'
               /\ c # (Dir.segment)'[x] /\ loc'[u].target # F[x]
               /\ \A v \in Threads, d \in Pointers : Pend(v, x, d)' /\ u # v => c # d
    <3>1. Pend(u, x, c) /\ u # t
      BY <2>2, <2>5
    <3>2. /\ c = F[x] \/ Leads(x, c)
          /\ c # k /\ loc[u].target # F[x]
          /\ \A v \in Threads, d \in Pointers : Pend(v, x, d) /\ u # v => c # d
      BY <1>4, <1>6, <2>0, <3>1 DEF EntryPlan
    <3>3. b # c
      BY <2>1, <3>1
    <3> QED
      BY <1>1, <1>2, <2>2, <2>3, <3>2, <3>3
  <2> QED
    BY <1>1, <1>6, <2>4, <2>5 DEF EntryPlan
<1> QED
  BY <1>5, <1>6

\* The stores of the entries.
LEMMA StoreEntryPlan ==
  ASSUME Inv, races = {}, races' = {}, NEW t \in Threads, scenario' = scenario, NEW F, Plan(F), StoreEntry(t)
  PROVE  Plan(F)'
<1>1. PICK x \in Entries(Dir), b \in Pointers, l \in Locals : Storing(t, x, b, l)
  BY StoreEntryMoves
<1>2. /\ pc'[t] = "i_update" /\ loc'[t] = l /\ INPLACE' = INPLACE /\ Pointers' = Pointers /\ todo' = todo
      /\ \A u \in Threads \ {t} : pc'[u] = pc[u] /\ loc'[u] = loc[u]
      /\ \A u \in Threads : pc'[u] = pc[u] /\ loc'[u].target = loc[u].target /\ loc'[u].s = loc[u].s
      /\ \A i : Depth(i)' = Depth(i) /\ FDepth(i)' = FDepth(i) /\ segs'[i] = segs[i]
      /\ \A i : Linked(F, i)' <=> Linked(F, i)
      /\ \A m, q : HomeOf(m, q, F)' <=> HomeOf(m, q, F)
      /\ \A c : Unlinked(c, F) /\ c # b => Unlinked(c, F)'
      /\ \A i : Closers(i)' = Closers(i)
  BY <1>1, StoringSame
<1>3. /\ pc[t] = "i_update" /\ b \in {loc[t].s[1], loc[t].s[2]} /\ Acts(t, "i_update", l)
      /\ l.target = loc[t].target /\ l.depth = loc[t].depth /\ l.s = loc[t].s
      /\ OneEach(l.writes) /\ (Dir.depth)' = Dir.depth /\ Entries(Dir)' = Entries(Dir)
  BY <1>1 DEF Storing
<1>4. /\ Shape(F) /\ NewsApart /\ Owned(F)
      /\ \A y \in Entries(Dir) : EntryPlan(y, F)
      /\ \A u \in Threads : PlanAt(pc[u], loc[u], todo[u], F)
  BY DEF Plan
<1>5. "i_update" \in SharePCs /\ "i_update" \in PCs /\ "i_update" \notin PendingPCs /\ "i_update" \notin NoTargetPCs
  BY DEF SharePCs, PCs, PendingPCs, NoTargetPCs
<1>6. Shape(F)'
  <2>1. FDepths' = FDepths
    BY <1>2 DEF FDepths
  <2> QED
    BY <1>2, <1>3, <1>4, <2>1 DEF Shape
<1>7. \A y \in Entries(Dir)' : EntryPlan(y, F)'
  BY <1>1, <1>3, <1>4, StoringEntries
<1>8. NewsApart'
  BY <1>3, <1>4, <1>5, CalmApart
<1>9. Owned(F)'
  BY <1>2, <1>3, <1>4 DEF Owned
<1>10. \A u \in Threads \ {t} : PlanAt(pc[u], loc[u], todo[u], F)'
  <2> SUFFICES ASSUME NEW u \in Threads \ {t} PROVE PlanAt(pc[u], loc[u], todo[u], F)'
    OBVIOUS
  <2>1. PICK pu, lu, qu : pu = pc[u] /\ lu = loc[u] /\ qu = todo[u]
    OBVIOUS
  <2>2. pc'[u] = pu /\ loc'[u] = lu /\ todo'[u] = qu
    BY <1>2, <2>1
  <2>3. PlanAt(pu, lu, qu, F)
    BY <1>4, <2>1
  <2>4. PICK j : j = lu.target
    OBVIOUS
  <2>5. pu \in PendingPCs => \A c \in News(lu) : NewHalf(c, j, F) => NewHalf(c, j, F)'
    <3> SUFFICES ASSUME pu \in PendingPCs, NEW c \in News(lu), NewHalf(c, j, F) PROVE NewHalf(c, j, F)'
      OBVIOUS
    <3>1. c # b
      <4>1. \A v \in Threads : v # u /\ pc[v] \in SharePCs => c \notin {loc[v].s[1], loc[v].s[2]}
        BY <1>4, <2>1 DEF NewsApart
      <4> QED
        BY <1>3, <1>5, <4>1
    <3> QED
      BY <1>2, <3>1 DEF NewHalf
  <2>6. PlanAt(pu, lu, qu, F)'
    BY <1>2, <2>3, <2>4, <2>5, OtherPlan
  <2> QED
    BY <2>2, <2>6
<1>11. PICK q : q = todo[t]
  OBVIOUS
<1>12. PlanAt("i_update", l, q, F)'
  <2>1. OpenLinked(pc[t], loc[t], F) /\ HomeAt(pc[t], loc[t], todo[t], F) /\ Updates(pc[t], loc[t], F)
    BY <1>4 DEF PlanAt
  <2>2. OpenLinked("i_update", l, F)'
    BY <1>2, <1>3, <1>5, <2>1 DEF OpenLinked
  <2>3. HomeAt("i_update", l, q, F)'
    <3>1. l.depth = Depth(l.target)
      BY <1>3, <1>5, <2>1 DEF HomeAt
    <3> QED
      BY <1>2, <1>5, <3>1 DEF HomeAt
  <2>4. Updates("i_update", l, F)'
    BY <1>2, <1>3, <2>1 DEF Updates
  <2>5. ClosedLinked("i_update", l, F)' /\ DepthSeen("i_update", l, q, F)' /\ NewsAt("i_update", l, F)'
    BY <1>5 DEF ClosedLinked, DepthSeen, NewsAt
  <2> QED
    BY <2>2, <2>3, <2>4, <2>5 DEF PlanAt
<1>13. \A u \in Threads : PlanAt(pc[u], loc[u], todo[u], F)'
  <2> SUFFICES ASSUME NEW u \in Threads PROVE PlanAt(pc[u], loc[u], todo[u], F)'
    OBVIOUS
  <2>1. CASE u = t
    BY <1>2, <1>11, <1>12, <2>1
  <2>2. CASE u # t
    BY <1>10, <2>2
  <2> QED
    BY <2>1, <2>2
<1> QED
  BY <1>6, <1>7, <1>8, <1>9, <1>13 DEF Plan

\* A store that is left is one of a half of the split, into an entry there is.
LEMMA PendFacts ==
  ASSUME Inv, NEW u \in Threads, NEW x, NEW c, Pend(u, x, c)
  PROVE  /\ pc[u] = "i_update" /\ x \in Entries(Dir) /\ c \in {loc[u].s[1], loc[u].s[2]} /\ c \in Pointers
         /\ loc[u].target \in Pointers /\ u \in Splitters(loc[u].target)
<1>1. pc[u] = "i_update" /\ HasWrite(loc[u].writes, x, c)
  BY DEF Pend
<1>2. pc[u] \in SplitPCs /\ pc[u] \in SharePCs
  BY <1>1 DEF SplitPCs, SharePCs
<1>3. LocalAt(pc[u], loc[u], todo[u]) /\ loc[u].target \in Pointers
  BY <1>2, SplitFacts
<1>4. PICK n \in 1 .. Len(loc[u].writes) : loc[u].writes[n] = <<x, c>>
  BY <1>1 DEF HasWrite
<1>5. loc[u].writes[n][1] \in Entries(Dir) /\ loc[u].writes[n][2] \in {loc[u].s[1], loc[u].s[2]}
  BY <1>1, <1>3 DEF LocalAt
<1>6. x \in Entries(Dir) /\ c \in {loc[u].s[1], loc[u].s[2]}
  BY <1>4, <1>5
<1>7. loc[u].s[1] \in Pointers /\ loc[u].s[2] \in Pointers
  BY <1>2, <1>3 DEF LocalAt
<1> QED
  BY <1>1, <1>2, <1>3, <1>6, <1>7 DEF Splitters

\* Where pointers of the threads point.
LEMMA OldPointers ==
  ASSUME Inv, NEW u \in Threads
  PROVE  /\ loc[u].target \in Pointers \cup {0} /\ (pc[u] \notin NoTargetPCs => loc[u].target \in Pointers)
         /\ pc[u] \in SharePCs => loc[u].s[1] \in Pointers /\ loc[u].s[2] \in Pointers
<1>1. LocalAt(pc[u], loc[u], todo[u])
  BY DEF Inv, LocalsOK
<1>2. Len(segs) \in Nat
  BY DEF Inv, Typed
<1>3. loc[u].target \in Pointers \cup {0}
  BY <1>1, <1>2 DEF LocalAt, Pointers
<1> QED
  BY <1>1, <1>3 DEF LocalAt

\* What the allocation of the new halves leaves as it is.
LEMMA SplitsSame ==
  ASSUME Inv, NEW t \in Threads, NEW d \in 0 .. HashBits, NEW l \in Locals, Splits(t, d, l)
  PROVE  /\ pc'[t] = "i_dir" /\ loc'[t] = l /\ INPLACE' = INPLACE /\ todo' = todo
         /\ \A u \in Threads \ {t} : pc'[u] = pc[u] /\ loc'[u] = loc[u]
         /\ \A u \in Threads : loc'[u].target = loc[u].target
         /\ Dir' = Dir /\ Entries(Dir)' = Entries(Dir)
         /\ \A i \in Pointers : FDepth(i)' = FDepth(i)
         /\ \A F, i : Linked(F, i)' <=> Linked(F, i)
         /\ \A m, q, F : HomeOf(m, q, F)' <=> HomeOf(m, q, F)
         /\ \A c, F : Unlinked(c, F)' <=> Unlinked(c, F)
         /\ \A i : Closers(i)' = Closers(i)
         /\ \A u \in Threads : \A x, c : Pend(u, x, c)' <=> Pend(u, x, c)
         /\ \A x, a : Leads(x, a)' <=> Leads(x, a)
<1>0. /\ pc[t] = "i_split" /\ Acts(t, "i_dir", l) /\ UNCHANGED <<dirs, dir, todo, acked, races>>
      /\ l.target = loc[t].target /\ Pointers \subseteq Pointers' /\ \A i \in Pointers : Depth(i)' = Depth(i)
  BY DEF Splits
<1>1. /\ pc'[t] = "i_dir" /\ loc'[t] = l /\ INPLACE' = INPLACE
      /\ \A u \in Threads \ {t} : pc'[u] = pc[u] /\ loc'[u] = loc[u]
  <2>1. "i_dir" \in PCs
    BY DEF PCs
  <2> QED
    BY <1>0, <2>1, ActsOthers DEF Inv
<1>2. \A u \in Threads : loc'[u].target = loc[u].target
  BY <1>0, <1>1
<1>3. Dir' = Dir /\ Entries(Dir)' = Entries(Dir)
  BY <1>0 DEF Dir, Entries
<1>4. \A i \in Pointers : FDepth(i)' = FDepth(i)
  <2>1. \A i : Raised(i)' <=> Raised(i)
    <3>1. \A u \in Threads : pc'[u] \in PublishPCs <=> pc[u] \in PublishPCs
      BY <1>0, <1>1 DEF PublishPCs
    <3> QED
      BY <1>1, <1>2, <3>1 DEF Raised
  <2> QED
    BY <1>0, <2>1 DEF FDepth
<1>5. \A F, i : Linked(F, i)' <=> Linked(F, i)
  BY <1>3 DEF Linked
<1>6. \A m, q, F : HomeOf(m, q, F)' <=> HomeOf(m, q, F)
  BY <1>3 DEF HomeOf, Prefix
<1>7. \A c, F : Unlinked(c, F)' <=> Unlinked(c, F)
  BY <1>3 DEF Unlinked
<1>8. \A i : Closers(i)' = Closers(i)
  <2>1. \A u \in Threads : (pc'[u] = "i_wait" <=> pc[u] = "i_wait") /\ (pc'[u] \in SplitPCs <=> pc[u] \in SplitPCs)
    BY <1>0, <1>1 DEF SplitPCs
  <2> QED
    BY <1>2, <2>1 DEF Closers, Waiters, Splitters
<1>9. \A u \in Threads : \A x, c : Pend(u, x, c)' <=> Pend(u, x, c)
  <2> SUFFICES ASSUME NEW u \in Threads, NEW x, NEW c PROVE Pend(u, x, c)' <=> Pend(u, x, c)
    OBVIOUS
  <2>1. CASE u = t
    BY <1>0, <1>1, <2>1 DEF Pend
  <2>2. CASE u # t
    BY <1>1, <2>2 DEF Pend
  <2> QED
    BY <2>1, <2>2
<1>10. \A x, a : Leads(x, a)' <=> Leads(x, a)
  <2>1. \A v \in Threads : \A x, c : Pend(v, x, c) => c \in Pointers
    BY PendFacts
  <2> QED
    BY <1>0, <1>2, <1>9, <2>1 DEF Leads
<1> QED
  BY <1>0, <1>1, <1>2, <1>3, <1>4, <1>5, <1>6, <1>7, <1>8, <1>9, <1>10

\* The new halves are in nobody's hands.
LEMMA SplitApart ==
  ASSUME Inv, NEW t \in Threads, NEW d \in 0 .. HashBits, NEW l \in Locals, Splits(t, d, l), NEW F, Plan(F)
  PROVE  NewsApart' /\ NewsAt("i_dir", l, F)'
<1>1. /\ l.s[1] \in Pointers' /\ l.s[2] \in Pointers' \ Pointers /\ l.s[1] # l.s[2]
      /\ IF INPLACE THEN l.s[1] = l.target ELSE l.s[1] \notin Pointers
      /\ \A i \in Pointers' \ Pointers : Depth(i)' = d /\ segs'[i].sema = 0
      /\ pc[t] = "i_split" /\ l.target = loc[t].target /\ d = Depth(loc[t].target) + 1
      /\ \A i \in Pointers : Depth(i)' = Depth(i)
  BY DEF Splits
<1>2. /\ pc'[t] = "i_dir" /\ loc'[t] = l /\ INPLACE' = INPLACE
      /\ \A u \in Threads \ {t} : pc'[u] = pc[u] /\ loc'[u] = loc[u]
      /\ \A u \in Threads : loc'[u].target = loc[u].target
      /\ Dir' = Dir /\ Entries(Dir)' = Entries(Dir)
      /\ \A c : Unlinked(c, F)' <=> Unlinked(c, F)
  BY SplitsSame
<1>3. \A b \in News(l) : b \in Pointers' \ Pointers
  BY <1>1 DEF News
<1>4. \A u \in Threads : /\ loc[u].target \in Pointers \cup {0}
                         /\ pc[u] \in SharePCs => loc[u].s[1] \in Pointers /\ loc[u].s[2] \in Pointers
  BY OldPointers
<1>5. 0 \notin Pointers'
  BY DEF Pointers
<1>6. PendingPCs \subseteq SharePCs
  BY DEF PendingPCs
<1>7. NewsApart'
  <2> SUFFICES ASSUME NEW u \in Threads, pc'[u] \in PendingPCs, NEW b \in News(loc[u])', NEW v \in Threads
               PROVE  /\ loc'[v].target # b
                      /\ v # u /\ pc'[v] \in SharePCs => b \notin {loc'[v].s[1], loc'[v].s[2]}
    BY DEF NewsApart
  <2>1. CASE u = t
    <3>1. b \in Pointers' \ Pointers
      BY <1>2, <1>3, <2>1 DEF News
    <3> QED
      BY <1>2, <1>4, <1>5, <2>1, <3>1
  <2>2. CASE u # t
    <3>1. b \in News(loc[u]) /\ pc[u] \in PendingPCs
      BY <1>2, <2>2 DEF News
    <3>2. b \in Pointers
      BY <3>1 DEF Plan, PlanAt, NewsAt, NewHalf
    <3>3. /\ loc[v].target # b /\ loc[t].target # b
          /\ v # u /\ pc[v] \in SharePCs => b \notin {loc[v].s[1], loc[v].s[2]}
      BY <3>1 DEF Plan, NewsApart
    <3>4. b \notin {l.s[1], l.s[2]}
      BY <1>1, <3>2, <3>3
    <3> QED
      BY <1>2, <3>3, <3>4
  <2> QED
    BY <2>1, <2>2
<1>8. NewsAt("i_dir", l, F)'
  <2>1. PICK k \in Pointers : k = loc[t].target
    <3>1. pc[t] \notin NoTargetPCs
      BY <1>1 DEF NoTargetPCs
    <3> QED
      BY <3>1, OldPointers
  <2>2. /\ \A x \in Entries(Dir) : Dir.segment[x] \in Pointers
        /\ \A x \in Entries(Dir) : F[x] \in Pointers
    <3>1. \A x \in Entries(Dir) : Dir.segment[x] \in Pointers
      BY DirFacts DEF Inv
    <3> QED
      BY <3>1 DEF Plan, Shape
  <2>3. ASSUME NEW b \in News(l) PROVE NewHalf(b, l.target, F)'
    <3>1. b \in Pointers' \ Pointers
      BY <1>3, <2>3
    <3>2. Unlinked(b, F)'
      BY <1>2, <2>2, <3>1 DEF Unlinked
    <3>3. Depth(b)' = Depth(k)' + 1 /\ segs'[b].sema = 0 /\ l.target = k
      BY <1>1, <2>1, <3>1
    <3> QED
      BY <3>1, <3>2, <3>3 DEF NewHalf
  <2>4. News(l)' = News(l)
    BY <1>2 DEF News
  <2> QED
    BY <1>1, <1>2, <2>3, <2>4 DEF NewsAt
<1> QED
  BY <1>7, <1>8

\* Segment::Split.
LEMMA SplitPlan ==
  ASSUME Inv, NEW t \in Threads, scenario' = scenario, NEW F, Plan(F), Split(t)
  PROVE  Plan(F)'
<1>1. PICK d \in 0 .. HashBits, l \in Locals : Splits(t, d, l)
  BY SplitMoves
<1>2. /\ pc'[t] = "i_dir" /\ loc'[t] = l /\ INPLACE' = INPLACE /\ todo' = todo
      /\ \A u \in Threads \ {t} : pc'[u] = pc[u] /\ loc'[u] = loc[u]
      /\ \A u \in Threads : loc'[u].target = loc[u].target
      /\ Dir' = Dir /\ Entries(Dir)' = Entries(Dir)
      /\ \A i \in Pointers : FDepth(i)' = FDepth(i)
      /\ \A i : Linked(F, i)' <=> Linked(F, i)
      /\ \A m, q : HomeOf(m, q, F)' <=> HomeOf(m, q, F)
      /\ \A c : Unlinked(c, F)' <=> Unlinked(c, F)
      /\ \A i : Closers(i)' = Closers(i)
      /\ \A u \in Threads : \A x, c : Pend(u, x, c)' <=> Pend(u, x, c)
      /\ \A x, a : Leads(x, a)' <=> Leads(x, a)
  BY <1>1, SplitsSame
<1>3. /\ pc[t] = "i_split" /\ l.target = loc[t].target /\ l.depth = loc[t].depth /\ Pointers \subseteq Pointers'
      /\ \A i \in Pointers : Depth(i)' = Depth(i) /\ segs'[i].sema = segs[i].sema
  BY <1>1 DEF Splits
<1>4. /\ Shape(F) /\ NewsApart /\ Owned(F)
      /\ \A x \in Entries(Dir) : EntryPlan(x, F)
      /\ \A u \in Threads : PlanAt(pc[u], loc[u], todo[u], F)
  BY DEF Plan
<1>5. "i_split" \notin NoTargetPCs /\ "i_dir" \in SharePCs /\ "i_dir" \in PendingPCs /\ "i_dir" \notin NoTargetPCs
  BY DEF NoTargetPCs, SharePCs, PendingPCs
<1>6. Shape(F)'
  <2>1. F \in [Entries(Dir) -> Pointers] /\ Ranged(Dir.depth, F, FDepths)
    BY <1>4 DEF Shape
  <2>2. \A x \in Entries(Dir) : FDepths'[F[x]] = FDepths[F[x]]
    <3> SUFFICES ASSUME NEW i \in Pointers PROVE FDepths'[i] = FDepths[i]
      BY <2>1
    <3>1. FDepths[i] = FDepth(i) /\ FDepths'[i] = FDepth(i)'
      BY <1>3 DEF FDepths
    <3> QED
      BY <1>2, <3>1
  <2>3. Ranged(Dir.depth, F, FDepths')
    BY <2>1, <2>2 DEF Ranged, Entries
  <2>4. F \in [Entries(Dir) -> Pointers']
    BY <1>3, <2>1
  <2> QED
    BY <1>2, <2>3, <2>4 DEF Shape
<1>7. ASSUME NEW x \in Entries(Dir) PROVE EntryPlan(x, F)'
  <2>1. EntryPlan(x, F)
    BY <1>4
  <2>2. \A u \in Threads : \A c : Pend(u, x, c) => c \in Pointers
    BY PendFacts
  <2>3. (Dir.segment[x] = F[x] \/ Leads(x, Dir.segment[x]))'
    BY <1>2, <2>1 DEF EntryPlan
  <2>4. ASSUME NEW u \in Threads, NEW b \in Pointers', Pend(u, x, b)'
        PROVE  /\ b = F[x] \/ Leads(x, b)'
               /\ b # (Dir.segment)'[x] /\ loc'[u].target # F[x]
               /\ \A v \in Threads, c \in Pointers' : Pend(v, x, c)' /\ u # v => b # c
    <3>1. Pend(u, x, b) /\ b \in Pointers
      BY <1>2, <2>2, <2>4
    <3>2. /\ b = F[x] \/ Leads(x, b)
          /\ b # Dir.segment[x] /\ loc[u].target # F[x]
          /\ \A v \in Threads, c \in Pointers : Pend(v, x, c) /\ u # v => b # c
      BY <2>1, <3>1 DEF EntryPlan
    <3> QED
      BY <1>2, <2>2, <3>2
  <2> QED
    BY <2>3, <2>4 DEF EntryPlan
<1>8. NewsApart' /\ NewsAt("i_dir", l, F)'
  BY <1>1, SplitApart
<1>9. Owned(F)'
  <2>1. \A x \in Entries(Dir) : F[x] \in Pointers
    BY <1>4 DEF Shape
  <2> QED
    BY <1>2, <1>3, <1>4, <2>1 DEF Owned
<1>10. PICK q : q = todo[t]
  OBVIOUS
<1>11. PlanAt("i_dir", l, q, F)'
  <2>1. PICK k \in Pointers : k = loc[t].target
    BY <1>3, <1>5, OldPointers
  <2>2. OpenLinked(pc[t], loc[t], F) /\ HomeAt(pc[t], loc[t], q, F)
    BY <1>4, <1>10 DEF PlanAt
  <2>3. OpenLinked("i_dir", l, F)'
    BY <1>2, <1>3, <1>5, <2>1, <2>2 DEF OpenLinked
  <2>4. HomeAt("i_dir", l, q, F)'
    <3>1. loc[t].depth = Depth(k) /\ HomeOf(loc[t], q, F)
      BY <1>3, <2>1, <2>2 DEF HomeAt
    <3>2. HomeOf(l, q, F)
      BY <1>3, <3>1 DEF HomeOf
    <3> QED
      BY <1>2, <1>3, <2>1, <3>1, <3>2 DEF HomeAt
  <2>5. ClosedLinked("i_dir", l, F)' /\ DepthSeen("i_dir", l, q, F)' /\ Updates("i_dir", l, F)'
    BY DEF ClosedLinked, DepthSeen, Updates
  <2> QED
    BY <1>8, <2>3, <2>4, <2>5 DEF PlanAt
<1>12. \A u \in Threads : PlanAt(pc[u], loc[u], todo[u], F)'
  <2> SUFFICES ASSUME NEW u \in Threads PROVE PlanAt(pc[u], loc[u], todo[u], F)'
    OBVIOUS
  <2>1. CASE u = t
    BY <1>2, <1>10, <1>11, <2>1
  <2>2. CASE u # t
    <3>1. PICK pu, lu, qu : pu = pc[u] /\ lu = loc[u] /\ qu = todo[u]
      OBVIOUS
    <3>2. pc'[u] = pu /\ loc'[u] = lu /\ todo'[u] = qu /\ PlanAt(pu, lu, qu, F)
      BY <1>2, <1>4, <2>2, <3>1
    <3>3. PICK j : j = lu.target
      OBVIOUS
    <3>4. pu \notin NoTargetPCs => j \in Pointers
      BY <3>1, <3>3, OldPointers
    <3>5. pu \in PendingPCs => \A c \in News(lu) : NewHalf(c, j, F) => NewHalf(c, j, F)'
      <4>1. pu \in PendingPCs => pu \notin NoTargetPCs
        BY DEF PendingPCs, SharePCs, NoTargetPCs
      <4> QED
        BY <1>2, <1>3, <3>4, <4>1 DEF NewHalf
    <3>6. PlanAt(pu, lu, qu, F)'
      BY <1>2, <1>3, <3>2, <3>3, <3>4, <3>5, OtherPlan
    <3> QED
      BY <3>2, <3>6
  <2> QED
    BY <2>1, <2>2
<1>13. \A x \in Entries(Dir)' : EntryPlan(x, F)'
  BY <1>2, <1>7
<1> QED
  BY <1>6, <1>8, <1>9, <1>12, <1>13 DEF Plan

\* A thread with new halves: its target is closed, in nobody else's hands and
\* the home of its key.
LEMMA PendingFacts ==
  ASSUME Inv, races = {}, NEW F, Plan(F), NEW t \in Threads, pc[t] \in PendingPCs
  PROVE  /\ loc[t].target \in Pointers /\ segs[loc[t].target].sema < 0
         /\ pc[t] \in SplitPCs /\ pc[t] \in SharePCs /\ pc[t] \in ClosePCs /\ pc[t] \notin PublishPCs
         /\ \A u \in Threads : u # t /\ loc[u].target = loc[t].target => pc[u] \notin ClosePCs /\ ~HoldsAt(pc[u])
         /\ loc[t].depth = Depth(loc[t].target) /\ Depth(loc[t].target) \in Nat
         /\ Prefix(Key(t), Dir.depth) \in Entries(Dir) /\ F[Prefix(Key(t), Dir.depth)] = loc[t].target
         /\ loc[t].s[1] # loc[t].s[2] /\ (INPLACE => loc[t].s[1] = loc[t].target)
         /\ \A b \in News(loc[t]) : NewHalf(b, loc[t].target, F)
<1>1. pc[t] \in SplitPCs /\ pc[t] \in SharePCs /\ pc[t] \in ClosePCs /\ pc[t] \notin PublishPCs /\ pc[t] # "idle"
  BY DEF PendingPCs, SharePCs, SplitPCs, ClosePCs, PublishPCs
<1>2. PICK k \in Pointers : k = loc[t].target
  BY <1>1, SplitFacts
<1>3. t \in Splitters(k)
  BY <1>1, <1>2 DEF Splitters
<1>4. SegLock(k) /\ segs[k].sema \in Int
  BY SegFacts DEF Inv, SegLocks
<1>5. segs[k].sema < 0
  BY <1>3, <1>4 DEF SegLock, Closers
<1>6. \A u \in Threads : u # t /\ loc[u].target = k => pc[u] \notin ClosePCs /\ ~HoldsAt(pc[u])
  <2>1. Holders(k) = {} /\ \A u \in Closers(k) : u = t
    BY <1>3, <1>4 DEF SegLock, Closers
  <2> QED
    BY <2>1 DEF Holders, Closers, Waiters, Splitters, ClosePCs
<1>7. PlanAt(pc[t], loc[t], todo[t], F)
  BY DEF Plan
<1>8. loc[t].depth = Depth(k) /\ HomeOf(loc[t], todo[t], F)
  BY <1>1, <1>2, <1>7 DEF PlanAt, HomeAt
<1>9. /\ loc[t].s[1] # loc[t].s[2] /\ (INPLACE => loc[t].s[1] = k)
      /\ \A b \in News(loc[t]) : NewHalf(b, k, F)
  BY <1>2, <1>7 DEF PlanAt, NewsAt
<1>10. Prefix(Key(t), Dir.depth) \in Entries(Dir) /\ F[Prefix(Key(t), Dir.depth)] = k
  <2>1. Prefix(Key(t), Dir.depth) \in Entries(Dir)
    BY <1>1, Facts, SplitFacts
  <2> QED
    BY <1>2, <1>8, <2>1 DEF HomeOf, Key, Call
<1>11. Depth(k) \in Nat
  BY SegFacts DEF Inv
<1> QED
  BY <1>1, <1>2, <1>5, <1>6, <1>8, <1>9, <1>10, <1>11

\* Publishing a split gives its halves their depth.
LEMMA PublishDepths ==
  ASSUME Inv, races = {}, NEW F, Plan(F), NEW t \in Threads, pc[t] \in PendingPCs,
         NEW p \in PCs, NEW l \in Locals, Acts(t, p, l), segs' = segs,
         INPLACE => p \in PublishPCs /\ l.target = loc[t].target,
         NEW k, NEW a, NEW b, k = loc[t].target, a = loc[t].s[1], b = loc[t].s[2]
  PROVE  /\ Pointers' = Pointers /\ \A i : Depth(i)' = Depth(i)
         /\ \A i \in Pointers : i # k => FDepth(i)' = FDepth(i)
         /\ FDepth(k) = Depth(k) /\ FDepth(k)' = (IF INPLACE THEN Depth(k) + 1 ELSE Depth(k))
         /\ Deepened(Pointers, FDepths, k, Depth(k), a, b, FDepths')
         /\ Unused(Dir.depth, F, k, a, b)
         /\ a \in Pointers /\ b \in Pointers /\ b # k /\ (~INPLACE => a # k)
<1>1. /\ pc'[t] = p /\ loc'[t] = l /\ INPLACE' = INPLACE
      /\ \A u \in Threads \ {t} : pc'[u] = pc[u] /\ loc'[u] = loc[u]
  BY ActsOthers DEF Inv
<1>2. /\ k \in Pointers /\ pc[t] \notin PublishPCs /\ pc[t] \in SharePCs
      /\ \A u \in Threads : u # t /\ loc[u].target = k => pc[u] \notin ClosePCs
      /\ Depth(k) \in Nat
      /\ a # b /\ (INPLACE => a = k)
      /\ \A c \in News(loc[t]) : NewHalf(c, k, F)
  BY PendingFacts
<1>3. Pointers' = Pointers /\ \A i : Depth(i)' = Depth(i)
  BY DEF Pointers, Depth
<1>4. PublishPCs \subseteq ClosePCs
  BY DEF PublishPCs, ClosePCs, SplitPCs
<1>5. ~Raised(k) /\ (Raised(k)' <=> INPLACE)
  BY <1>1, <1>2, <1>4 DEF Raised
<1>6. \A i : i # k => (Raised(i)' <=> Raised(i))
  BY <1>1, <1>2 DEF Raised
<1>7. \A i \in Pointers : i # k => FDepth(i)' = FDepth(i)
  BY <1>3, <1>6 DEF FDepth
<1>8. FDepth(k) = Depth(k) /\ FDepth(k)' = (IF INPLACE THEN Depth(k) + 1 ELSE Depth(k))
  BY <1>3, <1>5 DEF FDepth
<1>9. ASSUME NEW c \in News(loc[t])
      PROVE  /\ c \in Pointers /\ c # k /\ FDepth(c) = Depth(k) + 1
             /\ \A x \in Entries(Dir) : F[x] # c
  <2>1. c \in Pointers /\ Depth(c) = Depth(k) + 1 /\ \A x \in Entries(Dir) : F[x] # c
    BY <1>2, <1>9 DEF NewHalf, Unlinked
  <2>2. \A u \in Threads : loc[u].target # c
    BY <1>9 DEF Plan, NewsApart
  <2>3. ~Raised(c)
    BY <2>2 DEF Raised
  <2> QED
    BY <2>1, <2>2, <2>3 DEF FDepth
<1>10. b \in News(loc[t]) /\ (~INPLACE => a \in News(loc[t]))
  BY DEF News
<1>11. Unused(Dir.depth, F, k, a, b)
  BY <1>2, <1>9, <1>10 DEF Unused, Entries
<1>12. Deepened(Pointers, FDepths, k, Depth(k), a, b, FDepths')
  <2>1. \A i \in Pointers : FDepth(i) \in Nat /\ FDepth(i)' \in Nat
    <3>1. \A i \in Pointers : Depth(i) \in Nat
      BY SegFacts DEF Inv
    <3> QED
      BY <1>3, <3>1 DEF FDepth
  <2>2. PICK D, E : D = FDepths /\ E = FDepths'
    OBVIOUS
  <2>3. D = [i \in Pointers |-> FDepth(i)] /\ E = [i \in Pointers |-> FDepth(i)']
    BY <1>3, <2>2 DEF FDepths
  <2>4. D \in [Pointers -> Nat] /\ E \in [Pointers -> Nat]
    BY <2>1, <2>3
  <2>5. a \in Pointers /\ b \in Pointers /\ b # k /\ FDepth(b)' = Depth(k) + 1 /\ FDepth(a)' = Depth(k) + 1
    <3>1. b \in Pointers /\ b # k /\ FDepth(b)' = Depth(k) + 1
      BY <1>7, <1>9, <1>10
    <3>2. CASE INPLACE
      BY <1>2, <1>8, <3>1, <3>2
    <3>3. CASE ~INPLACE
      <4>1. a \in Pointers /\ a # k /\ FDepth(a)' = Depth(k) + 1
        BY <1>7, <1>9, <1>10, <3>3
      <4> QED
        BY <3>1, <4>1
    <3> QED
      BY <3>2, <3>3
  <2>6. Deepened(Pointers, D, k, Depth(k), a, b, E)
    BY <1>2, <1>7, <1>8, <2>3, <2>4, <2>5 DEF Deepened
  <2> QED
    BY <2>2, <2>6
<1>13. a \in Pointers /\ b \in Pointers /\ b # k /\ (~INPLACE => a # k)
  BY <1>2, <1>9, <1>10
<1> QED
  BY <1>3, <1>7, <1>8, <1>11, <1>12, <1>13

\* What the others have stays true when the range of the target is divided.
LEMMA DivideOthers ==
  ASSUME Inv, races = {}, NEW F, NEW G, Plan(F), NEW t \in Threads, pc[t] \in PendingPCs,
         segs' = segs, INPLACE' = INPLACE, NEW k, k = loc[t].target,
         NEW u \in Threads, u # t, NEW p, NEW l, NEW q, p = pc[u], l = loc[u], q = todo[u],
         \A j \in Pointers : j # k => FDepth(j)' = FDepth(j),
         \A j \in Pointers : j # k /\ j \notin News(loc[t]) => (Linked(G, j)' <=> Linked(F, j)),
         p \notin NoTargetPCs /\ l.target # k /\ HomeOf(l, q, F) => HomeOf(l, q, G)',
         \A c : Unlinked(c, F) /\ c \notin {loc[t].s[1], loc[t].s[2]} => Unlinked(c, G)',
         Linked(G, k)' => FDepth(k)' = Depth(k) + 1
  PROVE  PlanAt(p, l, q, G)'
<1>1. /\ k \in Pointers /\ segs[k].sema < 0 /\ segs[k].sema \in Int /\ pc[t] \in SharePCs
      /\ l.target = k => p \notin ClosePCs /\ ~HoldsAt(p)
      /\ Depth(k) \in Nat
  <2>1. segs[k].sema \in Int
    BY PendingFacts, SegFacts DEF Inv
  <2> QED
    BY <2>1, PendingFacts
<1>2. PlanAt(p, l, q, F) /\ LocalAt(p, l, q) /\ l \in Locals
  BY Facts DEF Plan, Inv, LocalsOK
<1>3. Pointers' = Pointers /\ \A i : Depth(i)' = Depth(i)
  BY DEF Pointers, Depth
<1>4. PICK j : j = l.target
  OBVIOUS
<1>5. p \notin NoTargetPCs => j \in Pointers
  BY <1>2, <1>4 DEF LocalAt
<1>6. j \notin News(loc[t])
  BY <1>4 DEF Plan, NewsApart
<1>7. CASE p \in NoTargetPCs
  BY <1>7, FreshAt
<1>8. CASE p \notin NoTargetPCs /\ j # k
  <2>1. p \in PendingPCs => \A c \in News(l) : NewHalf(c, j, F) => NewHalf(c, j, G)'
    <3> SUFFICES ASSUME p \in PendingPCs, NEW c \in News(l), NewHalf(c, j, F) PROVE NewHalf(c, j, G)'
      OBVIOUS
    <3>1. c \notin {loc[t].s[1], loc[t].s[2]}
      BY <1>1 DEF Plan, NewsApart
    <3> QED
      BY <1>3, <3>1 DEF NewHalf
  <2> QED
    BY <1>2, <1>3, <1>4, <1>5, <1>6, <1>8, <2>1, OtherPlan
<1>9. CASE p \notin NoTargetPCs /\ j = k
  <2>1. /\ p \notin {"i_wait", "i_recheck", "i_finish", "i_split", "i_probe", "i_update"}
        /\ p \notin SharePCs /\ p \notin PendingPCs
    BY <1>1, <1>4, <1>9 DEF ClosePCs, SplitPCs, SharePCs, PendingPCs, HoldsAt, InsertPCs
  <2>2. OpenLinked(p, l, G)'
    BY <1>1, <1>4, <1>9 DEF OpenLinked
  <2>3. ClosedLinked(p, l, G)' /\ HomeAt(p, l, q, G)' /\ Updates(p, l, G)' /\ NewsAt(p, l, G)'
    BY <2>1 DEF ClosedLinked, HomeAt, Updates, NewsAt
  <2>4. DepthSeen(p, l, q, G)'
    <3> SUFFICES ASSUME p \in {"i_suspend", "i_wait", "i_recheck"}
                 PROVE  /\ l.depth <= Depth(k)' /\ (~INPLACE' => l.depth = Depth(k)')
                        /\ Linked(G, k)' /\ FDepth(k)' = l.depth => HomeOf(l, q, G)'
      BY <1>4, <1>9 DEF DepthSeen
    <3>1. l.depth <= Depth(k) /\ (~INPLACE => l.depth = Depth(k))
      BY <1>2, <1>4, <1>9 DEF PlanAt, DepthSeen
    <3>2. l.depth \in Nat
      <4>1. \A n \in 0 .. HashBits : n \in Nat
        OBVIOUS
      <4> QED
        BY <1>2, <4>1 DEF Locals
    <3>3. ~(Linked(G, k)' /\ FDepth(k)' = l.depth)
      BY <1>1, <3>1, <3>2
    <3> QED
      BY <1>3, <3>1, <3>3
  <2> QED
    BY <2>2, <2>3, <2>4 DEF PlanAt
<1> QED
  BY <1>7, <1>8, <1>9

\* Every range has a lower half.
LEMMA LowerHalf ==
  ASSUME NEW g \in Nat, NEW d \in Nat, d < g, NEW p \in 0 .. Pow2[g] - 1
  PROVE  \E x \in 0 .. Pow2[g] - 1 : /\ x \div Pow2[g - d] = p \div Pow2[g - d]
                                     /\ (x \div Pow2[g - d - 1]) % 2 = 0
<1>1. g - d \in Nat /\ g - d - 1 \in Nat /\ (g - d - 1) + 1 = g - d
  OBVIOUS
<1>2. PICK h \in Nat \ {0}, r \in Nat \ {0} : h = Pow2[g - d - 1] /\ r = Pow2[g - d] /\ r = h + h
  BY <1>1, Pow2Step
<1>3. PICK N \in Nat : N = Pow2[g]
  BY Pow2Step
<1>4. PICK q \in Nat, e \in 0 .. r - 1 : p \div r = q /\ p = r * q + e
  <2>1. p \in Nat
    BY <1>3
  <2> QED
    BY <2>1, DivMod
<1>5. PICK x \in Nat : x = r * q
  OBVIOUS
<1>6. x \in 0 .. N - 1 /\ Within(x, r * q, h)
  BY <1>3, <1>4, <1>5 DEF Within
<1>7. LowerOf(x, r, h, q)
  BY <1>2, <1>6, Halves
<1> QED
  BY <1>2, <1>3, <1>4, <1>6, <1>7 DEF LowerOf

\* lock() of the directory: the thread goes on with a list of stores.
Locking(t, l) ==
  /\ pc[t] = "i_dlock" /\ Acts(t, "i_update", l) /\ UNCHANGED <<segs, todo>>
  /\ l.target = loc[t].target /\ l.depth = loc[t].depth /\ l.s = loc[t].s
  /\ l.writes = EntryWrites(Prefix(Key(t), Dir.depth), Pow2[Dir.depth - loc[t].depth], loc[t].s)
  /\ (Dir.segment)' = Dir.segment /\ (Dir.depth)' = Dir.depth

\* That is what it does.
LEMMA LockDirMoves ==
  ASSUME Inv, NEW t \in Threads, scenario' = scenario, LockDir(t)
  PROVE  \E l \in Locals : Locking(t, l)
<1>1. PICK w : w = EntryWrites(Prefix(Key(t), Dir.depth), Pow2[Dir.depth - loc[t].depth], loc[t].s)
  OBVIOUS
<1>2. /\ pc[t] = "i_dlock" /\ UNCHANGED <<segs, dir, todo, acked, races>>
      /\ Goto(t, "i_update") /\ SetDirSema(Dir.sema + 1) /\ Put(t, "writes", w)
  BY <1>1 DEF LockDir
<1>3. pc[t] \in SplitPCs
  BY <1>2 DEF SplitPCs
<1>4. Typed /\ DirsOK /\ loc[t] \in Locals /\ todo[t] # <<>>
  BY <1>3, SplitFacts
<1>5. w \in Seq(Nat \X Nat)
  <2>1. PICK D \in Nat : D = Dir.depth
    BY <1>4, DirFacts
  <2>2. /\ loc[t].depth \in 0 .. D /\ Prefix(Key(t), D) \in 0 .. Pow2[D] - 1
        /\ loc[t].s \in Nat \X Nat /\ Pow2[D] \in Nat
    BY <1>4, <2>1, LocalSame, Facts, Pow2Step DEF Entries, Locals
  <2>3. w \in Seq((0 .. Pow2[D] - 1) \X {loc[t].s[1], loc[t].s[2]})
    BY <1>1, <2>1, <2>2, WritesInRange
  <2>4. (0 .. Pow2[D] - 1) \X {loc[t].s[1], loc[t].s[2]} \subseteq Nat \X Nat
    BY <2>2
  <2>5. \A S, T : S \subseteq T => \A q \in Seq(S) : q \in Seq(T)
    OBVIOUS
  <2> QED
    BY <2>3, <2>4, <2>5
<1>6. PICK l \in Locals : /\ Acts(t, "i_update", l) /\ l.target = loc[t].target
                          /\ l.depth = loc[t].depth /\ l.s = loc[t].s /\ l.writes = w
  BY <1>2, <1>5, PutWrites
<1>7. (Dir.segment)' = Dir.segment /\ (Dir.depth)' = Dir.depth
  <2>1. Dir.sema + 1 \in Int
    BY <1>4, DirFacts
  <2> QED
    BY <1>2, <2>1, DirSemaCalm
<1> QED
  BY <1>1, <1>2, <1>6, <1>7 DEF Locking

\* G is F with the entries of k given to the halves of thread t, which are then
\* of the depth that they are used at.
Divides(t, k, F, G) ==
  /\ G \in [Entries(Dir) -> Pointers] /\ Ranged(Dir.depth, G, FDepths')
  /\ \A x \in Entries(Dir) : G[x] = F[x] \/ (F[x] = k /\ G[x] \in News(loc[t]))
  /\ Linked(G, k) <=> INPLACE

\* The stores divide the range of the target: they are those of the entries
\* that change.
LEMMA LockDirDivides ==
  ASSUME Inv, races = {}, NEW t \in Threads, NEW l \in Locals, Locking(t, l), NEW F, Plan(F)
  PROVE  \E G : /\ Divides(t, loc[t].target, F, G) /\ OneEach(l.writes)
                /\ \A x \in Entries(Dir) : \A c : HasWrite(l.writes, x, c) <=> G[x] # F[x] /\ c = G[x]
<1>1. /\ pc[t] = "i_dlock" /\ Acts(t, "i_update", l) /\ segs' = segs /\ l.target = loc[t].target
      /\ l.writes = EntryWrites(Prefix(Key(t), Dir.depth), Pow2[Dir.depth - loc[t].depth], loc[t].s)
  BY DEF Locking
<1>2. pc[t] \in PendingPCs /\ "i_update" \in PublishPCs /\ "i_update" \in PCs
  BY <1>1 DEF PendingPCs, SharePCs, PublishPCs, PCs
<1>3. PICK k, a, b, p : k = loc[t].target /\ a = loc[t].s[1] /\ b = loc[t].s[2] /\ p = Prefix(Key(t), Dir.depth)
  OBVIOUS
<1>4. /\ k \in Pointers /\ loc[t].depth = Depth(k) /\ Depth(k) \in Nat
      /\ p \in Entries(Dir) /\ F[p] = k /\ (INPLACE => a = k)
  BY <1>2, <1>3, PendingFacts
<1>5. /\ FDepth(k) = Depth(k)
      /\ Deepened(Pointers, FDepths, k, Depth(k), a, b, FDepths')
      /\ Unused(Dir.depth, F, k, a, b)
      /\ a \in Pointers /\ b \in Pointers /\ b # k /\ (~INPLACE => a # k)
  BY <1>1, <1>2, <1>3, PublishDepths
<1>6. PICK g \in Nat, d \in Nat, N \in Nat : g = Dir.depth /\ d = Depth(k) /\ d < g /\ N = Pow2[g]
  <2>1. Dir.depth \in Nat
    BY DirFacts DEF Inv
  <2>2. Depth(k) < Dir.depth
    BY <1>1, <1>3, Facts DEF LocalAt
  <2>3. Pow2[Dir.depth] \in Nat
    BY <2>1, Pow2Step
  <2> QED
    BY <1>4, <2>1, <2>2, <2>3
<1>7. Entries(Dir) = 0 .. N - 1
  BY <1>6 DEF Entries
<1>8. PICK R, h : R = Pow2[g - d] /\ h = Pow2[g - d - 1]
  OBVIOUS
<1>9. PICK G : G = [x \in 0 .. N - 1 |-> IF F[x] # k THEN F[x] ELSE IF (x \div h) % 2 = 0 THEN a ELSE b]
  OBVIOUS
<1>10. Divided(g, F, k, d, a, b, G)
  BY <1>6, <1>8, <1>9 DEF Divided
<1>11. F \in [0 .. N - 1 -> Pointers] /\ Ranged(g, F, FDepths)
  BY <1>6, <1>7 DEF Plan, Shape
<1>12. Ranged(g, G, FDepths')
  <2>1. PICK D, E : D = FDepths /\ E = FDepths'
    OBVIOUS
  <2>2. Ranged(g, G, E)
    BY <1>4, <1>5, <1>6, <1>7, <1>10, <1>11, <2>1, RangeSplit
  <2> QED
    BY <2>1, <2>2
<1>13. \A x \in 0 .. N - 1 : x \div R = p \div R <=> F[x] = k
  <2>1. PICK D : D = FDepths /\ D[k] = d
    BY <1>4, <1>5, <1>6 DEF FDepths
  <2>2. \A x \in 0 .. N - 1 : p \div Pow2[g - D[F[p]]] = x \div Pow2[g - D[F[p]]] <=> F[p] = F[x]
    BY <1>4, <1>6, <1>7, <1>11, <2>1 DEF Ranged
  <2> QED
    BY <1>4, <1>8, <2>1, <2>2
<1>14. PICK W : /\ W = l.writes /\ OneEach(W)
                /\ \A x \in 0 .. N - 1 : \A c :
                     HasWrite(W, x, c) <=>
                       x \div R = p \div R /\ IF (x \div h) % 2 = 0 THEN ~INPLACE /\ c = a ELSE c = b
  <2>1. PICK W, s : W = l.writes /\ s = loc[t].s /\ s[1] = a /\ s[2] = b
    BY <1>3
  <2>2. W = EntryWrites(p, Pow2[g - d], s)
    BY <1>1, <1>3, <1>4, <1>6, <2>1
  <2>3. d < g /\ p \in 0 .. Pow2[g] - 1
    BY <1>4, <1>6, <1>7
  <2>4. WritesHalves(W, g, d, p, s)
    BY <2>2, <2>3, WritesContent
  <2>5. /\ OneEach(W)
        /\ \A x \in 0 .. Pow2[g] - 1 : \A c :
              HasWrite(W, x, c) <=>
                /\ x \div Pow2[g - d] = p \div Pow2[g - d]
                /\ IF (x \div Pow2[g - d - 1]) % 2 = 0 THEN ~INPLACE /\ c = s[1] ELSE c = s[2]
    BY <2>4, Zenon DEF WritesHalves
  <2> QED
    BY <1>6, <1>8, <2>1, <2>5
<1>15. \A x \in 0 .. N - 1 : \A c :
         HasWrite(l.writes, x, c) <=>
           x \div R = p \div R /\ IF (x \div h) % 2 = 0 THEN ~INPLACE /\ c = a ELSE c = b
  BY <1>14
<1>16. b # k /\ (~INPLACE => a # k) /\ a \in Pointers /\ b \in Pointers
  BY <1>5
<1>17. \A x \in 0 .. N - 1 : G[x] = IF F[x] # k THEN F[x] ELSE IF (x \div h) % 2 = 0 THEN a ELSE b
  BY <1>9
<1>18. \A x \in 0 .. N - 1 : \A c : HasWrite(l.writes, x, c) <=> G[x] # F[x] /\ c = G[x]
  BY <1>4, <1>13, <1>15, <1>16, <1>17
<1>19. \A x \in 0 .. N - 1 : G[x] = F[x] \/ (F[x] = k /\ G[x] \in News(loc[t]))
  BY <1>3, <1>4, <1>17 DEF News
<1>20. G \in [0 .. N - 1 -> Pointers]
  BY <1>9, <1>11, <1>16
<1>21. Linked(G, k) <=> INPLACE
  <2>1. ASSUME INPLACE PROVE \E x \in 0 .. N - 1 : G[x] = k
    <3>1. PICK x \in 0 .. N - 1 : x \div R = p \div R /\ (x \div h) % 2 = 0
      <4>1. d < g /\ p \in 0 .. Pow2[g] - 1
        BY <1>4, <1>6, <1>7
      <4>2. \E x \in 0 .. Pow2[g] - 1 : /\ x \div Pow2[g - d] = p \div Pow2[g - d]
                                         /\ (x \div Pow2[g - d - 1]) % 2 = 0
        BY <4>1, LowerHalf
      <4> QED
        BY <1>6, <1>8, <4>2
    <3>2. F[x] = k
      BY <1>13, <3>1
    <3> QED
      BY <1>4, <1>17, <2>1, <3>1, <3>2
  <2>2. ASSUME ~INPLACE, NEW x \in 0 .. N - 1 PROVE G[x] # k
    BY <1>16, <1>17, <2>2
  <2> QED
    BY <1>7, <2>1, <2>2 DEF Linked
<1>22. Divides(t, k, F, G)
  BY <1>6, <1>7, <1>12, <1>19, <1>20, <1>21 DEF Divides
<1> QED
  BY <1>3, <1>7, <1>14, <1>18, <1>22

\* What lock() of the directory leaves as it is.
LEMMA LockingSame ==
  ASSUME Inv, races = {}, NEW t \in Threads, NEW l \in Locals, Locking(t, l), NEW F, Plan(F)
  PROVE  /\ pc'[t] = "i_update" /\ loc'[t] = l /\ INPLACE' = INPLACE /\ Pointers' = Pointers /\ todo' = todo
         /\ Entries(Dir)' = Entries(Dir) /\ pc[t] \in PendingPCs
         /\ \A u \in Threads \ {t} : pc'[u] = pc[u] /\ loc'[u] = loc[u]
         /\ \A u \in Threads : loc'[u].target = loc[u].target
         /\ \A i : Depth(i)' = Depth(i) /\ Closers(i)' = Closers(i)
         /\ \A i \in Pointers : i # loc[t].target => FDepth(i)' = FDepth(i)
         /\ FDepth(loc[t].target)' = IF INPLACE THEN Depth(loc[t].target) + 1 ELSE Depth(loc[t].target)
<1>1. /\ pc[t] = "i_dlock" /\ Acts(t, "i_update", l) /\ segs' = segs /\ todo' = todo
      /\ l.target = loc[t].target /\ (Dir.depth)' = Dir.depth
  BY DEF Locking
<1>2. pc[t] \in PendingPCs /\ "i_update" \in PublishPCs /\ "i_update" \in PCs /\ "i_dlock" \in SplitPCs /\ "i_update" \in SplitPCs
  BY <1>1 DEF PendingPCs, SharePCs, PublishPCs, PCs, SplitPCs
<1>3. /\ pc'[t] = "i_update" /\ loc'[t] = l /\ INPLACE' = INPLACE
      /\ \A u \in Threads \ {t} : pc'[u] = pc[u] /\ loc'[u] = loc[u]
  BY <1>1, <1>2, ActsOthers DEF Inv
<1>4. \A u \in Threads : loc'[u].target = loc[u].target
  BY <1>1, <1>3
<1>5. PICK k, a, b : k = loc[t].target /\ a = loc[t].s[1] /\ b = loc[t].s[2]
  OBVIOUS
<1>6. /\ Pointers' = Pointers /\ \A i : Depth(i)' = Depth(i)
      /\ \A i \in Pointers : i # k => FDepth(i)' = FDepth(i)
      /\ FDepth(k)' = (IF INPLACE THEN Depth(k) + 1 ELSE Depth(k))
  BY <1>1, <1>2, <1>5, PublishDepths
<1>7. Entries(Dir)' = Entries(Dir)
  BY <1>1 DEF Entries
<1>8. \A i : Closers(i)' = Closers(i)
  <2>1. \A u \in Threads : (pc'[u] = "i_wait" <=> pc[u] = "i_wait") /\ (pc'[u] \in SplitPCs <=> pc[u] \in SplitPCs)
    BY <1>1, <1>2, <1>3
  <2> QED
    BY <1>4, <2>1 DEF Closers, Waiters, Splitters
<1> QED
  BY <1>1, <1>2, <1>3, <1>4, <1>5, <1>6, <1>7, <1>8

\* The stores that are added extend the chains.
LEMMA LockingEntries ==
  ASSUME Inv, races = {}, NEW t \in Threads, NEW l \in Locals, Locking(t, l), NEW F, NEW G, Plan(F),
         Divides(t, loc[t].target, F, G), NEW x \in Entries(Dir),
         \A c : HasWrite(l.writes, x, c) <=> G[x] # F[x] /\ c = G[x]
  PROVE  EntryPlan(x, G)'
<1>1. /\ pc'[t] = "i_update" /\ loc'[t] = l /\ Pointers' = Pointers /\ pc[t] \in PendingPCs
      /\ \A u \in Threads \ {t} : pc'[u] = pc[u] /\ loc'[u] = loc[u]
      /\ \A u \in Threads : loc'[u].target = loc[u].target
  BY LockingSame
<1>2. pc[t] = "i_dlock" /\ (Dir.segment)' = Dir.segment
  BY DEF Locking
<1>3. PICK k : k = loc[t].target
  OBVIOUS
<1>4. /\ G[x] = F[x] \/ (F[x] = k /\ G[x] \in News(loc[t]))
      /\ G[x] \in Pointers
  BY <1>3 DEF Divides
<1>5. /\ \A u \in Threads : \A c : u # t => (Pend(u, x, c)' <=> Pend(u, x, c))
      /\ \A c : ~Pend(t, x, c)
      /\ \A c : Pend(t, x, c)' <=> G[x] # F[x] /\ c = G[x]
  <2>1. \A u \in Threads : \A c : u # t => (Pend(u, x, c)' <=> Pend(u, x, c))
    BY <1>1 DEF Pend
  <2>2. \A c : ~Pend(t, x, c)
    BY <1>2 DEF Pend
  <2>3. \A c : Pend(t, x, c)' <=> HasWrite(l.writes, x, c)
    BY <1>1 DEF Pend
  <2> QED
    BY <2>1, <2>2, <2>3
<1>6. /\ \A c \in News(loc[t]) : c # Dir.segment[x] /\ \A v \in Threads : loc[v].target # c
      /\ \A c \in News(loc[t]) : \A v \in Threads : v # t /\ pc[v] \in SharePCs => c \notin {loc[v].s[1], loc[v].s[2]}
  <2>1. \A c \in News(loc[t]) : NewHalf(c, loc[t].target, F)
    BY <1>1, PendingFacts
  <2>2. \A c \in News(loc[t]) : c # Dir.segment[x]
    BY <2>1 DEF NewHalf, Unlinked
  <2> QED
    BY <1>1, <2>2 DEF Plan, NewsApart
<1>7. EntryPlan(x, F)
  BY DEF Plan
<1>8. \A a : Leads(x, a) => Leads(x, a)'
  <2> SUFFICES ASSUME NEW a, Leads(x, a) PROVE Leads(x, a)'
    OBVIOUS
  <2>1. PICK v \in Threads, c \in Pointers : Pend(v, x, c) /\ loc[v].target = a
    BY DEF Leads
  <2>2. Pend(v, x, c)' /\ loc'[v].target = a
    BY <1>1, <1>5, <2>1
  <2> QED
    BY <1>1, <2>2 DEF Leads
<1>9. G[x] # F[x] => Leads(x, k)'
  <2>1. loc'[t].target = k
    BY <1>1, <1>3
  <2>2. G[x] # F[x] => Pend(t, x, G[x])' /\ G[x] \in Pointers'
    BY <1>1, <1>4, <1>5
  <2> QED
    BY <2>1, <2>2 DEF Leads
<1>10. (Dir.segment[x] = G[x] \/ Leads(x, Dir.segment[x]))'
  <2>1. (Dir.segment)'[x] = G[x] \/ Leads(x, Dir.segment[x])'
    <3>1. Dir.segment[x] = F[x] \/ Leads(x, Dir.segment[x])
      BY <1>7 DEF EntryPlan
    <3>2. PICK c : c = Dir.segment[x]
      OBVIOUS
    <3>3. (Dir.segment)'[x] = c
      BY <1>2, <3>2
    <3>4. c = G[x] \/ Leads(x, c)'
      BY <1>4, <1>8, <1>9, <3>1, <3>2
    <3> QED
      BY <3>3, <3>4
  <2> QED
    BY <2>1
<1>11. ASSUME NEW u \in Threads, NEW b \in Pointers, Pend(u, x, b)'
       PROVE  /\ b = G[x] \/ Leads(x, b)'
              /\ b # (Dir.segment)'[x] /\ loc'[u].target # G[x]
              /\ \A v \in Threads, c \in Pointers : Pend(v, x, c)' /\ u # v => b # c
  <2>1. \A v \in Threads : \A c : Pend(v, x, c) => pc[v] \in SharePCs /\ c \in {loc[v].s[1], loc[v].s[2]} /\ v # t
    <3>1. "i_update" \in SharePCs
      BY DEF SharePCs
    <3> QED
      BY <1>5, <3>1, PendFacts
  <2>2. CASE u # t
    <3>1. Pend(u, x, b)
      BY <1>5, <1>11, <2>2
    <3>2. /\ b = F[x] \/ Leads(x, b)
          /\ b # Dir.segment[x] /\ loc[u].target # F[x]
          /\ \A v \in Threads, c \in Pointers : Pend(v, x, c) /\ u # v => b # c
      BY <1>7, <3>1 DEF EntryPlan
    <3>3. b = G[x] \/ Leads(x, b)'
      BY <1>4, <1>8, <1>9, <3>2
    <3>4. loc'[u].target # G[x]
      BY <1>1, <1>4, <1>6, <3>2
    <3>5. \A v \in Threads, c \in Pointers : Pend(v, x, c)' /\ u # v => b # c
      <4> SUFFICES ASSUME NEW v \in Threads, NEW c \in Pointers, Pend(v, x, c)', u # v PROVE b # c
        OBVIOUS
      <4>1. CASE v = t
        <5>1. c \in News(loc[t])
          BY <1>4, <1>5, <4>1
        <5> QED
          BY <1>6, <2>1, <3>1, <5>1
      <4>2. CASE v # t
        BY <1>5, <3>2, <4>2
      <4> QED
        BY <4>1, <4>2
    <3> QED
      BY <1>2, <3>2, <3>3, <3>4, <3>5
  <2>3. CASE u = t
    <3>1. b = G[x] /\ b \in News(loc[t])
      BY <1>4, <1>5, <1>11, <2>3
    <3>2. \A v \in Threads, c \in Pointers : Pend(v, x, c)' /\ u # v => b # c
      <4> SUFFICES ASSUME NEW v \in Threads, NEW c \in Pointers, Pend(v, x, c)', u # v PROVE b # c
        OBVIOUS
      <4>1. Pend(v, x, c)
        BY <1>5, <2>3
      <4> QED
        BY <1>6, <2>1, <3>1, <4>1
    <3> QED
      BY <1>1, <1>2, <1>6, <3>1, <3>2
  <2> QED
    BY <2>2, <2>3
<1>12. \A u \in Threads, b \in Pointers : Pend(u, x, b)' =>
         /\ b = G[x] \/ Leads(x, b)'
         /\ b # (Dir.segment)'[x] /\ loc'[u].target # G[x]
         /\ \A v \in Threads, c \in Pointers : Pend(v, x, c)' /\ u # v => b # c
  BY <1>11
<1> QED
  BY <1>1, <1>10, <1>12 DEF EntryPlan

\* A segment that is neither divided nor new stays in use or out of it.
LEMMA DividesLinked ==
  ASSUME NEW t, NEW k, NEW F, NEW G, Divides(t, k, F, G), NEW j, j # k, j \notin News(loc[t])
  PROVE  Linked(G, j) <=> Linked(F, j)
<1>1. \A x \in Entries(Dir) : G[x] = F[x] \/ (F[x] = k /\ G[x] \in News(loc[t]))
  BY DEF Divides
<1> QED
  BY <1>1 DEF Linked

\* lock() of the directory.
LEMMA LockDirPlan ==
  ASSUME Inv, races = {}, NEW t \in Threads, scenario' = scenario, NEW F, Plan(F), LockDir(t)
  PROVE  \E G : Plan(G)'
<1>1. PICK l \in Locals : Locking(t, l)
  BY LockDirMoves
<1>2. PICK G : /\ Divides(t, loc[t].target, F, G) /\ OneEach(l.writes)
               /\ \A x \in Entries(Dir) : \A c : HasWrite(l.writes, x, c) <=> G[x] # F[x] /\ c = G[x]
  BY <1>1, LockDirDivides
<1>3. PICK k \in Pointers : k = loc[t].target
  BY <1>1, LockingSame, PendingFacts
<1>4. /\ pc'[t] = "i_update" /\ loc'[t] = l /\ INPLACE' = INPLACE /\ Pointers' = Pointers /\ todo' = todo
      /\ Entries(Dir)' = Entries(Dir) /\ pc[t] \in PendingPCs
      /\ \A u \in Threads \ {t} : pc'[u] = pc[u] /\ loc'[u] = loc[u]
      /\ \A i : Depth(i)' = Depth(i) /\ Closers(i)' = Closers(i)
      /\ \A i \in Pointers : i # k => FDepth(i)' = FDepth(i)
      /\ FDepth(k)' = IF INPLACE THEN Depth(k) + 1 ELSE Depth(k)
  BY <1>1, <1>3, LockingSame
<1>5. /\ pc[t] = "i_dlock" /\ Acts(t, "i_update", l) /\ segs' = segs /\ l.target = k /\ l.depth = loc[t].depth
      /\ l.s = loc[t].s /\ (Dir.segment)' = Dir.segment /\ (Dir.depth)' = Dir.depth
  BY <1>1, <1>3 DEF Locking
<1>6. /\ G \in [Entries(Dir) -> Pointers] /\ Ranged(Dir.depth, G, FDepths')
      /\ \A x \in Entries(Dir) : G[x] = F[x] \/ (F[x] = k /\ G[x] \in News(loc[t]))
      /\ Linked(G, k) <=> INPLACE
  BY <1>2, <1>3 DEF Divides
<1>7. \A H, j : Linked(H, j)' <=> Linked(H, j)
  BY <1>4 DEF Linked
<1>8. /\ segs[k].sema < 0 /\ segs[k].sema \in Int /\ loc[t].depth = Depth(k)
      /\ \A c \in News(loc[t]) : NewHalf(c, k, F)
  <2>1. segs[k].sema \in Int
    BY SegFacts DEF Inv
  <2> QED
    BY <1>3, <1>4, <2>1, PendingFacts
<1>9. "i_update" \in SharePCs /\ "i_update" \notin PendingPCs /\ "i_dlock" \in SharePCs
      /\ "i_update" \in PCs /\ "i_update" \notin NoTargetPCs
  BY DEF SharePCs, PendingPCs, PCs, NoTargetPCs
<1>10. Shape(G)'
  BY <1>4, <1>5, <1>6 DEF Shape
<1>11. \A x \in Entries(Dir)' : EntryPlan(x, G)'
  <2>1. ASSUME NEW x \in Entries(Dir) PROVE EntryPlan(x, G)'
    <3>1. \A c : HasWrite(l.writes, x, c) <=> G[x] # F[x] /\ c = G[x]
      BY <1>2
    <3> QED
      BY <1>1, <1>2, <3>1, LockingEntries
  <2> QED
    BY <1>4, <2>1
<1>12. NewsApart'
  BY <1>3, <1>5, <1>9, CalmApart DEF Plan
<1>13. Owned(G)'
  <2> SUFFICES ASSUME NEW x \in Entries(Dir), segs[G[x]].sema < 0 PROVE Closers(G[x])' # {}
    BY <1>4, <1>5 DEF Owned
  <2>1. CASE G[x] = F[x]
    BY <1>4, <2>1 DEF Plan, Owned
  <2>2. CASE G[x] \in News(loc[t])
    <3>1. segs[G[x]].sema = 0
      BY <1>8, <2>2 DEF NewHalf
    <3> QED
      BY <3>1
  <2> QED
    BY <1>6, <2>1, <2>2
<1>14. PICK q : q = todo[t]
  OBVIOUS
<1>15. PlanAt("i_update", l, q, G)'
  <2>1. OpenLinked("i_update", l, G)'
    BY <1>5, <1>8 DEF OpenLinked
  <2>2. HomeAt("i_update", l, q, G)'
    BY <1>4, <1>5, <1>8, <1>9 DEF HomeAt
  <2>3. Updates("i_update", l, G)'
    BY <1>2, <1>4, <1>5, <1>6, <1>7 DEF Updates
  <2>4. ClosedLinked("i_update", l, G)' /\ DepthSeen("i_update", l, q, G)' /\ NewsAt("i_update", l, G)'
    BY <1>9 DEF ClosedLinked, DepthSeen, NewsAt
  <2> QED
    BY <2>1, <2>2, <2>3, <2>4 DEF PlanAt
<1>16. \A u \in Threads : PlanAt(pc[u], loc[u], todo[u], G)'
  <2> SUFFICES ASSUME NEW u \in Threads PROVE PlanAt(pc[u], loc[u], todo[u], G)'
    OBVIOUS
  <2>1. CASE u = t
    BY <1>4, <1>14, <1>15, <2>1
  <2>2. CASE u # t
    <3>1. PICK pu, lu, qu : pu = pc[u] /\ lu = loc[u] /\ qu = todo[u]
      OBVIOUS
    <3>2. pc'[u] = pu /\ loc'[u] = lu /\ todo'[u] = qu
      BY <1>4, <2>2, <3>1
    <3>3. \A j \in Pointers : j # k /\ j \notin News(loc[t]) => (Linked(G, j)' <=> Linked(F, j))
      BY <1>2, <1>3, <1>7, DividesLinked
    <3>4. pu \notin NoTargetPCs /\ lu.target # k /\ HomeOf(lu, qu, F) => HomeOf(lu, qu, G)'
      <4> SUFFICES ASSUME pu \notin NoTargetPCs, lu.target # k, HomeOf(lu, qu, F) PROVE HomeOf(lu, qu, G)'
        OBVIOUS
      <4>1. PICK x : x = Prefix(Head(qu).key, Dir.depth)
        OBVIOUS
      <4>2. x \in Entries(Dir)
        <5>1. "idle" \in NoTargetPCs
          BY DEF NoTargetPCs
        <5>2. todo[u] # <<>>
          BY <3>1, <5>1, Facts DEF LocalAt
        <5> QED
          BY <3>1, <4>1, <5>2, Facts DEF Key, Call
      <4>3. F[x] = lu.target
        BY <4>1 DEF HomeOf
      <4>4. G[x] = lu.target
        BY <1>6, <4>2, <4>3
      <4> QED
        BY <1>5, <4>1, <4>4 DEF HomeOf, Prefix
    <3>5. \A c : Unlinked(c, F) /\ c \notin {loc[t].s[1], loc[t].s[2]} => Unlinked(c, G)'
      <4>1. \A c \in News(loc[t]) : c \in {loc[t].s[1], loc[t].s[2]}
        BY DEF News
      <4> QED
        BY <1>4, <1>5, <1>6, <4>1 DEF Unlinked
    <3>6. Linked(G, k)' => FDepth(k)' = Depth(k) + 1
      BY <1>4, <1>6, <1>7
    <3>7. PlanAt(pu, lu, qu, G)'
      BY <1>3, <1>4, <1>5, <2>2, <3>1, <3>3, <3>4, <3>5, <3>6, DivideOthers
    <3> QED
      BY <3>2, <3>7
  <2> QED
    BY <2>1, <2>2
<1> QED
  BY <1>10, <1>11, <1>12, <1>13, <1>16 DEF Plan

\* A segment of the directory's own depth has one entry.
OneEntry(g, F, i, x) == \A y \in 0 .. Pow2[g] - 1 : F[y] = i <=> y = x

LEMMA OwnEntry ==
  ASSUME NEW g \in Nat, NEW F, NEW D, NEW i, NEW p \in 0 .. Pow2[g] - 1, Ranged(g, F, D), F[p] = i, D[i] = g
  PROVE  OneEntry(g, F, i, p)
<1>1. g - g = 0 /\ Pow2[0] = 1 /\ Pow2[g] \in Nat
  BY Pow2Step
<1>2. \A x \in 0 .. Pow2[g] - 1 : p \div Pow2[g - D[F[p]]] = x \div Pow2[g - D[F[p]]] <=> F[p] = F[x]
  BY DEF Ranged
<1>3. \A x \in 0 .. Pow2[g] - 1 : p \div 1 = x \div 1 <=> F[p] = F[x]
  BY <1>1, <1>2
<1>4. \A x \in 0 .. Pow2[g] - 1 : x \div 1 = x
  BY <1>1
<1> QED
  BY <1>3, <1>4 DEF OneEntry

\* One bit more of the hash.
LEMMA PrefixStep ==
  ASSUME NEW k \in Keys, NEW g \in Nat, g < HashBits
  PROVE  Prefix(k, g + 1) \div 2 = Prefix(k, g) /\ Prefix(k, g + 1) \in 0 .. Pow2[g + 1] - 1
<1>1. HashBits \in Nat /\ Hash \in [KeyWords -> 0 .. Pow2[HashBits] - 1] /\ k \in KeyWords
  BY CCEHAssumption DEF KeyWords
<1>2. PICK H \in Nat : H = Hash[k] /\ H \in 0 .. Pow2[HashBits] - 1
  <2>1. Pow2[HashBits] \in Nat
    BY <1>1, Pow2Step
  <2> QED
    BY <1>1, <2>1
<1>3. HashBits - (g + 1) \in Nat /\ HashBits - g = (HashBits - (g + 1)) + 1
  BY <1>1
<1>4. PICK m \in Nat \ {0} : m = Pow2[HashBits - (g + 1)] /\ Pow2[HashBits - g] = 2 * m
  BY <1>3, Pow2Step
<1>5. (H \div m) \div 2 = H \div (2 * m)
  <2>1. PICK d \in Nat \ {0} : d = 2 * m
    OBVIOUS
  <2>2. (H \div m) \div 2 = H \div d
    BY <2>1, DivTwice
  <2> QED
    BY <2>1, <2>2
<1>6. Prefix(k, g + 1) \in 0 .. Pow2[g + 1] - 1
  <2>1. PICK d \in Nat, h \in Nat : d = g + 1 /\ h = HashBits /\ d <= h
    BY <1>1
  <2>2. Pow2[h] = Pow2[d] * Pow2[h - d] /\ Pow2[d] \in Nat /\ Pow2[h] \in Nat
    BY <2>1, Pow2Diff, Pow2Step
  <2>3. h - d \in Nat
    BY <2>1
  <2>4. Pow2[h - d] \in Nat \ {0}
    BY <2>3, Pow2Step
  <2>5. Hash[k] \in Nat /\ Hash[k] < Pow2[d] * Pow2[h - d]
    BY <1>2, <2>1, <2>2
  <2>6. Hash[k] \div Pow2[h - d] \in 0 .. Pow2[d] - 1
    BY <2>2, <2>4, <2>5, DivBound
  <2> QED
    BY <2>1, <2>6 DEF Prefix
<1> QED
  BY <1>2, <1>4, <1>5, <1>6 DEF Prefix

\* The doubling: entry x of the directory becomes two, for the halves of t; it
\* goes on to p with the locals l.
Doubling(t, p, l, x) ==
  /\ pc[t] = "i_double" /\ Acts(t, p, l) /\ UNCHANGED <<segs, todo>>
  /\ \/ p = "i_finish" /\ l = loc[t] /\ INPLACE
     \/ p = "i_depth" /\ l.target = 0 /\ ~INPLACE
  /\ x = Prefix(Key(t), Dir.depth) /\ Dir.depth < HashBits /\ Depth(loc[t].target) = Dir.depth
  /\ Updaters = {} /\ (Dir.depth)' = Dir.depth + 1
  /\ (Dir.segment)' = [n \in 0 .. Pow2[Dir.depth + 1] - 1 |->
                         IF n \div 2 = x THEN loc[t].s[(n % 2) + 1] ELSE Dir.segment[n \div 2]]

\* That is what it does while the target is as deep as the directory.
LEMMA DoubleDirMoves ==
  ASSUME Inv, races = {}, races' = {}, NEW t \in Threads, scenario' = scenario, DoubleDir(t)
  PROVE  \E p \in {"i_finish", "i_depth"}, l \in Locals : \E x : Doubling(t, p, l, x)
<1>1. /\ pc[t] = "i_double" /\ UNCHANGED <<segs, todo, acked>> /\ Dir.depth < HashBits
      /\ Published(t) /\ dir' = Len(dirs) + 1
      /\ dirs' = Append(dirs, Doubled(Dir, Prefix(Key(t), Dir.depth), loc[t].s))
      /\ races' = races \cup (IF Cur(t).local_depth = Dir.depth THEN {} ELSE {"skew"})
  BY DEF DoubleDir
<1>2. PICK p \in {"i_finish", "i_depth"}, l \in Locals :
           /\ Acts(t, p, l)
           /\ \/ p = "i_finish" /\ l = loc[t] /\ INPLACE
              \/ p = "i_depth" /\ l.target = 0 /\ ~INPLACE
  BY <1>1, PublishedMoves
<1>3. PICK x : x = Prefix(Key(t), Dir.depth)
  OBVIOUS
<1>4. PICK e : e = Doubled(Dir, x, loc[t].s)
  OBVIOUS
<1>5. /\ e.depth = Dir.depth + 1
      /\ e.segment = [n \in 0 .. Pow2[Dir.depth + 1] - 1 |->
                         IF n \div 2 = x THEN loc[t].s[(n % 2) + 1] ELSE Dir.segment[n \div 2]]
  BY <1>4 DEF Doubled
<1>6. Dir' = e
  <2>1. dirs \in Seq(Directory) /\ dirs' = Append(dirs, e)
    BY <1>1, <1>3, <1>4 DEF Inv, Typed
  <2>2. dirs'[Len(dirs) + 1] = e
    BY <2>1
  <2> QED
    BY <1>1, <2>2 DEF Dir
<1>7. Depth(loc[t].target) = Dir.depth
  BY <1>1 DEF Cur, Depth
<1>8. Updaters = {}
  BY <1>1 DEF Inv, DirLock
<1>9. /\ (Dir.depth)' = Dir.depth + 1
      /\ (Dir.segment)' = [n \in 0 .. Pow2[Dir.depth + 1] - 1 |->
                             IF n \div 2 = x THEN loc[t].s[(n % 2) + 1] ELSE Dir.segment[n \div 2]]
  BY <1>5, <1>6
<1>10. /\ pc[t] = "i_double" /\ Acts(t, p, l) /\ UNCHANGED <<segs, todo>> /\ Dir.depth < HashBits
       /\ \/ p = "i_finish" /\ l = loc[t] /\ INPLACE
          \/ p = "i_depth" /\ l.target = 0 /\ ~INPLACE
  BY <1>1, <1>2
<1>11. Doubling(t, p, l, x)
  BY <1>3, <1>7, <1>8, <1>9, <1>10 DEF Doubling
<1> QED
  BY <1>11

\* While the directory is doubled no store is under way.
LEMMA DoublingQuiet ==
  ASSUME Inv, NEW t \in Threads, NEW p \in {"i_finish", "i_depth"}, NEW l \in Locals, NEW x, Doubling(t, p, l, x),
         NEW F, Plan(F)
  PROVE  /\ \A y \in Entries(Dir) : Dir.segment[y] = F[y]
         /\ \A u \in Threads : pc'[u] # "i_update"
<1>1. \A u \in Threads : pc[u] # "i_update"
  BY DEF Doubling, Updaters
<1>2. \A y, c : ~Leads(y, c)
  BY <1>1 DEF Leads, Pend
<1>3. \A y \in Entries(Dir) : Dir.segment[y] = F[y]
  BY <1>2 DEF Plan, EntryPlan
<1>4. p \in PCs /\ p # "i_update"
  BY DEF PCs
<1>5. pc'[t] = p /\ \A u \in Threads \ {t} : pc'[u] = pc[u]
  BY <1>4, ActsOthers DEF Doubling, Inv
<1> QED
  BY <1>1, <1>3, <1>4, <1>5

\* G is the directory F with each entry twice, entry x's for a and b.
Twice(g, x, k, a, b, F, G) ==
  /\ x \in 0 .. Pow2[g] - 1 /\ \A y \in 0 .. Pow2[g] - 1 : F[y] = k <=> y = x
  /\ \A n \in 0 .. Pow2[g + 1] - 1 : n \div 2 \in 0 .. Pow2[g] - 1
  /\ \A n \in 0 .. Pow2[g + 1] - 1 :
       G[n] = IF n \div 2 # x THEN F[n \div 2] ELSE IF n % 2 = 0 THEN a ELSE b

LEMMA DoublingTwice ==
  ASSUME Inv, races = {}, NEW t \in Threads, NEW p \in {"i_finish", "i_depth"}, NEW l \in Locals, NEW x,
         Doubling(t, p, l, x), NEW F, Plan(F), NEW g \in Nat, g = Dir.depth, NEW G, G = (Dir.segment)'
  PROVE  Twice(g, x, loc[t].target, loc[t].s[1], loc[t].s[2], F, G)
<1>1. "i_double" \in PendingPCs /\ "i_double" \in SharePCs
  BY DEF PendingPCs, SharePCs
<1>2. pc[t] = "i_double" /\ x = Prefix(Key(t), g) /\ Depth(loc[t].target) = g
  BY DEF Doubling
<1>3. PICK k \in Pointers : k = loc[t].target
  BY <1>1, <1>2, PendingFacts
<1>4. x \in 0 .. Pow2[g] - 1 /\ F[x] = k
  BY <1>1, <1>2, <1>3, PendingFacts DEF Entries
<1>5. PICK D : D = FDepths
  OBVIOUS
<1>6. Ranged(g, F, D)
  BY <1>5 DEF Plan, Shape
<1>7. D[k] = g
  <2>1. t \in Threads /\ ~Raised(k)
    <3>1. \A u \in Threads : u # t /\ loc[u].target = k => pc[u] \notin ClosePCs
      BY <1>1, <1>2, <1>3, PendingFacts
    <3>2. PublishPCs \subseteq ClosePCs /\ "i_double" \notin PublishPCs
      BY DEF PublishPCs, ClosePCs, SplitPCs
    <3> QED
      BY <1>2, <3>1, <3>2 DEF Raised
  <2>2. FDepth(k) = g
    BY <1>2, <1>3, <2>1 DEF FDepth
  <2> QED
    BY <1>3, <1>4, <1>5, <2>2 DEF FDepths
<1>8. OneEntry(g, F, k, x)
  BY <1>4, <1>6, <1>7, OwnEntry
<1>9. PICK N \in Nat : N = Pow2[g] /\ Pow2[g + 1] = 2 * N
  BY Pow2Step
<1>10. \A n \in 0 .. Pow2[g + 1] - 1 : n \div 2 \in 0 .. Pow2[g] - 1
  BY <1>9
<1>11. G = [n \in 0 .. Pow2[g + 1] - 1 |-> IF n \div 2 = x THEN loc[t].s[(n % 2) + 1] ELSE Dir.segment[n \div 2]]
  BY DEF Doubling
<1>12. \A n \in 0 .. Pow2[g + 1] - 1 : n % 2 \in {0, 1}
  BY <1>9
<1>13. \A y \in 0 .. Pow2[g] - 1 : Dir.segment[y] = F[y]
  BY DoublingQuiet DEF Entries
<1>14. ASSUME NEW n \in 0 .. Pow2[g + 1] - 1
       PROVE  G[n] = IF n \div 2 # x THEN F[n \div 2] ELSE IF n % 2 = 0 THEN loc[t].s[1] ELSE loc[t].s[2]
  <2>1. G[n] = IF n \div 2 = x THEN loc[t].s[(n % 2) + 1] ELSE Dir.segment[n \div 2]
    BY <1>11
  <2>2. Dir.segment[n \div 2] = F[n \div 2]
    BY <1>10, <1>13
  <2>3. (n % 2 = 0 /\ (n % 2) + 1 = 1) \/ (n % 2 # 0 /\ (n % 2) + 1 = 2)
    BY <1>12
  <2>4. loc[t].s[(n % 2) + 1] = IF n % 2 = 0 THEN loc[t].s[1] ELSE loc[t].s[2]
    BY <2>3
  <2> QED
    BY <2>1, <2>2, <2>4
<1> QED
  BY <1>3, <1>4, <1>8, <1>10, <1>14 DEF Twice, OneEntry

\* Which segments it uses.
TwiceIn(E, H, k, a, b, F, G) ==
  /\ \A n \in H : (n \div 2 \in E /\ F[n \div 2] # k /\ G[n] = F[n \div 2]) \/ (G[n] = a \/ G[n] = b)
  /\ \A y \in E : F[y] # k => \E n \in H : G[n] = F[y]
  /\ \E n \in H : G[n] = a

LEMMA TwiceUses ==
  ASSUME NEW g \in Nat, NEW x, NEW k, NEW a, NEW b, NEW F, NEW G, Twice(g, x, k, a, b, F, G),
         NEW E, NEW H, E = 0 .. Pow2[g] - 1, H = 0 .. Pow2[g + 1] - 1
  PROVE  TwiceIn(E, H, k, a, b, F, G)
<1>1. PICK N \in Nat : N = Pow2[g] /\ Pow2[g + 1] = 2 * N
  BY Pow2Step
<1>2. \A y \in E : 2 * y \in H /\ (2 * y) \div 2 = y /\ (2 * y) % 2 = 0
  BY <1>1
<1>3. \A n \in H : n \div 2 \in E
  BY <1>1
<1>4. x \in E /\ \A y \in E : F[y] = k <=> y = x
  BY DEF Twice
<1>5. \A n \in H : G[n] = IF n \div 2 # x THEN F[n \div 2] ELSE IF n % 2 = 0 THEN a ELSE b
  BY DEF Twice
<1>6. \A y \in E : y # x => G[2 * y] = F[y]
  BY <1>2, <1>5
<1>7. G[2 * x] = a
  BY <1>2, <1>4, <1>5
<1>8. \A n \in H : (n \div 2 \in E /\ F[n \div 2] # k /\ G[n] = F[n \div 2]) \/ (G[n] = a \/ G[n] = b)
  BY <1>3, <1>4, <1>5
<1>9. \A y \in E : F[y] # k => \E n \in H : G[n] = F[y]
  BY <1>2, <1>4, <1>6
<1>10. \E n \in H : G[n] = a
  BY <1>2, <1>4, <1>7
<1> QED
  BY <1>8, <1>9, <1>10 DEF TwiceIn

\* What the doubling leaves as it is, and the depths it makes.
LEMMA DoublingSame ==
  ASSUME Inv, races = {}, NEW t \in Threads, NEW p \in {"i_finish", "i_depth"}, NEW l \in Locals, NEW x,
         Doubling(t, p, l, x), NEW F, Plan(F),
         NEW k, NEW a, NEW b, k = loc[t].target, a = loc[t].s[1], b = loc[t].s[2]
  PROVE  /\ p \in PCs /\ pc[t] = "i_double" /\ pc[t] \in PendingPCs /\ pc[t] \in SharePCs
         /\ pc'[t] = p /\ loc'[t] = l /\ INPLACE' = INPLACE /\ Pointers' = Pointers /\ todo' = todo /\ segs' = segs
         /\ \A u \in Threads \ {t} : pc'[u] = pc[u] /\ loc'[u] = loc[u]
         /\ \A i : Depth(i)' = Depth(i)
         /\ \A i \in Pointers : i # k => FDepth(i)' = FDepth(i)
         /\ FDepth(k)' = (IF INPLACE THEN Depth(k) + 1 ELSE Depth(k))
         /\ Deepened(Pointers, FDepths, k, Depth(k), a, b, FDepths')
         /\ Unused(Dir.depth, F, k, a, b)
         /\ a \in Pointers /\ b \in Pointers /\ b # k /\ (INPLACE => a = k) /\ (~INPLACE => a # k)
         /\ k \in Pointers /\ segs[k].sema < 0 /\ Depth(k) = Dir.depth
         /\ \A c \in News(loc[t]) : NewHalf(c, k, F)
<1>1. /\ pc[t] = "i_double" /\ Acts(t, p, l) /\ segs' = segs /\ todo' = todo /\ Depth(k) = Dir.depth
      /\ \/ p = "i_finish" /\ l = loc[t] /\ INPLACE
         \/ p = "i_depth" /\ l.target = 0 /\ ~INPLACE
  BY DEF Doubling
<1>2. pc[t] \in PendingPCs /\ pc[t] \in SharePCs /\ p \in PCs /\ "i_finish" \in PublishPCs
  BY <1>1 DEF PendingPCs, SharePCs, PublishPCs, PCs
<1>3. /\ pc'[t] = p /\ loc'[t] = l /\ INPLACE' = INPLACE
      /\ \A u \in Threads \ {t} : pc'[u] = pc[u] /\ loc'[u] = loc[u]
  BY <1>1, <1>2, ActsOthers DEF Inv
<1>4. INPLACE => p \in PublishPCs /\ l.target = loc[t].target
  BY <1>1, <1>2
<1>5. /\ Pointers' = Pointers /\ \A i : Depth(i)' = Depth(i)
      /\ \A i \in Pointers : i # k => FDepth(i)' = FDepth(i)
      /\ FDepth(k)' = (IF INPLACE THEN Depth(k) + 1 ELSE Depth(k))
      /\ Deepened(Pointers, FDepths, k, Depth(k), a, b, FDepths')
      /\ Unused(Dir.depth, F, k, a, b)
      /\ a \in Pointers /\ b \in Pointers /\ b # k /\ (~INPLACE => a # k)
  BY <1>1, <1>2, <1>4, PublishDepths
<1>6. /\ k \in Pointers /\ segs[k].sema < 0 /\ (INPLACE => a = k)
      /\ \A c \in News(loc[t]) : NewHalf(c, k, F)
  BY <1>2, PendingFacts
<1> QED
  BY <1>1, <1>2, <1>3, <1>5, <1>6

\* The doubled directory has the shape of one.
LEMMA DoublingShape ==
  ASSUME Inv, races = {}, NEW t \in Threads, NEW p \in {"i_finish", "i_depth"}, NEW l \in Locals, NEW x,
         Doubling(t, p, l, x), NEW F, Plan(F), NEW G, G = (Dir.segment)'
  PROVE  Shape(G)' /\ Entries(Dir)' = 0 .. Pow2[Dir.depth + 1] - 1 /\ Dir.depth \in Nat
<1>1. PICK g \in Nat : g = Dir.depth
  BY DirFacts DEF Inv
<1>2. PICK k, a, b : k = loc[t].target /\ a = loc[t].s[1] /\ b = loc[t].s[2]
  OBVIOUS
<1>3. Twice(g, x, k, a, b, F, G)
  BY <1>1, <1>2, DoublingTwice
<1>4. PICK P, D, E : P = Pointers /\ D = FDepths /\ E = FDepths'
  OBVIOUS
<1>5. Deepened(P, D, k, g, a, b, E) /\ Unused(g, F, k, a, b) /\ P = Pointers' /\ a \in P /\ b \in P
  BY <1>1, <1>2, <1>4, DoublingSame
<1>6. F \in [0 .. Pow2[g] - 1 -> P] /\ Ranged(g, F, D)
  BY <1>1, <1>4 DEF Plan, Shape, Entries
<1>7. (Dir.depth)' = g + 1 /\ DOMAIN G = 0 .. Pow2[g + 1] - 1 /\ G = [n \in 0 .. Pow2[g + 1] - 1 |-> G[n]]
  BY <1>1 DEF Doubling
<1>8. G \in [0 .. Pow2[g + 1] - 1 -> P]
  <2>1. \A n \in 0 .. Pow2[g + 1] - 1 : G[n] \in P
    BY <1>3, <1>5, <1>6 DEF Twice
  <2> QED
    BY <1>7, <2>1
<1>9. Ranged(g + 1, G, E)
  <2>1. x \in 0 .. Pow2[g] - 1 /\ F[x] = k
    BY <1>3 DEF Twice
  <2>2. \A n \in 0 .. Pow2[g + 1] - 1 :
          G[n] = IF n \div 2 # x THEN F[n \div 2] ELSE IF n % 2 = 0 THEN a ELSE b
    BY <1>3 DEF Twice
  <2> HIDE DEF Twice
  <2> QED
    BY <1>5, <1>6, <2>1, <2>2, RangeDouble
<1>10. Entries(Dir)' = 0 .. Pow2[g + 1] - 1
  BY <1>7 DEF Entries
<1>11. Shape(G)'
  BY <1>4, <1>5, <1>7, <1>8, <1>9, <1>10 DEF Shape
<1> QED
  BY <1>1, <1>10, <1>11

\* The keys of other segments stay where they are.
LEMMA DoublingHome ==
  ASSUME Inv, races = {}, NEW t \in Threads, NEW p \in {"i_finish", "i_depth"}, NEW l \in Locals, NEW x,
         Doubling(t, p, l, x), NEW F, Plan(F), NEW G, G = (Dir.segment)',
         NEW u \in Threads, NEW pu, NEW lu, NEW qu, pu = pc[u], lu = loc[u], qu = todo[u],
         pu \notin NoTargetPCs, lu.target # loc[t].target, HomeOf(lu, qu, F)
  PROVE  HomeOf(lu, qu, G)'
<1>1. PICK g \in Nat : g = Dir.depth /\ g < HashBits /\ (Dir.depth)' = g + 1
  <2>1. Dir.depth \in Nat
    BY DirFacts DEF Inv
  <2> QED
    BY <2>1 DEF Doubling
<1>2. Twice(g, x, loc[t].target, loc[t].s[1], loc[t].s[2], F, G)
  BY <1>1, DoublingTwice
<1>3. PICK key \in Keys : key = Head(qu).key
  <2>1. "idle" \in NoTargetPCs
    BY DEF NoTargetPCs
  <2>2. todo[u] # <<>>
    BY <2>1, Facts DEF LocalAt
  <2> QED
    BY <2>2, Facts DEF Key, Call
<1>4. PICK n : n = Prefix(key, g + 1)
  OBVIOUS
<1>5. n \div 2 = Prefix(key, g) /\ n \in 0 .. Pow2[g + 1] - 1
  BY <1>1, <1>4, PrefixStep
<1>6. F[n \div 2] = lu.target
  BY <1>1, <1>3, <1>5 DEF HomeOf
<1>7. G[n] = lu.target
  BY <1>2, <1>5, <1>6 DEF Twice
<1> QED
  BY <1>1, <1>3, <1>4, <1>7 DEF HomeOf, Prefix

\* The doubling of the directory.
LEMMA DoubleDirPlan ==
  ASSUME Inv, races = {}, races' = {}, NEW t \in Threads, scenario' = scenario, NEW F, Plan(F), DoubleDir(t)
  PROVE  \E G : Plan(G)'
<1>0. PICK p \in {"i_finish", "i_depth"}, l \in Locals : \E x : Doubling(t, p, l, x)
  BY DoubleDirMoves
<1>1. PICK x : Doubling(t, p, l, x)
  BY <1>0
<1>2. PICK G : G = (Dir.segment)'
  OBVIOUS
<1>3. Shape(G)' /\ Entries(Dir)' = 0 .. Pow2[Dir.depth + 1] - 1 /\ Dir.depth \in Nat
  BY <1>1, <1>2, DoublingShape
<1>4. PICK k, a, b : k = loc[t].target /\ a = loc[t].s[1] /\ b = loc[t].s[2]
  OBVIOUS
<1>5. /\ p \in PCs /\ pc[t] \in PendingPCs /\ pc[t] \in SharePCs
      /\ pc'[t] = p /\ loc'[t] = l /\ INPLACE' = INPLACE /\ Pointers' = Pointers /\ todo' = todo /\ segs' = segs
      /\ \A u \in Threads \ {t} : pc'[u] = pc[u] /\ loc'[u] = loc[u]
      /\ \A i : Depth(i)' = Depth(i)
      /\ \A i \in Pointers : i # k => FDepth(i)' = FDepth(i)
      /\ FDepth(k)' = (IF INPLACE THEN Depth(k) + 1 ELSE Depth(k))
      /\ b # k /\ (INPLACE => a = k) /\ (~INPLACE => a # k)
      /\ k \in Pointers /\ segs[k].sema < 0
      /\ \A c \in News(loc[t]) : NewHalf(c, k, F)
  BY <1>1, <1>4, DoublingSame
<1>6. /\ Acts(t, p, l)
      /\ \/ p = "i_finish" /\ l = loc[t] /\ INPLACE
         \/ p = "i_depth" /\ l.target = 0 /\ ~INPLACE
  BY <1>1 DEF Doubling
<1>7. /\ "i_finish" \notin SharePCs /\ "i_depth" \notin SharePCs /\ "i_depth" \in NoTargetPCs
      /\ "i_finish" \notin NoTargetPCs /\ "i_finish" \in SplitPCs /\ "i_finish" \notin PendingPCs
      /\ "i_depth" \notin PendingPCs
  BY DEF SharePCs, NoTargetPCs, SplitPCs, PendingPCs
<1>8. PICK E, H : E = Entries(Dir) /\ H = Entries(Dir)'
  OBVIOUS
<1>9. /\ \A n \in H : (n \div 2 \in E /\ F[n \div 2] # k /\ G[n] = F[n \div 2]) \/ (G[n] = a \/ G[n] = b)
      /\ \A y \in E : F[y] # k => \E n \in H : G[n] = F[y]
      /\ \E n \in H : G[n] = a
  <2>1. PICK g \in Nat : g = Dir.depth
    BY <1>3
  <2>2. Twice(g, x, k, a, b, F, G)
    BY <1>1, <1>2, <1>4, <2>1, DoublingTwice
  <2>3. E = 0 .. Pow2[g] - 1 /\ H = 0 .. Pow2[g + 1] - 1
    BY <1>3, <1>8, <2>1 DEF Entries
  <2>4. TwiceIn(E, H, k, a, b, F, G)
    BY <2>2, <2>3, TwiceUses
  <2> QED
    BY <2>4 DEF TwiceIn
<1>10. \A c : (Linked(F, c) <=> \E y \in E : F[y] = c) /\ (Linked(G, c)' <=> \E n \in H : G[n] = c)
  BY <1>8 DEF Linked
<1>11. \A c \in News(loc[t]) : c \in {a, b} /\ segs[c].sema = 0
  BY <1>4, <1>5 DEF News, NewHalf
<1>12. b \in News(loc[t]) /\ (a \in News(loc[t]) \/ (INPLACE /\ a = k))
  BY <1>4, <1>5 DEF News
<1>13. \A y \in Entries(Dir)' : EntryPlan(y, G)'
  <2>1. \A u \in Threads : pc'[u] # "i_update"
    BY <1>1, DoublingQuiet
  <2> QED
    BY <1>2, <2>1 DEF EntryPlan, Pend
<1>14. NewsApart'
  BY <1>4, <1>5, <1>6, <1>7, CalmApart DEF Plan
<1>15. \A c : c # k /\ Closers(c) # {} => Closers(c)' # {}
  <2>1. \A c : Closers(c) = {u \in Threads : loc[u].target = c /\ pc[u] \in ClosePCs}
    BY DEF Closers, Waiters, Splitters, ClosePCs
  <2>2. \A c : Closers(c)' = {u \in Threads : loc'[u].target = c /\ pc'[u] \in ClosePCs}
    BY DEF Closers, Waiters, Splitters, ClosePCs
  <2> QED
    BY <1>4, <1>5, <2>1, <2>2
<1>16. Owned(G)'
  <2> SUFFICES ASSUME NEW n \in H, segs[G[n]].sema < 0 PROVE Closers(G[n])' # {}
    BY <1>5, <1>8 DEF Owned
  <2>1. CASE n \div 2 \in E /\ F[n \div 2] # k /\ G[n] = F[n \div 2]
    <3>1. Closers(F[n \div 2]) # {}
      BY <1>8, <2>1 DEF Plan, Owned
    <3> QED
      BY <1>15, <2>1, <3>1
  <2>2. CASE G[n] \in News(loc[t])
    BY <1>11, <2>2
  <2>3. CASE G[n] = k /\ INPLACE
    <3>1. pc'[t] \in SplitPCs /\ loc'[t].target = k
      BY <1>4, <1>5, <1>6, <1>7, <2>3
    <3> QED
      BY <2>3, <3>1 DEF Closers, Splitters
  <2> QED
    BY <1>9, <1>12, <2>1, <2>2, <2>3
<1>17. PICK q : q = todo[t]
  OBVIOUS
<1>18. PlanAt(p, l, q, G)'
  <2>1. CASE p = "i_depth"
    BY <1>7, <2>1, FreshAt
  <2>2. CASE p = "i_finish" /\ l = loc[t] /\ INPLACE
    <3>1. OpenLinked(p, l, G)'
      <4>1. segs[k].sema \in Int /\ l.target = k
        BY <1>4, <1>5, <2>2, SegFacts DEF Inv
      <4> QED
        BY <1>5, <4>1 DEF OpenLinked
    <3>2. ClosedLinked(p, l, G)'
      BY <1>4, <1>5, <1>9, <1>10, <2>2 DEF ClosedLinked
    <3>3. DepthSeen(p, l, q, G)' /\ HomeAt(p, l, q, G)' /\ Updates(p, l, G)' /\ NewsAt(p, l, G)'
      BY <1>7, <2>2 DEF DepthSeen, HomeAt, Updates, NewsAt
    <3> QED
      BY <3>1, <3>2, <3>3 DEF PlanAt
  <2> QED
    BY <1>6, <2>1, <2>2
<1>19. \A u \in Threads : PlanAt(pc[u], loc[u], todo[u], G)'
  <2> SUFFICES ASSUME NEW u \in Threads PROVE PlanAt(pc[u], loc[u], todo[u], G)'
    OBVIOUS
  <2>1. CASE u = t
    BY <1>5, <1>17, <1>18, <2>1
  <2>2. CASE u # t
    <3>1. PICK pu, lu, qu : pu = pc[u] /\ lu = loc[u] /\ qu = todo[u]
      OBVIOUS
    <3>2. pc'[u] = pu /\ loc'[u] = lu /\ todo'[u] = qu
      BY <1>5, <2>2, <3>1
    <3>3. \A j \in Pointers : j # k /\ j \notin News(loc[t]) => (Linked(G, j)' <=> Linked(F, j))
      BY <1>9, <1>10, <1>12
    <3>4. pu \notin NoTargetPCs /\ lu.target # k /\ HomeOf(lu, qu, F) => HomeOf(lu, qu, G)'
      BY <1>1, <1>2, <1>4, <3>1, DoublingHome
    <3>5. \A c : Unlinked(c, F) /\ c \notin {loc[t].s[1], loc[t].s[2]} => Unlinked(c, G)'
      <4>1. \A c : Unlinked(c, F) => \A y \in E : F[y] # c
        BY <1>8 DEF Unlinked
      <4>2. \A c : Unlinked(c, G)' <=> \A n \in H : G[n] # c
        BY <1>2, <1>8 DEF Unlinked
      <4> QED
        BY <1>4, <1>9, <4>1, <4>2
    <3>6. Linked(G, k)' => FDepth(k)' = Depth(k) + 1
      <4>1. ~INPLACE => \A n \in H : G[n] # k
        BY <1>5, <1>9
      <4> QED
        BY <1>5, <1>10, <4>1
    <3>7. PlanAt(pu, lu, qu, G)'
      BY <1>4, <1>5, <2>2, <3>1, <3>3, <3>4, <3>5, <3>6, DivideOthers
    <3> QED
      BY <3>2, <3>7
  <2> QED
    BY <2>1, <2>2
<1> QED
  BY <1>3, <1>13, <1>14, <1>16, <1>19 DEF Plan

\* The end of an in-place split: k's depth is raised, k is opened.
Finishing(t, l, k) ==
  /\ pc[t] = "i_finish" /\ Acts(t, "i_depth", l) /\ l.target = 0 /\ k = loc[t].target
  /\ (Dir.segment)' = Dir.segment /\ (Dir.depth)' = Dir.depth /\ todo' = todo
  /\ Len(segs') = Len(segs) /\ segs'[k].sema = 0 /\ Depth(k)' = Depth(k) + 1
  /\ \A i \in Pointers \ {k} : Depth(i)' = Depth(i) /\ segs'[i].sema = segs[i].sema

\* That is what it does, with the segment in nobody else's hands.
LEMMA FinishMoves ==
  ASSUME Inv, races = {}, NEW t \in Threads, scenario' = scenario, FinishSplit(t)
  PROVE  /\ INPLACE /\ loc[t].target \in Pointers /\ Depth(loc[t].target) \in Nat
         /\ \A u \in Threads : u # t /\ loc[u].target = loc[t].target => pc[u] \notin ClosePCs /\ ~HoldsAt(pc[u])
         /\ \E l \in Locals : Finishing(t, l, loc[t].target)
<1>1. /\ pc[t] = "i_finish" /\ UNCHANGED <<dirs, dir, todo, acked, races>> /\ Retry(t, "i_depth")
      /\ segs' = [segs EXCEPT ![loc[t].target].local_depth = @ + 1, ![loc[t].target].sema = 0]
  BY DEF FinishSplit
<1>2. pc[t] \in SplitPCs
  BY <1>1 DEF SplitPCs
<1>3. PICK k \in Pointers : k = loc[t].target
  BY <1>2, SplitFacts
<1>4. INPLACE
  <2>1. LocalAt(pc[t], loc[t], todo[t])
    BY DEF Inv, LocalsOK
  <2> QED
    BY <1>1, <2>1 DEF LocalAt
<1>5. \A u \in Threads : u # t /\ loc[u].target = k => pc[u] \notin ClosePCs /\ ~HoldsAt(pc[u])
  <2>1. SegLock(k) /\ t \in Splitters(k)
    BY <1>2, <1>3 DEF Inv, SegLocks, Splitters
  <2>2. Holders(k) = {} /\ \A u \in Closers(k) : u = t
    BY <2>1 DEF SegLock, Closers
  <2> QED
    BY <2>2 DEF Holders, Closers, Waiters, Splitters, ClosePCs
<1>6. segs \in Seq(Segment) /\ segs[k] \in Segment /\ Depth(k) \in Nat
  BY SegFacts DEF Inv, Typed
<1>7. PICK d : d = [segs[k] EXCEPT !.local_depth = Depth(k) + 1, !.sema = 0]
  OBVIOUS
<1>8. d.sema = 0 /\ d.local_depth = Depth(k) + 1
  BY <1>6, <1>7 DEF Segment
<1>9. segs' = [segs EXCEPT ![k] = d]
  BY <1>1, <1>3, <1>6, <1>7 DEF Depth, Pointers
<1>10. Len(segs') = Len(segs) /\ segs'[k] = d /\ \A i \in Pointers \ {k} : segs'[i] = segs[i]
  BY <1>6, <1>9 DEF Pointers
<1>11. /\ segs'[k].sema = 0 /\ Depth(k)' = Depth(k) + 1
       /\ \A i \in Pointers \ {k} : Depth(i)' = Depth(i) /\ segs'[i].sema = segs[i].sema
  BY <1>8, <1>10 DEF Depth
<1>12. PICK l \in Locals : l.target = 0 /\ Acts(t, "i_depth", l)
  BY <1>1, FreshMoves
<1>13. Finishing(t, l, k)
  BY <1>1, <1>3, <1>10, <1>11, <1>12 DEF Finishing, Dir
<1> QED
  BY <1>3, <1>4, <1>5, <1>6, <1>13

\* The depths that the segments are used at stay.
LEMMA FinishDepths ==
  ASSUME Inv, NEW t \in Threads, NEW l \in Locals, NEW k \in Pointers, Finishing(t, l, k), INPLACE, Depth(k) \in Nat,
         \A u \in Threads : u # t /\ loc[u].target = k => pc[u] \notin ClosePCs
  PROVE  /\ Pointers' = Pointers /\ \A i \in Pointers : FDepth(i)' = FDepth(i)
         /\ FDepth(k) = Depth(k) + 1 /\ FDepths' = FDepths
<1>1. /\ "i_depth" \in PCs /\ "i_depth" \notin PublishPCs /\ "i_finish" \in PublishPCs
      /\ PublishPCs \subseteq ClosePCs
  BY DEF PCs, PublishPCs, ClosePCs, SplitPCs
<1>2. pc[t] = "i_finish" /\ Acts(t, "i_depth", l) /\ k = loc[t].target /\ Len(segs') = Len(segs)
  BY DEF Finishing
<1>3. /\ pc'[t] = "i_depth" /\ loc'[t] = l /\ INPLACE' = INPLACE
      /\ \A u \in Threads \ {t} : pc'[u] = pc[u] /\ loc'[u] = loc[u]
  BY <1>1, <1>2, ActsOthers DEF Inv
<1>4. Raised(k) /\ ~Raised(k)'
  BY <1>1, <1>2, <1>3 DEF Raised
<1>5. \A i : i # k => (Raised(i)' <=> Raised(i))
  BY <1>1, <1>2, <1>3 DEF Raised
<1>6. Pointers' = Pointers
  BY <1>2 DEF Pointers
<1>7. FDepth(k) = Depth(k) + 1 /\ FDepth(k)' = Depth(k) + 1
  BY <1>4 DEF FDepth, Finishing
<1>8. \A i \in Pointers : FDepth(i)' = FDepth(i)
  <2> SUFFICES ASSUME NEW i \in Pointers PROVE FDepth(i)' = FDepth(i)
    OBVIOUS
  <2>1. CASE i = k
    BY <1>7, <2>1
  <2>2. CASE i # k
    BY <1>5, <2>2 DEF FDepth, Finishing
  <2> QED
    BY <2>1, <2>2
<1> QED
  BY <1>6, <1>7, <1>8 DEF FDepths

\* sema = 0 and local_depth++: the directory that is led to stays.
LEMMA FinishSplitPlan ==
  ASSUME Inv, races = {}, NEW t \in Threads, scenario' = scenario, NEW F, Plan(F), FinishSplit(t)
  PROVE  Plan(F)'
<1>1. PICK k \in Pointers : k = loc[t].target
  BY FinishMoves
<1>2. /\ INPLACE /\ Depth(k) \in Nat
      /\ \A u \in Threads : u # t /\ loc[u].target = k => pc[u] \notin ClosePCs /\ ~HoldsAt(pc[u])
  BY <1>1, FinishMoves
<1>3. PICK l \in Locals : Finishing(t, l, k)
  BY <1>1, FinishMoves
<1>4. /\ pc[t] = "i_finish" /\ Acts(t, "i_depth", l) /\ l.target = 0
      /\ (Dir.segment)' = Dir.segment /\ (Dir.depth)' = Dir.depth /\ todo' = todo
      /\ segs'[k].sema = 0 /\ Depth(k)' = Depth(k) + 1
      /\ \A i \in Pointers \ {k} : Depth(i)' = Depth(i) /\ segs'[i].sema = segs[i].sema
  BY <1>3 DEF Finishing
<1>5. /\ Pointers' = Pointers /\ \A i \in Pointers : FDepth(i)' = FDepth(i)
      /\ FDepth(k) = Depth(k) + 1 /\ FDepths' = FDepths
  BY <1>2, <1>3, FinishDepths
<1>6. /\ "i_depth" \in PCs /\ "i_depth" \notin SharePCs /\ "i_depth" \notin PendingPCs /\ "i_depth" \in NoTargetPCs
      /\ "i_depth" # "i_update" /\ "i_finish" # "i_update"
  BY DEF PCs, SharePCs, PendingPCs, NoTargetPCs
<1>7. /\ pc'[t] = "i_depth" /\ loc'[t] = l /\ INPLACE' = INPLACE
      /\ \A u \in Threads \ {t} : pc'[u] = pc[u] /\ loc'[u] = loc[u]
  BY <1>4, <1>6, ActsOthers DEF Inv
<1>8. Entries(Dir)' = Entries(Dir)
  BY <1>4 DEF Entries
<1>9. Shape(F)' /\ \A x \in Entries(Dir)' : EntryPlan(x, F)'
  <2>1. \A u \in Threads : \A x, b : Pend(u, x, b)' <=> Pend(u, x, b)
    <3> SUFFICES ASSUME NEW u \in Threads, NEW x, NEW b PROVE Pend(u, x, b)' <=> Pend(u, x, b)
      OBVIOUS
    <3>1. CASE u = t
      BY <1>4, <1>6, <1>7, <3>1 DEF Pend
    <3>2. CASE u # t
      BY <1>7, <3>2 DEF Pend
    <3> QED
      BY <3>1, <3>2
  <2>2. \A u \in Threads : \A x, b : Pend(u, x, b) => loc'[u].target = loc[u].target
    <3> SUFFICES ASSUME NEW u \in Threads, NEW x, NEW b, Pend(u, x, b) PROVE loc'[u].target = loc[u].target
      OBVIOUS
    <3>1. u # t
      BY <1>4, <1>6 DEF Pend
    <3> QED
      BY <1>7, <3>1
  <2>3. Shape(F) /\ \A x \in Entries(Dir) : EntryPlan(x, F)
    BY DEF Plan
  <2> QED
    BY <1>4, <1>5, <1>8, <2>1, <2>2, <2>3, KeptDirectory
<1>10. NewsApart'
  BY <1>4, <1>6, CalmApart DEF Plan
<1>11. Owned(F)'
  <2>1. \A c : Closers(c) = {u \in Threads : loc[u].target = c /\ pc[u] \in ClosePCs}
    BY DEF Closers, Waiters, Splitters, ClosePCs
  <2>2. \A c : Closers(c)' = {u \in Threads : loc'[u].target = c /\ pc'[u] \in ClosePCs}
    BY DEF Closers, Waiters, Splitters, ClosePCs
  <2>3. \A c : c # k /\ Closers(c) # {} => Closers(c)' # {}
    BY <1>1, <1>7, <2>1, <2>2
  <2> SUFFICES ASSUME NEW x \in Entries(Dir), NEW i, i = F[x], segs'[i].sema < 0 PROVE Closers(i)' # {}
    BY <1>8 DEF Owned
  <2>4. i \in Pointers
    BY DEF Plan, Shape
  <2>5. i # k
    BY <1>4
  <2>6. Closers(i) # {}
    BY <1>4, <2>4, <2>5 DEF Plan, Owned
  <2> QED
    BY <2>3, <2>5, <2>6
<1>12. \A i : Linked(F, i)' <=> Linked(F, i)
  BY <1>8 DEF Linked
<1>13. Linked(F, k)
  <2>1. ClosedLinked(pc[t], loc[t], F)
    BY DEF Plan, PlanAt
  <2> QED
    BY <1>1, <1>4, <2>1 DEF ClosedLinked
<1>14. \A u \in Threads : PlanAt(pc[u], loc[u], todo[u], F)'
  <2> SUFFICES ASSUME NEW u \in Threads PROVE PlanAt(pc[u], loc[u], todo[u], F)'
    OBVIOUS
  <2>1. PICK q : q = todo[u]
    OBVIOUS
  <2>2. CASE u = t
    <3>1. PlanAt("i_depth", l, q, F)'
      BY <1>6, FreshAt
    <3> QED
      BY <1>4, <1>7, <2>1, <2>2, <3>1
  <2>3. CASE u # t
    <3>1. PICK pu, lu : pu = pc[u] /\ lu = loc[u]
      OBVIOUS
    <3>2. PICK j : j = lu.target
      OBVIOUS
    <3>3. PlanAt(pu, lu, q, F) /\ LocalAt(pu, lu, q) /\ lu \in Locals
      BY <2>1, <3>1, Facts DEF Plan, Inv, LocalsOK
    <3>4. pu \notin NoTargetPCs => j \in Pointers
      BY <3>2, <3>3 DEF LocalAt
    <3>5. ASSUME pu \in NoTargetPCs PROVE PlanAt(pu, lu, q, F)'
      BY <3>5, FreshAt
    <3>6. ASSUME pu \notin NoTargetPCs /\ j # k PROVE PlanAt(pu, lu, q, F)'
      <4>1. pu \in PendingPCs => \A c \in News(lu) : NewHalf(c, j, F) => NewHalf(c, j, F)'
        <5> SUFFICES ASSUME pu \in PendingPCs, NEW c \in News(lu), NewHalf(c, j, F) PROVE NewHalf(c, j, F)'
          OBVIOUS
        <5>1. c # k
          BY <1>1, <3>1 DEF Plan, NewsApart
        <5>2. Unlinked(c, F)'
          BY <1>4, <1>8 DEF NewHalf, Unlinked
        <5> QED
          BY <1>4, <1>5, <3>4, <3>6, <5>1, <5>2 DEF NewHalf
      <4>2. HomeOf(lu, q, F) => HomeOf(lu, q, F)'
        BY <1>4 DEF HomeOf, Prefix
      <4>3. Depth(j)' = Depth(j) /\ FDepth(j)' = FDepth(j) /\ segs'[j].sema = segs[j].sema
        BY <1>4, <1>5, <3>4, <3>6
      <4> QED
        BY <1>7, <1>12, <3>2, <3>3, <3>6, <4>1, <4>2, <4>3, OtherPlan
    <3>7. ASSUME pu \notin NoTargetPCs /\ j = k PROVE PlanAt(pu, lu, q, F)'
      <4>1. /\ pu \notin {"i_wait", "i_recheck", "i_finish", "i_split", "i_probe", "i_update"}
            /\ pu \notin SharePCs /\ pu \notin PendingPCs
        BY <1>2, <2>3, <3>1, <3>2, <3>7 DEF ClosePCs, SplitPCs, SharePCs, PendingPCs, HoldsAt, InsertPCs
      <4>2. OpenLinked(pu, lu, F)'
        BY <1>12, <1>13, <3>2, <3>7 DEF OpenLinked
      <4>3. ClosedLinked(pu, lu, F)' /\ HomeAt(pu, lu, q, F)' /\ Updates(pu, lu, F)' /\ NewsAt(pu, lu, F)'
        BY <4>1 DEF ClosedLinked, HomeAt, Updates, NewsAt
      <4>4. DepthSeen(pu, lu, q, F)'
        <5> SUFFICES ASSUME pu \in {"i_suspend", "i_wait", "i_recheck"}
                     PROVE  /\ lu.depth <= Depth(k)' /\ (~INPLACE' => lu.depth = Depth(k)')
                            /\ Linked(F, k)' /\ FDepth(k)' = lu.depth => HomeOf(lu, q, F)'
          BY <3>2, <3>7 DEF DepthSeen
        <5>1. lu.depth <= Depth(k)
          BY <3>2, <3>3, <3>7 DEF PlanAt, DepthSeen
        <5>2. lu.depth \in Nat
          <6>1. \A n \in 0 .. HashBits : n \in Nat
            OBVIOUS
          <6> QED
            BY <3>3, <6>1 DEF Locals
        <5>3. FDepth(k)' = Depth(k) + 1
          BY <1>5
        <5> QED
          BY <1>2, <1>4, <1>7, <5>1, <5>2, <5>3
      <4> QED
        BY <4>2, <4>3, <4>4 DEF PlanAt
    <3>8. PlanAt(pu, lu, q, F)'
      BY <3>5, <3>6, <3>7
    <3> QED
      BY <1>4, <1>7, <2>1, <2>3, <3>1, <3>8
  <2> QED
    BY <2>2, <2>3
<1> QED
  BY <1>9, <1>10, <1>11, <1>14 DEF Plan

-----------------------------------------------------------------------------
(* The directory that is led to exists in every behaviour without races     *)

\* The directory that the program starts with is as deep as its segments.
LEMMA InitShape ==
  ASSUME NEW g \in Nat, NEW N \in Nat \ {0}, N = Pow2[g], NEW F, F = [x \in 0 .. N - 1 |-> x + 1],
         NEW P, P = 1 .. N, NEW D, \A i \in P : D[i] = g
  PROVE  F \in [0 .. Pow2[g] - 1 -> P] /\ Ranged(g, F, D)
<1>1. \A x \in 0 .. N - 1 : x + 1 \in P /\ F[x] = x + 1 /\ x \div 1 = x
  OBVIOUS
<1>2. \A x \in 0 .. N - 1 : F[x] \in P /\ D[F[x]] = g
  BY <1>1
<1>3. F \in [0 .. N - 1 -> P]
  BY <1>1
<1>4. g - g = 0 /\ Pow2[0] = 1
  BY Pow2Step
<1>5. ASSUME NEW x \in 0 .. N - 1, NEW y \in 0 .. N - 1
      PROVE  D[F[x]] <= g /\ (x \div Pow2[g - D[F[x]]] = y \div Pow2[g - D[F[x]]] <=> F[x] = F[y])
  <2>1. D[F[x]] = g /\ F[x] = x + 1 /\ F[y] = y + 1 /\ x \div 1 = x /\ y \div 1 = y
    BY <1>1, <1>2
  <2>2. Pow2[g - D[F[x]]] = 1
    BY <1>4, <2>1
  <2>3. F[x] = F[y] <=> x = y
    BY <2>1
  <2> QED
    BY <2>1, <2>2, <2>3
<1> QED
  BY <1>3, <1>5 DEF Ranged

\* It leads nowhere else.
LEMMA InitPlan ==
  ASSUME Init, Inv
  PROVE  \E F : Plan(F)
<1>0. /\ segs = [i \in 1 .. Pow2[InitDepth] |-> NewSegment(InitDepth)] /\ dir = 1
      /\ dirs = <<[depth |-> InitDepth, sema |-> 0,
                   segment |-> [x \in 0 .. Pow2[InitDepth] - 1 |-> x + 1]]>>
      /\ pc = [t \in Threads |-> "idle"] /\ loc = [t \in Threads |-> NoLocals]
  BY DEF Init
<1>1. PICK g \in Nat : g = InitDepth
  BY CCEHAssumption
<1>2. PICK N \in Nat \ {0} : N = Pow2[g]
  BY Pow2Step
<1>3. PICK F : F = [x \in 0 .. N - 1 |-> x + 1]
  OBVIOUS
<1>4. Dir.depth = g /\ Dir.segment = F /\ Entries(Dir) = 0 .. N - 1
  BY <1>0, <1>1, <1>2, <1>3 DEF Dir, Entries
<1>5. /\ Pointers = 1 .. N
      /\ \A i \in Pointers : Depth(i) = g /\ segs[i].sema = 0
  <2>1. PICK d : d = NewSegment(g)
    OBVIOUS
  <2>2. d.local_depth = g /\ d.sema = 0
    BY <2>1 DEF NewSegment
  <2>3. segs = [i \in 1 .. N |-> d]
    BY <1>0, <1>1, <1>2, <2>1
  <2>4. Len(segs) = N
    BY <2>3
  <2> QED
    BY <2>2, <2>3, <2>4 DEF Pointers, Depth
<1>6. \A t \in Threads : pc[t] = "idle"
  BY <1>0
<1>7. "idle" \notin PublishPCs /\ "idle" \notin PendingPCs /\ "idle" \in NoTargetPCs /\ "idle" \notin SharePCs
  BY DEF PublishPCs, PendingPCs, NoTargetPCs, SharePCs
<1>8. \A i \in Pointers : FDepths[i] = g
  BY <1>5, <1>6, <1>7 DEF FDepths, FDepth, Raised
<1>9. Shape(F)
  <2>1. PICK P, D : P = Pointers /\ D = FDepths
    OBVIOUS
  <2>2. P = 1 .. N /\ \A i \in P : D[i] = g
    BY <1>5, <1>8, <2>1
  <2>3. F \in [0 .. Pow2[g] - 1 -> P] /\ Ranged(g, F, D)
    BY <1>2, <1>3, <2>2, InitShape
  <2> QED
    BY <1>4, <1>2, <2>1, <2>3 DEF Shape
<1>10. NewsApart
  BY <1>6, <1>7 DEF NewsApart
<1>11. Owned(F)
  <2>1. \A x \in Entries(Dir) : F[x] \in Pointers
    BY <1>9 DEF Shape
  <2>2. \A x \in Entries(Dir) : segs[F[x]].sema = 0
    BY <1>5, <2>1
  <2> QED
    BY <2>2 DEF Owned
<1>12. \A x \in Entries(Dir) : EntryPlan(x, F)
  <2>1. \A t \in Threads : \A x, b : ~Pend(t, x, b)
    BY <1>6 DEF Pend
  <2> QED
    BY <1>4, <2>1 DEF EntryPlan
<1>13. ASSUME NEW l, NEW q PROVE PlanAt("idle", l, q, F)
  <2>1. OpenLinked("idle", l, F) /\ ClosedLinked("idle", l, F) /\ DepthSeen("idle", l, q, F)
    BY <1>7 DEF OpenLinked, ClosedLinked, DepthSeen
  <2>2. HomeAt("idle", l, q, F) /\ Updates("idle", l, F) /\ NewsAt("idle", l, F)
    BY <1>7 DEF HomeAt, Updates, NewsAt
  <2> QED
    BY <2>1, <2>2 DEF PlanAt
<1>14. \A t \in Threads : PlanAt(pc[t], loc[t], todo[t], F)
  BY <1>6, <1>13
<1> QED
  BY <1>9, <1>10, <1>11, <1>12, <1>14 DEF Plan

\* A step that changes nothing.
LEMMA StutterPlan ==
  ASSUME NEW F, Plan(F), UNCHANGED vars
  PROVE  Plan(F)'
<1>1. /\ Pointers' = Pointers /\ Entries(Dir)' = Entries(Dir)
      /\ (Dir.segment)' = Dir.segment /\ (Dir.depth)' = Dir.depth /\ INPLACE' = INPLACE
      /\ segs' = segs /\ pc' = pc /\ loc' = loc /\ todo' = todo
  BY DEF vars, Pointers, Entries, Dir, INPLACE
<1>2. /\ \A i : Depth(i)' = Depth(i) /\ FDepth(i)' = FDepth(i) /\ (Linked(F, i)' <=> Linked(F, i))
      /\ \A l, q : HomeOf(l, q, F)' <=> HomeOf(l, q, F)
      /\ \A b : Unlinked(b, F)' <=> Unlinked(b, F)
  <2>1. \A i : Depth(i)' = Depth(i) /\ (Raised(i)' <=> Raised(i))
    BY <1>1 DEF Depth, Raised
  <2>2. \A i : FDepth(i)' = FDepth(i)
    BY <2>1 DEF FDepth
  <2> QED
    BY <1>1, <2>1, <2>2 DEF Linked, HomeOf, Prefix, Unlinked
<1>3. FDepths' = FDepths
  BY <1>1, <1>2 DEF FDepths
<1>4. Shape(F)' /\ \A x \in Entries(Dir)' : EntryPlan(x, F)'
  <2>1. \A u \in Threads : \A x, b : Pend(u, x, b)' <=> Pend(u, x, b)
    BY <1>1 DEF Pend
  <2>2. \A u \in Threads : \A x, b : Pend(u, x, b) => loc'[u].target = loc[u].target
    BY <1>1
  <2>3. Shape(F) /\ \A x \in Entries(Dir) : EntryPlan(x, F)
    BY DEF Plan
  <2> QED
    BY <1>1, <1>3, <2>1, <2>2, <2>3, KeptDirectory
<1>5. NewsApart'
  BY <1>1 DEF Plan, NewsApart, News
<1>6. Owned(F)'
  <2>1. \A i : Closers(i)' = Closers(i)
    BY <1>1 DEF Closers, Waiters, Splitters
  <2> QED
    BY <1>1, <2>1 DEF Plan, Owned
<1>7. ASSUME NEW u \in Threads PROVE PlanAt(pc[u], loc[u], todo[u], F)'
  <2>1. PICK p, l, q, j : p = pc[u] /\ l = loc[u] /\ q = todo[u] /\ j = l.target
    OBVIOUS
  <2>2. PlanAt(p, l, q, F)
    BY <2>1 DEF Plan
  <2>3. \A b : NewHalf(b, j, F) => NewHalf(b, j, F)'
    BY <1>1, <1>2 DEF NewHalf
  <2>4. PlanAt(p, l, q, F)'
    BY <1>1, <1>2, <2>1, <2>2, <2>3, OtherPlan
  <2> QED
    BY <1>1, <2>1, <2>4
<1> QED
  BY <1>4, <1>5, <1>6, <1>7 DEF Plan

\* A race that has happened stays on record.
LEMMA RacesGrow ==
  ASSUME NEW t \in Threads, InsertStep(t) \/ GetStep(t)
  PROVE  races \subseteq races'
<1>1. CASE StoreStep(t)
  BY <1>1 DEF StoreStep, StartInsert, ReadDepth, ReadTarget, LockTarget, ReadCheck, CompareTarget, CheckTarget, ClaimSlot,
              StoreValue, StoreKey, ReturnInsert, Refuse, Read, TryLock
<1>2. CASE SplitStep(t)
  <2>1. Collide(t) => races' = races
    BY DEF Collide
  <2>2. SuspendTarget(t) => races' = races
    BY DEF SuspendTarget
  <2>3. AwaitTarget(t) => races' = races
    BY DEF AwaitTarget, Read
  <2>4. Recheck(t) => races' = races
    BY DEF Recheck
  <2>5. Split(t) => races' = races
    BY DEF Split
  <2> QED
    BY <1>2, <2>1, <2>2, <2>3, <2>4, <2>5 DEF SplitStep
<1>3. CASE DoubleStep(t)
  <2>1. ChooseDir(t) => races' = races
    BY DEF ChooseDir
  <2>2. SuspendDir(t) => races' = races
    BY DEF SuspendDir
  <2>3. AwaitDir(t) => races' = races
    BY DEF AwaitDir, Read
  <2>4. DoubleDir(t) => races \subseteq races'
    BY DEF DoubleDir
  <2> QED
    BY <1>3, <2>1, <2>2, <2>3, <2>4 DEF DoubleStep
<1>4. CASE UpdateStep(t)
  BY <1>4 DEF UpdateStep, LockDir, StoreEntry, UnlockDir, FinishSplit
<1>5. CASE GetStep(t)
  BY <1>5 DEF GetStep, StartGet, GetSpin, GetDepth, GetTarget, GetLock, GetCheck, GetCompare, GetScan, GetValue,
              ReturnGet, Read, TryLock, CheckTarget
<1> QED
  BY <1>1, <1>2, <1>3, <1>4, <1>5 DEF InsertStep

\* Every step keeps a directory to lead to.
LEMMA NextPlan ==
  ASSUME Inv, PlanInv, [Next]_vars
  PROVE  PlanInv'
<1> SUFFICES ASSUME races' = {} PROVE \E G : Plan(G)'
  BY DEF PlanInv
<1>1. CASE UNCHANGED vars
  <2>1. races = {}
    BY <1>1 DEF vars
  <2>2. PICK F : Plan(F)
    BY <2>1 DEF PlanInv
  <2> QED
    BY <1>1, <2>2, StutterPlan
<1>2. ASSUME NEW t \in Threads, InsertStep(t) \/ GetStep(t), scenario' = scenario PROVE \E G : Plan(G)'
  <2>1. races = {}
    BY <1>2, RacesGrow
  <2>2. PICK F : Plan(F)
    BY <2>1 DEF PlanInv
  <2>3. CASE StoreStep(t)
    <3>1. Plan(F)'
      BY <1>2, <2>1, <2>2, <2>3, InsertPlan, StorePlan, TryLockPlan, CheckPlan, ReturnPlan DEF StoreStep
    <3> QED
      BY <3>1
  <2>4. CASE SplitStep(t)
    <3>1. Plan(F)'
      BY <1>2, <2>1, <2>2, <2>4, CollidePlan, SuspendPlan, AwaitPlan, RecheckPlan, SplitPlan DEF SplitStep
    <3> QED
      BY <3>1
  <2>5. CASE DoubleStep(t)
    <3>1. CASE DoubleDir(t)
      BY <1>2, <2>1, <2>2, <3>1, DoubleDirPlan
    <3>2. CASE ~DoubleDir(t)
      <4>1. Plan(F)'
        BY <1>2, <2>2, <2>5, <3>2, ChoosePlan DEF DoubleStep
      <4> QED
        BY <4>1
    <3> QED
      BY <3>1, <3>2
  <2>6. CASE UpdateStep(t)
    <3>1. CASE LockDir(t)
      BY <1>2, <2>1, <2>2, <3>1, LockDirPlan
    <3>2. CASE ~LockDir(t)
      <4>1. Plan(F)'
        BY <1>2, <2>1, <2>2, <2>6, <3>2, StoreEntryPlan, UnlockDirPlan, FinishSplitPlan DEF UpdateStep
      <4> QED
        BY <4>1
    <3> QED
      BY <3>1, <3>2
  <2>7. CASE GetStep(t)
    <3>1. Plan(F)'
      BY <1>2, <2>1, <2>2, <2>7, GetPlan, TryLockPlan, CheckPlan, ReturnPlan DEF GetStep
    <3> QED
      BY <3>1
  <2> QED
    BY <1>2, <2>3, <2>4, <2>5, <2>6, <2>7 DEF InsertStep
<1> QED
  BY <1>1, <1>2 DEF Next, Terminating

\* Until one of the races on `dir' happens, the stores into the directory that
\* the splits under way have still to make lead from the directory as it is to
\* one in which every segment has the entries that share its prefix: each split
\* in its critical section replaces what it found, and the splits commute.
THEOREM PlanHolds == Spec => []PlanInv
<1>1. Init /\ Inv => PlanInv
  BY InitPlan DEF PlanInv
<1>2. Inv /\ PlanInv /\ [Next]_vars => PlanInv'
  BY NextPlan
<1> QED
  BY <1>1, <1>2, InvHolds, PTL DEF Spec

\* With no split being published, the entries of the directory that share the
\* prefix of a segment are the ones that point to it, and every segment knows
\* the depth it is used at, in every build and with any number of threads,
\* until one of the races on `dir' happens.
THEOREM ShapeHolds == Spec => []DirectoryShape
<1>1. Inv /\ PlanInv /\ TypeOK => DirectoryShape
  <2> SUFFICES ASSUME Inv, PlanInv, races = {}, \A t \in Threads : pc[t] \notin {"i_update", "i_finish"},
                      NEW x \in DOMAIN Dir.segment, NEW y \in DOMAIN Dir.segment,
                      NEW i, i = Dir.segment[x], NEW ld, ld = segs[i].local_depth
               PROVE  /\ ld <= Dir.depth
                      /\ x \div Pow2[Dir.depth - ld] = y \div Pow2[Dir.depth - ld] <=> i = Dir.segment[y]
    BY DEF DirectoryShape
  <2>1. PICK F : Plan(F)
    BY DEF PlanInv
  <2>2. DOMAIN Dir.segment = Entries(Dir)
    BY DirFacts DEF Inv
  <2>3. \A n \in Entries(Dir) : Dir.segment[n] = F[n]
    <3>1. \A n, c : ~Leads(n, c)
      BY DEF Leads, Pend
    <3> QED
      BY <2>1, <3>1 DEF Plan, EntryPlan
  <2>4. PICK D : D = FDepths
    OBVIOUS
  <2>5. D[i] = ld
    <3>1. i \in Pointers
      BY <2>1, <2>2, <2>3 DEF Plan, Shape
    <3>2. ~Raised(i)
      BY DEF Raised, PublishPCs
    <3> QED
      BY <2>4, <3>1, <3>2 DEF FDepths, FDepth, Depth
  <2>6. PICK g : g = Dir.depth
    OBVIOUS
  <2>7. Ranged(g, F, D)
    BY <2>1, <2>4, <2>6 DEF Plan, Shape
  <2>8. x \in 0 .. Pow2[g] - 1 /\ y \in 0 .. Pow2[g] - 1 /\ F[x] = i /\ F[y] = Dir.segment[y]
    BY <2>2, <2>3, <2>6 DEF Entries
  <2>9. /\ D[F[x]] <= g
        /\ x \div Pow2[g - D[F[x]]] = y \div Pow2[g - D[F[x]]] <=> F[x] = F[y]
    BY <2>7, <2>8 DEF Ranged
  <2>10. D[F[x]] = ld
    BY <2>5, <2>8
  <2>11. ld <= g /\ (x \div Pow2[g - ld] = y \div Pow2[g - ld] <=> F[x] = F[y])
    BY <2>9, <2>10
  <2> QED
    BY <2>6, <2>8, <2>11
<1> QED
  BY <1>1, InvHolds, PlanHolds, TypeCorrect, PTL

\* In the copy-on-write build too, no Insert retries for ever on a closed
\* segment that the directory leads to: some thread is splitting it, until one
\* of the races on `dir' happens.
THEOREM ClosedInUseIsOwned == Spec => []ClosedHasOwner
<1>1. Inv /\ PlanInv => ClosedHasOwner
  <2> SUFFICES ASSUME Inv, PlanInv, races = {}, NEW x \in DOMAIN Dir.segment,
                      NEW i, i = Dir.segment[x], segs[i].sema < 0
               PROVE  \E t \in Threads : Splitting(t, i) \/ (pc[t] = "i_wait" /\ loc[t].target = i)
    BY DEF ClosedHasOwner
  <2>1. PICK F : Plan(F)
    BY DEF PlanInv
  <2>2. x \in Entries(Dir)
    BY DirFacts DEF Inv
  <2>3. i = F[x] \/ Leads(x, i)
    BY <2>1, <2>2 DEF Plan, EntryPlan
  <2>4. CASE i = F[x]
    <3>1. Closers(i) # {}
      BY <2>1, <2>2, <2>4 DEF Plan, Owned
    <3> QED
      BY <3>1 DEF Closers, Waiters, Splitters, Splitting, SplitPCs
  <2>5. CASE Leads(x, i)
    BY <2>5 DEF Leads, Pend, Splitting
  <2> QED
    BY <2>3, <2>4, <2>5
<1> QED
  BY <1>1, InvHolds, PlanHolds, PTL

=============================================================================

-------------------------------- MODULE CCEH --------------------------------
(***************************************************************************)
(* Concurrent Insert and Get of the CCEH hash table, in its four builds:   *)
(* on persistent memory (cceh/CCEH-PMDK/src/CCEH.{h,cpp}) and with the     *)
(* volatile allocator (cceh/src/CCEH.h, CCEH_MSB.cpp), each with in-place  *)
(* split (INPLACE) or copy-on-write split.                                 *)
(*                                                                         *)
(* One action per access of shared memory that another thread can see:     *)
(* each read of `dir', each semaphore operation, the claim of a slot, the  *)
(* store of its value and of its key, every store of a directory entry.    *)
(* The semaphore operations are atomic here; SegmentLock models their      *)
(* load/CAS loops.  The probe of Insert is one step: while a segment is    *)
(* locked its slots only go from free to taken, so the slot a scan claims  *)
(* is the first one that is free at that moment.                           *)
(***************************************************************************)
EXTENDS Powers, Sequences, FiniteSets

CONSTANTS
  Threads,
  Keys,                \* Key_t, without the two reserved words
  INVALID, SENTINEL,   \* reserved key words
  NONE,                \* Value_t 0x0
  Values,              \* what is stored under the keys
  HashBits,            \* width of a hash; also the deepest directory explored
  Hash,                \* f_hash of a key word, 0 .. 2^HashBits-1
  FIdx, SIdx,          \* where the two probes of a key word start
  NumSlot,             \* kNumSlot
  Probe,               \* kNumPairPerCacheLine * kNumCacheLine
  InitDepth,           \* log2(initCap)
  Scenarios            \* a build, and the calls each thread makes, in order

KeyWords == Keys \cup {INVALID, SENTINEL}
Slots == 0 .. NumSlot - 1

Builds == {"pmdk_inplace", "pmdk_cow", "msb_inplace", "msb_cow"}
Calls == [op : {"insert", "insertOnly", "get"}, key : Keys, value : Values]

\* The depth is at least 1: f_hash >> (8*sizeof(f_hash) - 0) is undefined.
ASSUME CCEHAssumption ==
  /\ IsFiniteSet(Threads)
  /\ Scenarios \subseteq [build : Builds, program : [Threads -> Seq(Calls)]]
  /\ HashBits \in Nat /\ InitDepth \in 1 .. HashBits
  /\ NumSlot \in Nat \ {0} /\ Probe \in 1 .. NumSlot
  /\ INVALID \notin Keys /\ SENTINEL \notin Keys /\ INVALID # SENTINEL
  /\ Hash \in [KeyWords -> 0 .. Pow2[HashBits] - 1]
  /\ FIdx \in [KeyWords -> Slots] /\ SIdx \in [KeyWords -> Slots]

VARIABLES
  scenario, \* the build that runs and the calls it gets
  segs,    \* the segments allocated so far; a pointer is an index
  dirs,    \* the directories allocated so far
  dir,     \* CCEH::dir
  pc,      \* where each thread is
  loc,     \* its local variables
  todo,    \* the calls it still has to make; Head is the current one
  acked,   \* keys whose Insert has returned
  races    \* which races have happened: "skew", "torn", "stray" and "nested"

vars == <<scenario, segs, dirs, dir, pc, loc, todo, acked, races>>

\* The build options.
INPLACE == scenario.build \in {"pmdk_inplace", "msb_inplace"}
MSB == scenario.build \in {"msb_inplace", "msb_cow"}

Program == scenario.program

-----------------------------------------------------------------------------
(* Hash prefixes, probe windows and slots.                                  *)

\* f_hash >> (8*sizeof(f_hash) - depth)
Prefix(k, depth) == Hash[k] \div Pow2[HashBits - depth]

\* f_hash & ((size_t)1 << (sizeof(Key_t)*8 - local_depth - 1))
SplitBit(k, depth) == (Hash[k] \div Pow2[HashBits - depth - 1]) % 2

\* (idx + i) % kNumSlot for i < Probe
Window(idx, i) == (idx + i) % NumSlot

Empty == [key |-> INVALID, value |-> NONE]

\* The first i with P[i], if any: a probe loop.
FirstIn(P) ==
  IF \E i \in 0 .. Probe - 1 : P[i]
  THEN CHOOSE i \in 0 .. Probe - 1 : P[i] /\ \A j \in 0 .. i - 1 : ~P[j]
  ELSE -1

\* Slot found by probing window f then window s for a slot in S; -1 if none.
ProbeFor(k, S) ==
  LET f == FirstIn([i \in 0 .. Probe - 1 |-> Window(FIdx[k], i) \in S])
      s == FirstIn([i \in 0 .. Probe - 1 |-> Window(SIdx[k], i) \in S])
  IN  IF f # -1 THEN Window(FIdx[k], f)
      ELSE IF s # -1 THEN Window(SIdx[k], s)
      ELSE -1

\* Segment::initSegment(depth)
NewSegment(depth) ==
  [bucket |-> [i \in Slots |-> Empty], sema |-> 0, local_depth |-> depth]

\* Segment::Insert4split: the first INVALID slot of one window; <<ok, bucket>>
Insert4split(bucket, e, idx) ==
  LET i == FirstIn([j \in 0 .. Probe - 1 |-> bucket[Window(idx, j)].key = INVALID])
  IN  IF i = -1 THEN <<FALSE, bucket>>
      ELSE <<TRUE, [bucket EXCEPT ![Window(idx, i)] = e]>>

\* Mutant: the second window is never tried.
CopyFirstWindow(bucket, e) == Insert4split(bucket, e, FIdx[e.key])[2]

\* One slot of the copy loop of Split.  All builds but PMDK's copy-on-write
\* one try the second window when the first is full.
CopySlot(bucket, e) ==
  LET f == Insert4split(bucket, e, FIdx[e.key])
  IN  IF f[1] \/ ~(INPLACE \/ MSB) THEN f[2] ELSE Insert4split(bucket, e, SIdx[e.key])[2]

\* The bucket array that receives the entries of `seg' whose next hash bit is
\* `bit', in slot order.
SplitHalf(seg, bit) ==
  LET copied[i \in 0 .. NumSlot] ==
        IF i = 0 THEN [j \in Slots |-> Empty]
        ELSE LET e == seg.bucket[i - 1]
             IN  IF SplitBit(e.key, seg.local_depth) = bit
                 THEN CopySlot(copied[i - 1], e)
                 ELSE copied[i - 1]
  IN  copied[NumSlot]

-----------------------------------------------------------------------------
(* Thread bookkeeping.                                                      *)

Call(t) == Head(todo[t])
Key(t) == Call(t).key
Cur(t) == segs[loc[t].target]       \* *target
Dir == dirs[dir]                    \* *dir

\* The segment the directory assigns to a key now.
Home(k) == Dir.segment[Prefix(k, Dir.depth)]

NoLocals == [x |-> 0, target |-> 0, check |-> 0, slot |-> 0, depth |-> 0, val |-> 0,
             s |-> <<0, 0>>, writes |-> <<>>, must |-> FALSE, result |-> NONE]

Goto(t, to) == pc' = [pc EXCEPT ![t] = to]

\* goto RETRY: the locals of the abandoned attempt are dead.
Retry(t, to) ==
  /\ Goto(t, to)
  /\ loc' = [loc EXCEPT ![t] = [NoLocals EXCEPT !.must = loc[t].must]]

Put(t, field, v) == loc' = [loc EXCEPT ![t][field] = v]

\* A store into the semaphore of the target.
SetSema(t, v) == segs' = [segs EXCEPT ![loc[t].target].sema = v]

Return(t) ==
  /\ Goto(t, "idle")
  /\ loc' = [loc EXCEPT ![t] = NoLocals]
  /\ todo' = [todo EXCEPT ![t] = Tail(@)]

\* initCCEH(pop, initCap) and the start of the calling threads
Init ==
  /\ scenario \in Scenarios
  /\ segs = [i \in 1 .. Pow2[InitDepth] |-> NewSegment(InitDepth)]
  /\ dirs = <<[depth |-> InitDepth, sema |-> 0,
               segment |-> [x \in 0 .. Pow2[InitDepth] - 1 |-> x + 1]]>>
  /\ dir = 1
  /\ pc = [t \in Threads |-> "idle"]
  /\ loc = [t \in Threads |-> NoLocals]
  /\ todo = Program
  /\ acked = {}
  /\ races = {}

\* A step that only reads shared state, into one local variable.
Read(t, from, to, field, v) ==
  /\ pc[t] = from
  /\ Goto(t, to)
  /\ Put(t, field, v)
  /\ UNCHANGED <<segs, dirs, dir, todo, acked, races>>

\* target->lock(), with `goto RETRY' when it fails
TryLock(t, from, to, retry) ==
  /\ pc[t] = from
  /\ \/ /\ Cur(t).sema >= 0
        /\ Goto(t, to)
        /\ SetSema(t, Cur(t).sema + 1)
        /\ UNCHANGED loc
     \/ /\ Cur(t).sema < 0
        /\ Retry(t, retry)
        /\ UNCHANGED segs
  /\ UNCHANGED <<dirs, dir, todo, acked, races>>

\* lock() of the target has returned true and unlock() has not run.
Holding(t, i) ==
  /\ loc[t].target = i
  /\ \/ pc[t] \in {"i_check", "i_compare", "i_probe", "i_value", "i_key", "i_return"}
     \/ INPLACE /\ pc[t] \in {"g_check", "g_compare", "g_scan", "g_value", "g_return"}

\* An unlock() by a thread that holds no lock, while the count of the lockers
\* still matters.
Stray(t) ==
  /\ ~Holding(t, loc[t].target)
  /\ Cur(t).sema >= 0 \/ \E u \in Threads : pc[u] = "i_wait" /\ loc[u].target = loc[t].target

\* Is the target still what the directory says?  If not, unlock() (if the
\* build does) and RETRY.
CheckTarget(t, from, to, retry, unlocks) ==
  /\ pc[t] = from
  /\ \/ /\ loc[t].target = Dir.segment[loc[t].check]
        /\ Goto(t, to)
        /\ races' = races \cup (IF loc[t].target = Home(Key(t)) THEN {} ELSE {"torn"})
        /\ UNCHANGED <<segs, loc>>
     \/ /\ loc[t].target # Dir.segment[loc[t].check]
        /\ IF unlocks THEN SetSema(t, Cur(t).sema - 1) ELSE UNCHANGED segs
        /\ races' = races \cup (IF unlocks /\ Stray(t) THEN {"stray"} ELSE {})
        /\ Retry(t, retry)
  /\ UNCHANGED <<dirs, dir, todo, acked>>

-----------------------------------------------------------------------------
(* Insert(key, value), and InsertOnly(key, value) of CCEH_MSB, which never  *)
(* splits and reads the depth of the directory only once                    *)

StartInsert(t) ==
  /\ pc[t] = "idle"
  /\ todo[t] # <<>> /\ Call(t).op \in {"insert", "insertOnly"}
  /\ Goto(t, "i_depth")
  /\ UNCHANGED <<segs, dirs, dir, loc, todo, acked, races>>

\* RETRY: `dir' is read once for the index x and once more for the entry x.
ReadDepth(t) == Read(t, "i_depth", "i_target", "x", Prefix(Key(t), Dir.depth))
ReadTarget(t) == Read(t, "i_target", "i_lock", "target", Dir.segment[loc[t].x])

LockTarget(t) == TryLock(t, "i_lock", "i_check", "i_depth")

\* target_check, again two reads of `dir'; InsertOnly uses the first depth.
ReadCheck(t) ==
  Read(t, "i_check", "i_compare", "check",
       IF Call(t).op = "insertOnly" THEN loc[t].x ELSE Prefix(Key(t), Dir.depth))
CompareTarget(t) == CheckTarget(t, "i_compare", "i_probe", "i_depth", TRUE)

\* Mutant: the prefixes are compared without the shift by the local depth.
FreeSlotsUnshifted(seg, k) ==
  {j \in Slots : seg.bucket[j].key # SENTINEL
                 /\ (seg.bucket[j].key = INVALID \/ Hash[seg.bucket[j].key] # Hash[k])}

\* A slot may be claimed when its key does not belong to the segment's prefix
\* (left behind by an in-place split) or is INVALID, and is not claimed.
FreeSlots(seg, k) ==
  {i \in Slots :
     LET w == seg.bucket[i].key
     IN  /\ w # SENTINEL
         /\ w = INVALID \/ Prefix(w, seg.local_depth) # Prefix(k, seg.local_depth)}

ClaimSlot(t) ==
  LET i == ProbeFor(Key(t), FreeSlots(Cur(t), Key(t)))
  IN  /\ pc[t] = "i_probe"
      /\ i # -1
      /\ Goto(t, "i_value")
      /\ Put(t, "slot", i)
      /\ segs' = [segs EXCEPT ![loc[t].target].bucket[i].key = SENTINEL]
      /\ UNCHANGED <<dirs, dir, todo, acked, races>>

StoreValue(t) ==
  /\ pc[t] = "i_value"
  /\ Goto(t, "i_key")
  /\ segs' = [segs EXCEPT ![loc[t].target].bucket[loc[t].slot].value = Call(t).value]
  /\ UNCHANGED <<dirs, dir, loc, todo, acked, races>>

StoreKey(t) ==
  /\ pc[t] = "i_key"
  /\ Goto(t, "i_return")
  /\ segs' = [segs EXCEPT ![loc[t].target].bucket[loc[t].slot].key = Key(t)]
  /\ UNCHANGED <<dirs, dir, loc, todo, acked, races>>

ReturnInsert(t) ==
  /\ pc[t] = "i_return"
  /\ SetSema(t, Cur(t).sema - 1)
  /\ acked' = acked \cup {Key(t)}
  /\ Return(t)
  /\ UNCHANGED <<dirs, dir, races>>

\* COLLISION: remember the depth and release the segment before suspending it.
Collide(t) ==
  /\ pc[t] = "i_probe"
  /\ Call(t).op = "insert"
  /\ ProbeFor(Key(t), FreeSlots(Cur(t), Key(t))) = -1
  /\ Goto(t, "i_suspend")
  /\ Put(t, "depth", Cur(t).local_depth)
  /\ SetSema(t, Cur(t).sema - 1)
  /\ UNCHANGED <<dirs, dir, todo, acked, races>>

\* InsertOnly returns false.
Refuse(t) ==
  /\ pc[t] = "i_probe"
  /\ Call(t).op = "insertOnly"
  /\ ProbeFor(Key(t), FreeSlots(Cur(t), Key(t))) = -1
  /\ SetSema(t, Cur(t).sema - 1)
  /\ Return(t)
  /\ UNCHANGED <<dirs, dir, acked, races>>

SuspendTarget(t) ==
  /\ pc[t] = "i_suspend"
  /\ \/ /\ Cur(t).sema >= 0
        /\ Goto(t, "i_wait")
        /\ Put(t, "val", Cur(t).sema)
        /\ SetSema(t, -1)
     \/ /\ Cur(t).sema < 0
        /\ Retry(t, "i_depth")
        /\ UNCHANGED segs
  /\ UNCHANGED <<dirs, dir, todo, acked, races>>

\* Mutant: the lockers found by suspend() are not awaited.
AwaitNobody(t) == Read(t, "i_wait", "i_recheck", "val", 0)

AwaitTarget(t) ==
  /\ Read(t, "i_wait", "i_recheck", "val", 0)
  /\ loc[t].val = 0 \/ Cur(t).sema = 0 - loc[t].val - 1

\* Has the target been split meanwhile?  The in-place build asks the target,
\* the copy-on-write build the segment now at the old index x.
DepthNow(t) ==
  IF INPLACE THEN Cur(t).local_depth ELSE segs[Dir.segment[loc[t].x]].local_depth

Recheck(t) ==
  /\ pc[t] = "i_recheck"
  /\ \/ /\ loc[t].depth = DepthNow(t)
        /\ Goto(t, "i_split")
        /\ UNCHANGED <<segs, loc>>
     \/ /\ loc[t].depth # DepthNow(t)
        /\ SetSema(t, 0)
        /\ Retry(t, "i_depth")
  /\ UNCHANGED <<dirs, dir, todo, acked, races>>

\* Segment::Split.  In place, s[0] is the target itself and keeps the entries
\* that were copied; otherwise both halves are new.  (HashBits bounds it.)
Split(t) ==
  LET seg == Cur(t)
      half(b) == [NewSegment(seg.local_depth + 1) EXCEPT !.bucket = SplitHalf(seg, b)]
  IN  /\ pc[t] = "i_split"
      /\ seg.local_depth < HashBits
      /\ Goto(t, "i_dir")
      /\ segs' = segs \o (IF INPLACE THEN <<half(1)>> ELSE <<half(0), half(1)>>)
      /\ Put(t, "s", IF INPLACE THEN <<loc[t].target, Len(segs) + 1>>
                     ELSE <<Len(segs) + 1, Len(segs) + 2>>)
      /\ UNCHANGED <<dirs, dir, todo, acked, races>>

\* DIR_RETRY: must the directory be doubled?
ChooseDir(t) ==
  /\ pc[t] = "i_dir"
  /\ \/ /\ Cur(t).local_depth = Dir.depth
        /\ Goto(t, "i_dsuspend")
     \/ /\ Cur(t).local_depth # Dir.depth
        /\ Goto(t, "i_dlock")
  /\ UNCHANGED <<segs, dirs, dir, loc, todo, acked, races>>

SetDirSema(v) == dirs' = [dirs EXCEPT ![dir].sema = v]

\* dir->suspend() suspends whatever `dir' is now, not what was compared above.
SuspendDir(t) ==
  /\ pc[t] = "i_dsuspend"
  /\ \/ /\ Dir.sema >= 0
        /\ Goto(t, "i_dwait")
        /\ Put(t, "val", Dir.sema)
        /\ SetDirSema(-1)
     \/ /\ Dir.sema < 0
        /\ Goto(t, "i_dir")
        /\ UNCHANGED <<dirs, loc>>
  /\ UNCHANGED <<segs, dir, todo, acked, races>>

AwaitDir(t) ==
  /\ Read(t, "i_dwait", "i_double", "val", 0)
  /\ loc[t].val = 0 \/ Dir.sema = 0 - loc[t].val - 1

\* Where an Insert goes once its split is published: the in-place build still
\* has to raise the local depth of the target and reopen it.
Published(t) ==
  IF INPLACE THEN Goto(t, "i_finish") /\ UNCHANGED loc
  ELSE Retry(t, "i_depth")

\* The doubled directory: entry x becomes the two halves, the others are
\* repeated.
Doubled(d, x, s) ==
  [depth |-> d.depth + 1, sema |-> 0,
   segment |-> [n \in 0 .. Pow2[d.depth + 1] - 1 |->
                  IF n \div 2 = x THEN s[(n % 2) + 1] ELSE d.segment[n \div 2]]]

\* The old directory stays suspended.  (HashBits bounds the depth.)
DoubleDir(t) ==
  /\ pc[t] = "i_double"
  /\ Dir.depth < HashBits
  /\ dirs' = Append(dirs, Doubled(Dir, Prefix(Key(t), Dir.depth), loc[t].s))
  /\ dir' = Len(dirs) + 1
  /\ races' = races \cup (IF Cur(t).local_depth = Dir.depth THEN {} ELSE {"skew"})
  /\ Published(t)
  /\ UNCHANGED <<segs, todo, acked>>

\* Mutant: only the first entry of the upper half is redirected.
OneEntryWrite(x, stride, s) == <<<<x - (x % stride) + (stride \div 2), s[2]>>>>

\* The entries a normal split stores, in order: the upper half of the
\* target's range gets s[1]; copy-on-write then gives the lower half s[0].
EntryWrites(x, stride, s) ==
  LET base == x - (x % stride)
      half == stride \div 2
      upper == [i \in 1 .. half |-> <<base + half + i - 1, s[2]>>]
      lower == [i \in 1 .. half |-> <<base + i - 1, s[1]>>]
  IN  IF INPLACE THEN upper ELSE upper \o lower

LockDir(t) ==
  /\ pc[t] = "i_dlock"
  /\ Dir.sema >= 0
  /\ Goto(t, "i_update")
  /\ SetDirSema(Dir.sema + 1)
  /\ Put(t, "writes", EntryWrites(Prefix(Key(t), Dir.depth),
                                  Pow2[Dir.depth - loc[t].depth], loc[t].s))
  /\ UNCHANGED <<segs, dir, todo, acked, races>>

\* One store.  The lock of the directory is shared: the entry may be one that
\* the split of a larger range has still to redirect.
StoreEntry(t) ==
  LET w == Head(loc[t].writes)
  IN  /\ pc[t] = "i_update"
      /\ loc[t].writes # <<>>
      /\ dirs' = [dirs EXCEPT ![dir].segment[w[1]] = w[2]]
      /\ Put(t, "writes", Tail(loc[t].writes))
      /\ races' = races \cup (IF Dir.segment[w[1]] = loc[t].target THEN {} ELSE {"nested"})
      /\ UNCHANGED <<segs, dir, pc, todo, acked>>

UnlockDir(t) ==
  /\ pc[t] = "i_update"
  /\ loc[t].writes = <<>>
  /\ SetDirSema(Dir.sema - 1)
  /\ Published(t)
  /\ UNCHANGED <<segs, dir, todo, acked, races>>

\* Mutant: sema = 0 is forgotten.
FinishClosed(t) ==
  /\ pc[t] = "i_finish"
  /\ Retry(t, "i_depth")
  /\ segs' = [segs EXCEPT ![loc[t].target].local_depth = @ + 1]
  /\ UNCHANGED <<dirs, dir, todo, acked, races>>

FinishSplit(t) ==
  /\ pc[t] = "i_finish"
  /\ Retry(t, "i_depth")
  /\ segs' = [segs EXCEPT ![loc[t].target].local_depth = @ + 1,
                          ![loc[t].target].sema = 0]
  /\ UNCHANGED <<dirs, dir, todo, acked, races>>

-----------------------------------------------------------------------------
(* Get(key)                                                                 *)

StartGet(t) ==
  /\ todo[t] # <<>> /\ Call(t).op = "get"
  /\ Read(t, "idle", "g_spin", "must", Key(t) \in acked)

\* while(dir->sema < 0) nop
GetSpin(t) ==
  /\ pc[t] = "g_spin"
  /\ Dir.sema >= 0
  /\ Goto(t, "g_depth")
  /\ UNCHANGED <<segs, dirs, dir, loc, todo, acked, races>>

GetDepth(t) == Read(t, "g_depth", "g_target", "x", Prefix(Key(t), Dir.depth))
GetTarget(t) ==
  Read(t, "g_target", IF INPLACE THEN "g_lock" ELSE "g_check",
       "target", Dir.segment[loc[t].x])

GetLock(t) == TryLock(t, "g_lock", "g_check", "g_spin")

GetCheck(t) == Read(t, "g_check", "g_compare", "check", Prefix(Key(t), Dir.depth))

\* Mutant: the target is not checked after it is locked.
GetUnchecked(t) == Read(t, "g_compare", "g_scan", "check", 0)

\* In CCEH-PMDK the unlock() of a failed check is not under #ifdef INPLACE, so
\* it also runs in the build in which Get took no lock.
GetCompare(t) == CheckTarget(t, "g_compare", "g_scan", "g_spin", INPLACE \/ ~MSB)

GetScan(t) ==
  LET i == ProbeFor(Key(t), {j \in Slots : Cur(t).bucket[j].key = Key(t)})
  IN  /\ pc[t] = "g_scan"
      /\ \/ i # -1 /\ Goto(t, "g_value") /\ Put(t, "slot", i)
         \/ i = -1 /\ Goto(t, "g_return") /\ UNCHANGED loc
      /\ UNCHANGED <<segs, dirs, dir, todo, acked, races>>

GetValue(t) ==
  Read(t, "g_value", "g_return", "result", Cur(t).bucket[loc[t].slot].value)

ReturnGet(t) ==
  /\ pc[t] = "g_return"
  /\ IF INPLACE THEN SetSema(t, Cur(t).sema - 1) ELSE UNCHANGED segs
  /\ Return(t)
  /\ UNCHANGED <<dirs, dir, acked, races>>

-----------------------------------------------------------------------------

\* RETRY: find and lock the target, store into it
StoreStep(t) ==
  \/ StartInsert(t) \/ ReadDepth(t) \/ ReadTarget(t) \/ LockTarget(t)
  \/ ReadCheck(t) \/ CompareTarget(t)
  \/ ClaimSlot(t) \/ StoreValue(t) \/ StoreKey(t) \/ ReturnInsert(t) \/ Refuse(t)

\* COLLISION: close the target and copy its slots
SplitStep(t) ==
  Collide(t) \/ SuspendTarget(t) \/ AwaitTarget(t) \/ Recheck(t) \/ Split(t)

\* DIR_RETRY: double the directory
DoubleStep(t) == ChooseDir(t) \/ SuspendDir(t) \/ AwaitDir(t) \/ DoubleDir(t)

\* Normal segment split: redirect the entries of the target, and reopen it
UpdateStep(t) == LockDir(t) \/ StoreEntry(t) \/ UnlockDir(t) \/ FinishSplit(t)

InsertStep(t) == StoreStep(t) \/ SplitStep(t) \/ DoubleStep(t) \/ UpdateStep(t)

GetStep(t) ==
  \/ StartGet(t) \/ GetSpin(t) \/ GetDepth(t) \/ GetTarget(t) \/ GetLock(t)
  \/ GetCheck(t) \/ GetCompare(t) \/ GetScan(t) \/ GetValue(t) \/ ReturnGet(t)

\* All calls have returned.
Finished == \A t \in Threads : todo[t] = <<>>

Terminating == Finished /\ UNCHANGED vars

Next ==
  \/ (\E t \in Threads : InsertStep(t) \/ GetStep(t)) /\ UNCHANGED scenario
  \/ Terminating

Spec == Init /\ [][Next]_vars

\* Every thread keeps running (the threads are std::threads on an ordinary
\* scheduler); a spinning thread that can make no progress is not a step.
FairSpec == Spec /\ \A t \in Threads : WF_vars((InsertStep(t) \/ GetStep(t)) /\ UNCHANGED scenario)

-----------------------------------------------------------------------------
(* Properties                                                               *)

PCs == {"idle", "i_depth", "i_target", "i_lock", "i_check", "i_compare", "i_probe",
        "i_value", "i_key", "i_return", "i_suspend", "i_wait", "i_recheck", "i_split",
        "i_dir", "i_dsuspend", "i_dwait", "i_double", "i_dlock", "i_update", "i_finish",
        "g_spin", "g_depth", "g_target", "g_lock", "g_check", "g_compare", "g_scan",
        "g_value", "g_return"}

\* Pointers in directories and locals are pointers to allocated segments, the
\* directory is as long as its depth says, slots hold key words, and a split
\* stores into entries the directory has.
TypeOK ==
  /\ scenario \in Scenarios
  /\ \A i \in DOMAIN segs :
       /\ segs[i].sema \in Int
       /\ segs[i].local_depth \in 0 .. HashBits
       /\ \A j \in Slots : segs[i].bucket[j].key \in KeyWords
  /\ \A d \in DOMAIN dirs :
       /\ dirs[d].sema \in Int
       /\ dirs[d].depth \in 1 .. HashBits
       /\ dirs[d].segment \in [0 .. Pow2[dirs[d].depth] - 1 -> DOMAIN segs]
  /\ dir \in DOMAIN dirs
  /\ pc \in [Threads -> PCs]
  /\ \A t \in Threads :
       /\ loc[t].target \in 0 .. Len(segs)
       /\ pc[t] = "i_update" =>
            \A n \in DOMAIN loc[t].writes : loc[t].writes[n][1] \in DOMAIN Dir.segment
  /\ acked \in SUBSET Keys
  /\ races \in SUBSET {"skew", "torn", "stray", "nested"}

\* suspend() of the target has returned true and the split is not published.
Splitting(t, i) ==
  /\ loc[t].target = i
  /\ pc[t] \in {"i_recheck", "i_split", "i_dir", "i_dsuspend", "i_dwait", "i_double",
                "i_dlock", "i_update", "i_finish"}

\* Between the copy of a segment's slots and the publication of the copy no
\* thread is inside the segment and no second thread splits it; while a thread
\* copies the directory no other stores entries into it or copies it as well.
\* Only an unlock() of a lock that was not taken breaks this, never the races
\* on `dir'.
SplitAlone ==
  "stray" \notin races =>
    /\ \A t \in Threads : \A i \in DOMAIN segs :
         Splitting(t, i) => \A u \in Threads \ {t} : ~Holding(u, i) /\ ~Splitting(u, i)
    /\ \A t \in Threads :
         pc[t] = "i_double" => \A u \in Threads \ {t} : pc[u] \notin {"i_double", "i_update"}

\* A segment the directory uses is closed only while some thread is splitting
\* it; otherwise every Insert into it would retry for ever.
ClosedHasOwner ==
  races = {} =>
    \A x \in DOMAIN Dir.segment :
      LET i == Dir.segment[x]
      IN  segs[i].sema < 0 =>
            \E t \in Threads : Splitting(t, i) \/ (pc[t] = "i_wait" /\ loc[t].target = i)

\* What a Get that ran alone now would return.
Lookup(k) ==
  LET seg == segs[Home(k)]
      i == ProbeFor(k, {j \in Slots : seg.bucket[j].key = k})
  IN  IF i = -1 THEN NONE ELSE seg.bucket[i].value

\* The values a program inserts for k.
ValuesFor(program, k) ==
  UNION {{program[t][n].value :
            n \in {m \in DOMAIN program[t] : program[t][m].op # "get" /\ program[t][m].key = k}}
         : t \in Threads}

Inserted(k) == ValuesFor(Program, k)

\* A key whose Insert has returned can be found, with its value, at every
\* moment of every later split and doubling.
NoLostKey == \A k \in acked : Lookup(k) \in Inserted(k)

\* The same, unless one of the races on `dir' has happened.
NoLostKeyWithoutRaces == races = {} => NoLostKey

\* Get returns a value inserted for its key, and returns NONE only if the
\* key's Insert had not returned when Get was called.
GetSound ==
  \A t \in Threads :
    (pc[t] = "g_return" /\ races = {}) =>
      /\ loc[t].result \in Inserted(Key(t)) \cup {NONE}
      /\ loc[t].must => loc[t].result # NONE

\* With no split being published, the entries of the directory that share the
\* prefix of a segment are the ones that point to it, and every segment knows
\* the depth it is used at.
DirectoryShape ==
  /\ TypeOK
  /\ (races = {} /\ \A t \in Threads : pc[t] \notin {"i_update", "i_finish"}) =>
       \A x, y \in DOMAIN Dir.segment :
         LET ld == segs[Dir.segment[x]].local_depth
             range == Pow2[Dir.depth - ld]
         IN  /\ ld <= Dir.depth
             /\ (x \div range = y \div range) <=> Dir.segment[x] = Dir.segment[y]

\* Every call returns.
AllReturn == <>Finished

KV == INSTANCE KVMap WITH store <- [k \in Keys |-> Lookup(k)], withdrawn <- {}

\* The table implements a map: splits and doublings leave the map seen by Get
\* unchanged and an Insert changes it in one step.
ImplementsMap == KV!Spec

=============================================================================

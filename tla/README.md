# Verification of the Persistent-Memory-Study case study

This directory holds TLA+ models, TLC configurations and TLAPS proofs for the
programs of *Persistent-Memory-Study*: the persistent indexes measured in the
case study, the multi-threaded harness that drives them, and the micro benchmarks
that have threads or data structures of their own.

## 1. Inventory

| Component | Source | State | Operations | Talks to |
|---|---|---|---|---|
| Segment / directory lock | `case_study/external_repo/cceh/CCEH-PMDK/src/CCEH.h` | `sema` | `lock`, `unlock`, `suspend`, plain store of 0 | used by every CCEH operation |
| CCEH hash table | `CCEH-PMDK/src/CCEH.{h,cpp}`, `util.h` | `dir`, directories (`depth`, `sema`, entries), segments (`local_depth`, `sema`, slots) | `initCCEH`, `Insert`, `Get`, `Segment::Split`, doubling, `Touch` | the harness calls it from many threads |
| CCEH persistence | the same, `wrap.cpp` | what is in the memory modules, what only in caches | `pmemobj_persist`, `Recovery` | power failures, restart |
| Harness | `case_study/tests.hpp` | `progress`, per-thread batches, sync buffers, `end_flag`, counters | main thread, workers, preread helpers | calls `Index::Insert/Get/Update/Delete/Touch` |
| FAST&FAIR B+-tree | `fastfair/fastfair.h`, `wrap.cpp` | pages (header, records), root | `btree_insert`, `btree_search`, `btree_delete`, `btree_search_range` | the harness |
| CCEH (MSB) | `cceh/src/CCEH_MSB.cpp`, `CCEH.h` | as CCEH, without an object pool | `Insert`, `InsertOnly`, `Get`, `Split`, doubling, `Recovery` | `cceh/src/test.cpp` |
| Extendible hashing | `cceh/src/extendible_hash.{h,cpp}` | `dir._`, `dir.capacity`, `dir.lock`, `global_depth`, blocks (`sema`, `local_depth`, `pattern`, slots) | `Insert`, `InsertOnly`, `Get`, `Block::Split`, `LSBUpdate`, doubling | `cceh/src/test.cpp` |
| CCEH (LSB) | `cceh/src/CCEH_LSB.cpp` | | | does not compile (section 7) |
| Level, cuckoo, path hashing, linear probing | `cceh/src/*.cpp` | bucket arrays, `resizing` flag, locks | `Insert`, `InsertOnly`, `Get`, `resize` | `cceh/src/test.cpp` |
| Index interface, driver | `kv_wrap.hpp`, `main.cpp`, `wrap.cpp` | none of its own | dispatch, workload files | harness |
| Lock hand-over | `micro_benchmarks/cases/read_after_flush.cpp` | `thread_lock`, `end_flag`, `start_tick`, offsets, a buffer | `read_after_flush_lock_contention`: main thread, T1, T2 | `main.cpp` |
| Pointer chasing | `cases/lat.cpp`, `cases/prefetching.cpp` | cycles of units in the mapped memory, `result.lock`, the collector | `access_lat`, `extreme_case_prefetching`, `rd_throughput_against_prefetching` | `main.cpp` |
| Single-thread sweeps | the other `micro_benchmarks/cases/*.cpp` | buffers | measurement loops | hardware counters |
| JSON library | `cases/json.hpp` | vendored | | |
| Scripts | `run.py`, `tools/*.py` | none | build, run, plot | |

What is hard in it, and what would make it correct:

* **CCEH.** Threads hold pointers to segments that others split or replace;
  `dir` is re-read by every expression that uses it; directory entries are
  redirected one by one under readers; in-place splits leave old entries behind
  and Insert reuses their slots.  Correct: a split is alone in its segment, no
  key is lost or found with another's value, no segment stays closed, every call
  returns.  The MSB version has the same protocol with other reads of `dir`, and an
  `InsertOnly` that refuses instead of splitting.
* **Extendible hashing.** `dir.capacity` and `dir._` are two loads and two stores, the old
  array is deleted under readers, the loop that locks a block can reopen one that a split
  has closed, and a pair is flushed through a second lookup.  Correct: no index past the
  end of an array, an acknowledged key stays in its block and is flushed, the directory
  has its shape whenever nobody changes it.
* **CCEH and power failures.** There is no log: `Recovery` infers an interrupted
  split from local depths.  Correct: an acknowledged key survives any number of
  failures, also during Recovery; the directory is well formed again.
* **Harness.** Batches are taken from one atomic counter; helpers read captured
  locals that may be dead and an uninitialised counter with unsigned arithmetic.
  Correct: each operation runs once, counters are exact, no index is out of range,
  nothing is used after it is freed, `test()` returns.
* **FAST&FAIR.** Readers scan a page without a lock while a writer shifts its
  records or splits it; a failure may stop it at any 8-byte store.  Correct: a
  key present throughout is found, no key twice, every intermediate state can be
  read.
* **Level, cuckoo, path, linear probing.** Resizing under shared locks; keys
  that fit nowhere during the move.  Correct: no key is lost.
* **Lock hand-over.** Two threads pass one word 0 -> 1 -> 2 -> 3 -> 0 and either may see
  `end_flag` at any point; both move through the buffer with offsets that wrap.  Correct: T2's
  sample is measured from the stamp of the round it reads, the report divides by the number
  of samples, T2 reads the line written `distance` before, both threads end.
* **Pointer chasing.** Workers share the mapped memory, the jobs follow one another in it,
  the collector lives from the first barrier to the last join.  Correct: a walk touches every
  unit of its region once and no other, the collector spans every walk, the walk ends.

`PROJECT.json` lists the hazards line by line, with the properties about them.

## 2. Plan

Done, in this order:

1. `SegmentLock`, refinement of `Gate`, proofs.
2. `CCEH` in both builds of CCEH-PMDK, then both of `CCEH_MSB.cpp`, refinement of `KVMap`
   where it holds.
3. `CCEHRecovery`.
4. `Harness`, proofs.
5. `FastPage`, one page of the B+-tree, and `FastFairTree`, the tree over its pages,
   with deletes and range searches, again implementing `KVMap`.
6. `HashTables` and `StaticHash`: linear probing, cuckoo, path and level hashing, with the
   loader's `InsertOnly`.
7. `ExtendibleHash`.
8. `Handover`, `Chase` and their composition `MicroBench`, proofs.
9. `Powers`; proofs about `CCEH` (locks, bounds, the shape of the directory) and
   `ExtendibleHash` (bounds, directory, acknowledged keys).
10. Proofs about `CCEHRecovery`.

Next:

1. `Recovery` of `CCEH_MSB.cpp`; failures of the copy-on-write build of CCEH and during
   `initCCEH`.
2. FAST&FAIR: failures between the stores of `insert_key` and `store`.
3. Several writers in one page of FAST&FAIR, at the level of stores (the unlocked insert of a
   split, section 5).
4. Proofs: `AckedSurvive` of `CCEHRecovery` with overlapping Inserts, `NoLostKeyWithoutRaces` and
   `GetSound` of `CCEH`, `WellFormed` of the tree.

## 3. Modules

| Module | Models | Composition |
|---|---|---|
| `Gate` | what the semaphore promises | abstract |
| `SegmentLock` | `sema` at the level of loads and CASs | implements `Gate` |
| `KVMap` | a map with atomic inserts and removals | abstract |
| `CCEH` | concurrent Insert, InsertOnly and Get; four builds | implements `KVMap`; uses the lock as an atomic step, which `SegmentLock` justifies |
| `CCEHRecovery` | in-place Insert with power failures and `Recovery` | |
| `Harness` | `test()` | |
| `FastPage` | `insert_key`, `remove_key`, split of one page against `linear_search` | |
| `FastFairTree` | `btree_insert`, `store`, `btree_search`, `btree_delete`, `btree_search_range` over pages | implements `KVMap`; page operations are atomic steps, with the results `FastPage` allows for one writer in a page; where two writers can meet, the behaviour is marked and followed no further |
| `HashTables` | layouts, displacement, `resize()` of the static tables, as operators | |
| `StaticHash` | their threads and locks | extends `HashTables` |
| `ExtendibleHash` | concurrent Insert, InsertOnly and Get of extendible hashing | |
| `Powers` | `Pow2`, for the bits of a hash | used by `CCEH`, `CCEHRecovery` and `ExtendibleHash` |
| `Handover` | `read_after_flush_lock_contention` | |
| `Chase` | the three pointer-chasing tests | |
| `MicroBench` | `main()`: dispatch and `munmap` | composes `Handover` and `Chase` |
| `MC...` | instances for TLC | extend the module they are named after |
| `...Proofs` | theorems | extend the module they are named after; `ExtendibleAckedProofs` builds on `ExtendibleHashProofs` |

Operators whose comment starts with *Mutant:* are not part of any specification:
each is a plausible slip in the definition that follows it, and is used to confirm
that a property notices it.

### SegmentLock and Gate

`sema`, and per thread the place in `lock`/`unlock`/`suspend` and the local `val`.
`LockLoad`/`LockCAS`, `UnlockLoad`/`UnlockCAS`, `SuspendLoad`/`SuspendCAS`/
`SuspendWait` are the statements of the loops of CCEH.h:68-98; a failed CAS reloads
`val`.  `Reopen` is `target->sema = 0`; `Retire` is the copy-on-write build, which
leaves a replaced segment negative.  The same code is in `Directory` (122-152).

### CCEH

Pointers are indices into `segs` and `dirs`, which grow and never shrink (the code
frees neither).  A thread's `pc` names the next shared access of `Insert`
(CCEH.cpp:198-404) or `Get` (406-479); `loc` has the local variables.  The variable
`scenario`, chosen in `Init` from the constant `Scenarios`, gives the build and the calls of
each thread: CCEH-PMDK or `CCEH_MSB.cpp` (`MSB`), in place or copy-on-write (`INPLACE`).  The
two sources differ in three places: the copy-on-write split of `CCEH_MSB.cpp` also tries the
second probe window, its copy-on-write `Get` does not unlock the segment it did not lock when
its check fails, and it has `InsertOnly`, which refuses instead of splitting.  One action per read of `dir`, per semaphore operation, per store.
Three abstractions:
* the semaphore operations are atomic (`SegmentLock` shows that they appear so);
* a probe loop is one step: while a thread is inside `lock()`, slots only change
  from free to claimed to a key, so what a scan claims was free at the claim;
* `Split` is one step: `SplitAlone` shows nobody else is in the segment.

`races` is a history variable: `"skew"` once a directory has been doubled for a
segment whose depth is not the directory's, `"torn"` once an Insert or Get has passed
its check with a segment that is not its key's, `"stray"` once a thread has decremented the
semaphore of a segment it had not locked while somebody depended on its value, `"nested"` once a
split has redirected an entry that did not point to the segment it split.  Properties
that the races break are stated without them; section 5 says what each race does.

### CCEHRecovery

Two images of the same objects: `mem` (what loads return) and `pm` (what survives).
Stores change `mem`, `pmemobj_persist` copies one location, `Evict` copies any one
location at any time, `Crash` sets `mem` to `pm` and starts `Recovery`
(CCEH.cpp:475-492), which the model runs group by group and which may itself be
interrupted.  External: `Evict` and `Crash` (the memory and the power supply).
Abstracted: Insert takes *some* free slot, and splits when there is none (the code looks at two
probe windows, which are in `CCEH`, and may split a segment that is not full; the order of
stores and persists is the same); value and key of
a pair share a cache line and x86 keeps the order of stores to one line, so a pair is
its key; the directory's lock does not matter to what is durable; `suspend` with lockers
inside is not entered (only `sema = 0`), which `SplitAlone` justifies.

### Harness

`main` is the main thread, `wpc`/`start_idx`/`end_idx`/`i` the workers, `hpc`/`t_id`/
`copy`/`progerss` the helpers (the name is the source's), `curr` the sync buffers.
`HelperStart` after the main thread has left the block that declares `thread_id` and
`preread_shreshold` reads dead locals: any member of `StaleIds`/`StaleThresholds`.
`progerss` starts with any value, and `Minus` is the unsigned subtraction modulo
`Modulus`.  A dead `thread_id` is taken not to be negative (section 5).

### FastPage

The page's mutex admits one writer, so the stores of an operation are a function of the
page it finds: `stores` is that list, computed by `InsertStores`, `RapShift`, the removal
and the split, and `Store` performs its head.  The reader's `pc` names its next load in
`linear_search` (fastfair.h:887-1010) and `r` has its locals.  `kind` is a leaf of the original
build, a leaf of the `RAP_MOD` build or an internal page.  `OwnFirst` is the order in which
the operands of `records[i - 1].ptr != (t = records[i].ptr)` are loaded and `Reloads`
whether plain fields are loaded again for the second comparison: both are left open by C++.
`must` and `may` are history: has the searched key been present throughout, or at any time.
`skipped` and `entered` are history of the current scan: has it skipped a slot under
construction, and which records have become valid since it began.

### FastFairTree

Pages are indices into `pages`, which only grows.  A page operation (a scan, a store of a
record, the cut of a split) is one step; what is interleaved is the way from page to page:
lock-free descents, moves to the sibling, and the four steps of a split (publish the
sibling, cut the page, place the key, release and carry the separator up).  A load phase
fills the tree before the other threads start, as `test()` does.

That an operation on a page is one step does not mean that it is exact:
* `Descend` may return, in place of the child for its key, the child of any record that was
  entered into the page while it was scanned (`entered`).  That is what
  `RouteSoundUnlessEntered` allows a search of an internal page to do; a split makes the scan
  begin again.  Such a thread is `misled` until it begins at a root again.  `misplaced` has the keys
  that misled threads put into a leaf they do not belong to, or did not find and so did not
  delete; searches may not find the former.
* `FastPage` has one writer in a page.  The code has two, if a thread is between setting
  `sibling_ptr` and the insert of its key into the new page (fastfair.h:783), for which it does
  not take that page's mutex, and another has followed `sibling_ptr` and writes there under the
  mutex.  `UnlockedInsert` says when that is so; a `Lock` or `Remove` that would make the second
  writer sets `overrun`, and no further step is taken: from then on the page may hold anything.
* `FastPage` has no range search.  `RangePage`, the scan of one page by
  `linear_search_range`, is one exact step; nothing here justifies that abstraction.
  `Remove` is
`btree_delete` with its retries from the root; `RangePage` and `RangeNext` are the two parts
of the loop of `btree_search_range`, whose direction of scan in a page depends on its last
writer (`scan`).  `low` is the split key a page was made with; `strayed` has the keys that were put into a
leaf although they belong to its sibling (section 5).

### KVMap

`store` is the map a search sees, `acked` the keys whose insert has returned, `withdrawn`
the keys whose delete was called and has not taken effect.  `Put` makes a key appear at one instant, `Acknowledge`
returns, `Withdraw` begins a delete and `Remove` takes a withdrawn key away; nothing else
leaves.  `CCEH` maps `store` to what a lookup through the current directory finds,
`FastFairTree` to what a descent from the current root finds.

### HashTables and StaticHash

The four tables share a protocol: wait for `resizing_lock`, compute indices, try places
one by one under a striped mutex, then take `resizing_lock` to displace an entry or to
resize under all mutexes.  `HashTables` has what differs: `Probe` (where Insert tries),
`Looks` (where Get looks), `find_path`/`execute_path`, `try_movement`/`b2t_movement` and the
four resizes.  `StaticHash` has the threads.  A critical section is one step, except where
`find_path` reads without a mutex (cuckoo hashing): there `claimed` and `execute` are
states.  `JUNK` is a level-hashing slot whose uninitialised token is not 0.  `races` is a
history variable as in `CCEH`: `"overtaken"` and `"dropped"`.  The load phase uses `InsertOnly`
where the scheme has one that stores.

### ExtendibleHash

The build of the Makefile: low bits of the hash, no `INPLACE`.  Blocks and arrays are
indices; a split leaves its block closed (`sema = -1`) for ever and makes two new ones.
`ReadCapacity`, `ReadArray` and `ReadTarget` are the three loads behind `dir._[x]`;
`PublishArray`, `PublishCapacity` and `DeleteOld` the three statements that end a doubling;
`LSBUpdate` is the order of the stores that redirect entries, one `StoreEntry` each.
`Lock` keeps the form of lines 61-65, whose `sema` is loaded once and never compared with -1
inside the loop.  `races` records `"resplit"`, `"freed"` and `"torn"` (section 5).  A thread that
follows an entry of a deleted array is `"lost"` and takes no further step: what it finds there
is undefined.  So is one that calls `LSBUpdate` with a depth difference below zero, which
recurs until it divides by zero.

### Handover

`thread_lock`, `end_flag` and `start_tick` are the shared words, `p1` and `p2` the places of T1
and T2, `count` and `rounds` the samples each has taken, `j1` and `j2` their offsets.  A tick is the
round it was taken in, so that *which* stamp a sample is measured from is what remains of
time.  `StartRun` is the call of `run()` with all its resets, `PassBarrier` the pthread barrier.

### Chase

Sizes and addresses are counted in units of 256 bytes.  A worker builds a cycle over its
region (`next`) in sequence or in any shuffled order, waits at the barrier of its test, and
walks from a random unit; `hits` counts the accesses of an iteration.  The units keep what
the previous job linked.  A size check that refuses a job is `"exit"`; an access beyond the mapped
memory is `"fault"`, and following a `next` pointer that a job has overwritten is `"wild"`, which
`EachOnce` forbids.

### MicroBench

`main()` maps the memory, calls one test and unmaps.  `MicroNext` interleaves nothing of the two
tests: a process runs one of them.

## 4. Runs

| Run | Checks | Result |
|---|---|---|
| `segment_lock` | `TypeOK`, `SplitExclusive`, `SuspendReturns`, `ImplementsGate` | three threads in all interleavings of their loads and CASs |
| `cceh` | `SplitAlone`, `ClosedHasOwner`, `NoLostKeyWithoutRaces`, `GetSound`, `DirectoryShape` | four builds: inserters whose splits change four entries, a split inside the range of another, inserts that must not split, readers (906,000 states) |
| `cceh_map` | `AllReturn`, `ImplementsMap` | two probe windows, one of which overflows: the table is a map |
| `cceh_skew` | `NoLostKey`, violated | finding |
| `recovery` | `AckedSurvive`, `ShapeRestored`, `DepthAfterEntries` | power failures anywhere in Insert and Recovery |
| `recovery_last` | `AckedSurvive`, violated | finding |
| `harness` | `ExactlyOnce`, `CountersExact`, `TouchInRange`, `FreedLast`, `TestReturns` | workers and helpers, dead locals hold anything |
| `fastfair_page` | `PageAtRest`, `NoWrongValue`, `NoMiss`, `RouteSoundUnlessEntered` | every store of a writer against every load of a reader (2,562,000 states) |
| `fastfair_tree` | `WellFormed`, `NoMiss`, `RangeComplete`, `AllReturn`, `ImplementsMap` | growing trees, deletes, range searches, misled descents: the tree is a map (138,000 states) |
| `static_hash` | `NothingLost`, `GetFinds` | four schemes, many orders of colliding keys, displacement and resize |
| `extendible` | `InBounds`, `AckedStay`, `DirectoryShape`, `GetSound` | three threads, a directory grown from one to eight entries (1,226,000 states) |
| `micro` | `SampleMatches`, `AverageClose`, `ReadLag`, `EachOnce`, `MeasureSpans`, `Returns` | tests 6 to 9 of the micro benchmarks through `main()` (123,000 states) |

The type invariants of `CCEH`, `ExtendibleHash`, `CCEHRecovery`, `FastPage`, `FastFairTree` and
`StaticHash` are conjuncts of `DirectoryShape`, `ShapeRestored`, `PageAtRest`, `WellFormed` and
`NothingLost`; those of `Harness`, `Handover`, `CCEH` and `ExtendibleHash` are proved.

### Bounds

* `SegmentLock`: three threads, so that a suspender waits for one locker while another
  tries to enter, and two suspenders meet.  The proofs cover any number.
* `CCEH`: `HashBits = 3` bounds the depth of the directory; `InitDepth =
  1`.  The programs (module `MCCCEH`) are chosen so that the interesting cases occur:
  two segments overflow at the same time, the directory is doubled twice, a segment of
  depth 1 is split in a directory of depth 3 (four entries change), a key moves while it
  is read.  One-slot segments make every second key split; two-slot segments with one-slot
  windows (`cceh_map`) make both probe windows matter.  `Refusals` has `InsertOnly` against a
  split; `CowReads` a reader of a segment that is replaced; `CowStray` a reader that unlocks
  another key's segment.
* `CCEHRecovery`: hashes of four bits, `InitDepth = 2`, one thread.  With two keys there
  are three failures, so that Recovery itself is interrupted, more than once; with four keys
  there is one, and a segment with four entries is split.  The keys avoid the last group of the directory,
  which Recovery skips (run `recovery_last` has keys in it).
* `Harness`: two workers, two operations, batches of one; helpers with any dead locals.
  `Modulus` stands for 2^64; `N + PreRead < Modulus`.  The proofs cover every value.
* `FastPage`: four keys, three records and the slot that ends them, two slots in a cache
  line of which the header takes one, five operations of the writer: enough for a page to
  fill, shift in both directions, lose its leftmost record and be split under the reader.  `OwnFirst = {TRUE}` and `Reloads
  = TRUE`: the other values are discussed in section 5.
* `FastFairTree`: pages of three records.  The load phase fills the right edge of a tree of
  one, two or three levels, then three threads run (`Edge(3)`, `Edge(6)`, `Edge(9)`); in
  `Twice` a leaf is split twice under a search; in `Stray` a separator enters a page that no
  longer covers it; in `Removals` deletes and range searches meet splits, and writers the
  unlocked insert of a split (`overrun`); in `Misled` searches, range searches, an insert and
  a delete scan the root while a separator enters it, go too far to the right and miss,
  misplace or leave a key behind; in `Deep` a separator does.  No page loses its
  last record in these programs: the code has no merging that is called, and a page
  without records is outside what `btree_delete` provides for.
* `StaticHash`: nine keys that collide in tables of two to eight slots and have places of
  their own in a larger one, two mutexes, buckets of one slot, two levels of path hashing
  beyond the first, paths of at most four displacements, three resizes, and at most one
  slot of garbage.  Eighteen orders of the keys for each scheme, before and after its first
  resize: displacements on all levels, moves from the bottom to the top, paths of three
  and more steps, resizes, and Gets during all of them occur.
* `ExtendibleHash`: three threads, blocks of two slots, `InitDepth = 0`, `HashBits = 4` as the
  deepest directory.  `Doublings` has two threads that double and one that reads, `Strides` a
  split that changes four entries of a directory of eight, `Refusals` `InsertOnly` against a
  split, `Overtaken` three threads at one full block of which one splits it again, `Lag` an
  Insert whose index is older than the directory.
* `MicroBench`: a cache line of two bytes, nine rounds of T1 in each of four runs with
  different buffer sizes and distances, so that the offset wraps twice; one to three workers with
  regions of two to four units in all shuffled orders, two iterations, up to three jobs after one another in a
  memory of eight units; jobs that a size check refuses, and one that none refuses.  The proofs
  cover any buffers, distances and rounds, and any jobs, workers and units.

`CHECK_DEADLOCK FALSE` appears where a model may stop: after a race, a thread of `CCEH`
may want to split beyond `HashBits` bits; in `ExtendibleHash` a thread may need a deeper
directory than `HashBits`; in `MicroBench` the process ends; in `CCEHRecovery` all keys may have been
inserted, or a failure has left a segment closed and no Insert into it can proceed; in
`FastPage` the writer's operations are used up.

### Fairness

Only weak fairness, per thread.  `SegmentLock!FairSpec`: a thread inside `lock()` reaches
`unlock()` (a probe is a bounded loop) and the loops of `unlock` and `suspend` keep
running; nobody is obliged to call anything, and an owner need not finish.
`CCEH!FairSpec`, `FastFairTree!FairSpec` and `Harness!FairSpec`: every started
thread keeps running, as `std::thread`s on an ordinary scheduler do.  `MicroFairness`: the same
for T1, T2 and the main thread, whose sleep ends, and for the workers of a walk, which are
finitely many with finite loops.  Nothing is claimed to return in `ExtendibleHash`: two threads
whose splits fail alternately restart each other without bound.  No strong fairness: the code has no queueing,
so a thread can lose any number of CAS races while others progress; with finite programs
that is finitely many.

## 5. What disagrees with the documents

Two runs end in a counterexample.  Each is a behaviour of the code that contradicts a
line of the repository, quoted in `PROJECT.json` under `findings`.

* `cceh_skew`: `dir->depth` is compared before `dir` is locked.  Two threads that overflow
  different segments of one directory double it twice; an acknowledged key is gone.
* `recovery_last`: `Recovery` leaves its loop before it has repaired the group that ends the
  directory; acknowledged keys of that group are lost after a power failure.

The models show more of the kind.  The properties of the passing runs are stated so that
these are excluded by name (`races`, `must`, `misled`, `strayed`, `misplaced`, `overrun`, a
constant), and each is reproduced by
the change of configuration in brackets (`Sc` is an operator of `MCCCEH`):

* CCEH, nested splits: the threads that redirect entries share the lock of the directory
  (CCEH.cpp:346).  As soon as one entry leads to the new half of a segment, another Insert may
  fill that half, split it and redirect entries that the first thread has still to redirect;
  the loop of the first (383-385) then stores the old half over the new one, and the keys that
  have moved to it are gone [`CCEHSkew.cfg`, scenario `Sc("pmdk_inplace", Nested)`, threads
  t2 and t3].
* CCEH, torn reads of `dir`: the index is computed with one directory and the entry read
  from another [`CCEHSkew.cfg`, scenario `Sc("pmdk_inplace", TornReads)`].
* CCEH, copy-on-write build of CCEH-PMDK (the Makefile's default is `-DINPLACE`): when `Get`
  fails its check it calls `unlock` (CCEH.cpp:438) on a segment it has not locked, since the
  lock is in `#ifdef INPLACE` (428-434).  If the segment has been replaced that does no harm.  But
  the two reads of `dir` around a doubling may name a live segment of other keys, whose
  semaphore goes to -1: nobody owns it and every Insert into it retries for ever (`"stray"`)
  [`CCEH.cfg`, scenario `Sc("pmdk_cow", CowStray)`, `ClosedHasOwner` without its condition on
  `races`; with `FairSpec`, `AllReturn`]; a split that finds the first probe window full drops the entry [`Sc("pmdk_cow", CowFill)`,
  `Threads = {t1}`, `NumSlot = 2`, `SIdx <- AllSecond`, `NoLostKey`].
* CCEH, in-place build, one thread: slots of moved entries are reused, and a later split that
  finds both windows of an entry full drops it [`Keys4`, `Hash4`, `F4`, `S4`,
  `Sc("pmdk_inplace", Reuse)`, `NumSlot = 3`, `HashBits = 4`, `NoLostKey`].
* CCEH_MSB: `InsertOnly` uses one depth for the index and for the check, so a key may go to a
  segment of another prefix (`"torn"`).  By reading: `CCEH(void)` makes a directory of depth 0,
  whose index shifts by 64, which is undefined (the model has `InitDepth >= 1`); line 294 flushes
  a pointer variable and not what it points to; `std::this_thread::yield;` (275) is not a call.
* ExtendibleHash: the lock loop (61-65) can raise `sema` of a block that a split has just closed
  from -1 to 0, and a third thread then splits it again, so that an acknowledged key is gone
  (`"resplit"`) [`AckedStay` without its condition on `races`]; after such a second split
  `LSBUpdate` may be called with a negative depth difference, `dir_cap` becomes 0 and `x % dir_cap`
  (175) divides by zero; an Insert that computed its index at a smaller capacity can store through an
  entry that another thread has redirected in the middle of `LSBUpdate` and return before the entry of its key
  is redirected, so that a `Get` in between misses an acknowledged key (`"torn"`) [scenario `Lag`,
  `GetSound` with `"torn"` allowed]; `Get` pairs an old capacity with a
  new array (`"torn"`; line 337 has the comment "TODO: requiered to do this atomically");
  a thread reads an array that has been deleted (336; `"freed"`).  By reading: line 328 flushes
  the old array and not the new one.
* CCEHRecovery: a segment closed by `suspend` when the power failed stays closed
  [`SegmentsReopen`]; the doubled directory is published before its struct is persistent
  [`DirectorySurvives`].  With two threads a failure meets the race of `cceh_skew` and
  leaves segments deeper than their directory, so the run has one thread; and an Insert into
  the new segment of another thread's split may return before the entries that lead to it are
  durable, so that a failure loses its key [`Threads = {t1, t2}`, keys 4, 5 and 6, `AckedSurvive`].
* Harness: a helper may run further ahead than `prereadnum` [`HelperLead`].  By reading: the dead
  `int` that a late helper takes for `thread_id` (tests.hpp:95-99) may be negative; it passes the
  test `t_id + 1 > thread_num`, and the helper copies from before the sync buffers.
* FastPage: a search of an internal page that skips a slot under construction reloads
  `records[i - 1].ptr` (fastfair.h:976) and may route to the child of a record that is being
  entered, right of its key [`Kinds <- Internal`, `RouteSound`]; if the compiler loads the left operand of `!=` first,
  or does not load the fields again, a search may return another key's value
  [`OwnFirst <- Left` or `Reloads = FALSE`, `NoWrongValue`]; in the `RAP_MOD` build a search
  may miss a present key, because a line's first slot is overwritten before the record in it
  has its new place [`NoMiss` stated for every `kind` but `"internal"`].
* FastFairTree, misled descents: such a child is right of every page that may hold the key, and
  nothing goes back to the left.  A search misses a key that was stored before it began, and
  so does a range search; an insert stores its key in a leaf to the right of its own, and if
  that is not the next one, searches do not find it, although the insert has returned; a delete
  reports that its key is not there and leaves it [scenario `Misled`: `NoMiss` and `RangeComplete`
  without `misled`; `NoMiss` and `ImplementsMap` with `strayed` for `Excepted`].  A misled separator enters a page that does not cover it (`Deep`).
* FastFairTree, the insert of a split into its new page (783): it takes neither that page's mutex
  nor a fresh count (`sibling_cnt`), although the page can be reached through `sibling_ptr` since
  line 760.  If the new page has 8 and 10 and the key is 11, and a delete that has followed
  `sibling_ptr` takes 8 away first, then 11 is stored at the old count, behind the NULL that now
  ends the page, and is lost although its insert returns; and when the two overlap, or two
  inserts do, each shifts records under the other's stores [`Programs <- Removals`, invariant
  `~overrun`: they meet].
* FastFairTree: `btree_search` reads the sibling pointer a second time; after two splits of a
  leaf it takes a page for a value [`Programs <- Twice`, `SearchSound`].  After a delete of the first key
  of a freshly split page an insert that arrives through the left sibling compares with the
  new first key (line 715) and may store its key on the left; once the separator is in the
  parent, searches miss it (`strayed`).  `btree_search_range` misses keys in pages last touched by a delete: its backward
  scan uses the count of the first page (853) and returns at the first key not below `max`
  (852-879), although line 1206 says "Function to search keys from "min" to "max""; after a
  split between its scan and its read of the sibling it reports records twice.  `btree_delete` of
  an absent key calls itself for ever (1154) unless the key is beyond the last leaf.  Neither
  function has a caller in the case study.
* Micro benchmarks: `rd_throughput_against_prefetching` checks the size of one thread's region
  only, so several threads can leave the mapped memory (`"fault"`); `access_lat` starts its
  collector when the fastest worker has built its cycle, so the building of the others is
  measured; its walk leaves out the starting unit but divides by `unit_num`; a non-temporal store
  of `calc_lat` overwrites the unit's `next`; the report of the hand-over divides by zero if T1
  never got the lock, and its offset goes through `wss / 64 + 1` lines; were `wss` a multiple of 64
  (`run` is called with 50000), the last of them would lie behind the buffer and T2, which subtracts
  modulo `wss`, would read the first line in its place (`RunsAssumption`); the README there says that
  work.json configures `write_buffer`, but `read_buf_amp_tst` reads it.
* StaticHash: an Insert that computed its index before a resize stores with it after the
  resize (`"overtaken"`); the resizes of path and level hashing drop what fits nowhere
  (`"dropped"`); cuckoo hashing calls `exit(1)` when its search for a path meets `SENTINEL`; its
  `Get` reads `old_tab` while `resizing_lock` is set, also before the first resize, when it is
  not initialised (`"undefined"`); a `Get` may look in the second place of a key before it
  is moved to the first [`GetFinds` without `stale`].

The passing runs say that beyond these the protocols do what they promise.

## 6. Proofs

`SegmentLockProofs`, for any finite set of threads (`ThreadsAssumption`):
* `Invariance` of `Inv`, and from it `TypeCorrect`, `SuspenderAlone` (`SplitExclusive`),
  `RetiredClosed` (`RetiredIsClosed`) and `GateRefinement` (`ImplementsGate`).
  `SplitExclusive` is not inductive: that nobody is inside follows from the wait
  loop's equality test only if the counter is exact.  The inductive invariant `Inv` adds
  `Accounting` (an open counter is the number of holders; a suspended one is the number
  found less those that left), `PendingCAS` (a pending CAS of `lock` or `suspend` compares
  with a non-negative value, so it cannot succeed on a suspended segment) and
  `NegativeHasCause`.  The proof has one lemma per action; the cardinality steps rest on
  `FiniteSetTheorems`.

`HarnessProofs`, for any number of workers, batch size, workload and modulus
(`HarnessAssumption`):
* `Invariance` of `Inv`, and from it `TypeCorrect`, `Partition` (`BatchesPartition`),
  `WorkloadDone` (`ExactlyOnce`), `TouchSafe` (`TouchInRange`), `NoUseAfterFree`
  (`FreedLast`).  `BatchesPartition` needs `WorkerRanges` (a worker's batch was taken
  below `progress` and its position is inside it) and `BatchesDisjoint`; `FreedLast` and the
  helper's accesses need `Lifecycle`.
* `TallyHolds` of `Tally`, and from it `CountersAreExact` (`CountersExact`).  The counters are sums
  over the workers, and a sum over a set is out of the prover's reach; `Tally` says instead that there is
  a way to attribute each operation done to one worker under which every local counter is
  the number of that worker's operations, and every flushed one is part of the shared counter.

`MicroBenchProofs`, for any sequence of runs whose buffer ends inside a line and is longer than the
distance, any line size and number of rounds (`HandoverAssumption`, `RunsAssumption`), and any jobs,
workers, iterations and memory size (`ChaseAssumption`):
* `MicroInvariance` of `MicroInv`: main() and the test that it calls.
* `SamplesPaired` (`SampleMatches`) and `AverageExact` (`AverageClose`).  Neither is inductive: that
  T2's sample belongs to the round T1 stamped depends on who holds the word at each of its values
  (`Holders`), on how far one thread can be ahead of the other (`Pace`), on `start_tick` between
  T1's stamp and T2's read (`Stamped`), and the divisor on what has been counted when a thread
  leaves (`Counted`).
* `ReadsLag` (`ReadLag`).  `LinesOK` says where both offsets are and, in closed form, which round wrote
  each line last (`LastWriter`).  T1 and T2 count modulo the lines, one more than fit, while T2 subtracts
  modulo the bytes: `ReadLine` has both cases, and `RunsAssumption` is what they need.
* `CollectorSpansJob` (`MeasureSpans`).  `Collector` says that at most one worker is about to create
  the collector, and nobody is behind the barrier before it exists; for `access_lat` this hangs on
  `result.lock`, for the other tests on who creates it.
* `IterationVisitsAll` (`EachOnce`).  `Walks` says of every worker that its pointers are the cycle of its
  order (`Linked`) and that the accesses of the iteration are one to each unit of an arc of it
  (`ArcOf`), from the starting point to where the worker is.  An order is onto because it is
  injective (`OrderOnto`, by the pigeon hole theorem), and no other worker links or overwrites a unit
  of the region (`RegionsApart`).  A worker that walks is on its cycle, so it never follows an
  overwritten pointer (`TameStep`).

`PowersProofs` has what the two hash tables need of powers of two, division and remainders,
and two schemes that take the place of induction over data.  The library's induction
theorems have an operator as a parameter, which the provers cannot instantiate; stated about
the *set* of numbers for which something holds (`BoundedInduction`) and about the fact that a
function defined by `f[i] = Step(i, f[i - 1])` exists, given as a set of pairs
(`LoopExists`), they can be cited.  So what `Pow2`, the copy loop of a split and the recursion of
`LSBUpdate` compute is proved for every input.  It also has what becomes of a directory, seen as a
function on `2^g` entries, when the range of one segment is divided between two (`RangeSplit`)
and when the directory is doubled (`RangeDouble`).

`CCEHProofs`, for any finite set of threads, keys, hash function, slots, programs and each of
the four builds (`CCEHAssumption`):
* `InvHolds` of `Inv`, and from it `TypeCorrect` (`TypeOK`), `SplitsAlone` (`SplitAlone`) and
  `ClosedIsOwned` (`InPlaceClosedHasOwner`).  `SplitAlone` says that nobody is inside; the wait
  loop only says that the counter has a value.  `SegLock` accounts for the counter: open, it is
  the number of threads inside, closed, it belongs to one thread, which waits for those it
  counted.  `DirLock` is the same for the directory.  `DirsOK` and `LocalsOK` are needed because
  an index, a depth and a pointer are read in different steps: a directory never shrinks, the
  depth of a segment is changed by its owner only, and no entry is deeper than the
  directory, so the entries that a split stores exist.  `SegLocks` is claimed until `"stray"` is recorded, and
  the in-place builds never record it: there `ClosedIsOwned` holds through every race on `dir`.
* `PlanHolds` of `PlanInv`, and from it `ShapeHolds` (`DirectoryShape`) and `ClosedInUseIsOwned`
  (`ClosedHasOwner`), until a race is recorded.  Splits share the lock of the directory, so while
  several of them store into it no entry need be where the depths say.  `Plan(F)` speaks of the
  directory `F` that the stores under way lead to: `F` is well formed for the depths the
  segments will have (`Shape`), and for each entry the stores that are left make a chain from what it
  holds to what `F` gives it, each replacing the segment its thread splits (`EntryPlan`).  So `F` changes
  only when a split enters the critical section (`RangeSplit`) and when the directory is doubled
  (`RangeDouble`), and every store moves one entry along its chain.  That a store replaces what its
  thread split is the absence of `"nested"`: without that the invariant is not inductive, and
  section 5 has the lost key.

`ExtendibleHashProofs` and `ExtendibleAckedProofs`, for any finite set of threads,
calls, hash function, block size, initial and greatest depth (`ExtendibleAssumption`,
`ThreadsAssumption`):
* `InvHolds` of `Inv`, and from it `TypeCorrect` and `IndexInBounds` (`InBounds`).  An index from an
  old capacity is within every later array because capacity grows after the array does
  (`Sizes`), which holds at the three stores of a doubling because they have one owner (`Locked`).
* `LSBUpdateStores`: the recursion stores to every entry that agrees with the block's bits, each
  with the half of its next bit, and to no other.
* `DirectoryHolds` of `Directory`, and from it `DirectoryIsShaped` (`DirectoryShape`).  While threads
  have split and not yet updated, and while an update has made some of its stores, the
  directory has no shape to speak of; `Shape` says to which block an entry leads once the
  stores under way are made (`Leads`), that an unsplit block has all its entries or is not yet
  published, and that nobody else knows the halves of a split.
* `UpdateTerminates`: without a second split of a block, `LSBUpdate` gets a depth
  difference that is not negative.
* `ContentsHold` of `Contents`, and from it `AckedStays` (`AckedStay`).  A block that was split is full
  and its halves have its pairs, written back; so an Insert that is still inside, or that flushes
  through an old entry, has its pair kept elsewhere.  `SemaOK`, `SlotsOwned` and `FullSeen` say
  why a block that is split is full.
* `SeeingHolds` of `Seeing`, and from it `GetIsSound` (`GetSound`).  `AckedStay` is about the entry an
  update will have stored, `Get` follows the one that is there.  An array that was published is
  never stored to again once there is a newer one, so an entry of it leads to a block that was
  split, or where the newest array leads (`OldLead`).  Hence the target of an Insert that has not
  stored its key (`SeekAt`) is the block of the key or was split; as a slot that is taken shows
  that it was not split (`SplitFull`), the key is stored where it is looked up (`PutAt`), and each later
  store to the directory leads to a half that has it.  A `Get` that read an older array
  still has the block with the key before it (`AskAt`), because a block that was split keeps its
  slots.  The hypothesis `NONE \notin Values` is needed: `Get` returns 0x0 for a key it does not
  find, so a stored 0x0 cannot be told from a miss.

The thread sets are assumed finite because the semaphores count.

`CCEHRecoveryProofs`, for any keys, hash function, hash bits, slots, initial depth and workloads with
any number of power failures (`RecoveryAssumption`).  Entries whose first `InitDepth` bits are
all ones are called the last block: it contains the group that ends the directory, which
`Recovery` leaves as it finds it.
* `RecoveryInv` of `Inv`, and from it `RecoveryDepthAfterEntries` (`TypeOK`, `DepthAfterEntries`).  What is
  true of one image is not enough, because a failure puts together entries, depths and `dir` that
  were evicted at different times.  `Live` and `Dead` speak of both images, and of the
  directory `pm.dir` still names after a doubling: a group starts at a leader, is as
  long as the leader's segment says, and other segments in it are deeper and in its upper
  half (`Leaders`); the entries of one segment agree on as many bits as its depth says
  (`Together`).  Hence a stored entry that is not durable, or is durable before its depth, is
  always one that `Recovery` either sets back or finds complete, and its loop,
  which goes by strides it reads from the segments, steps from leader to leader.
* `RecoveryWhole` of `Whole`, and from it `RecoveryShapeElsewhere` and `RecoveryShapeRestored`
  (`ShapeRestored`).  Outside the last block each group is whole, except that of a segment that is
  being split; after a failure, those below `ri` are.  `ShapeRestored` itself needs that the last block is
  as `initCCEH` made it (`Spared`), which follows if no key belongs to it.
* `RecoveryHeld` of `HeldOK`, and from it `RecoveryAckedElsewhere` and `RecoveryAckedSurvive` (`AckedSurvive`).
  Each segment has, in both images, the acknowledged keys of every range that an entry of
  either directory and a depth of either image could give it; only so does it not matter what the
  failure leaves or how `Recovery` decides.
* `RecoveryOneThread`: with one thread, the instance of the runs, the three properties without a
  hypothesis on the behaviour.

The other theorems of this module are about behaviours with a property that `CCEHRecovery` does
not impose, stated as `Spec /\ []OneSplit => ...`:
* `OneSplit`: no two threads are in a split at once.  `CCEHRecovery` has no directory lock, so
  another thread's doubling may come between the entries of a split and their persist, which the
  code excludes; the theorem also excludes two splits that overlap harmlessly.
* `Serial`: one Insert at a time.  `AckedSurvive` is false with two: as soon as the entries of a split
  are stored, a second Insert may use the new segment and return; if the power fails before
  those entries are durable, `Recovery` gives the range back to the old segment.  `Insert` takes no
  lock on the directory to find its segment (CCEH.cpp:209-225), so the code has this
  interleaving too.
* `Elsewhere`: no key of the workload belongs to the last block.  `AckedSurvive` is false without it
  (run `recovery_last`).  `RecoveryShapeElsewhere` and `RecoveryAckedElsewhere` say what
  remains true of the other entries and keys when some do.

Only model-checked: liveness (`SuspendReturns`, `AllReturn`, `TestReturns`, `Returns`), since the
prover does not handle fairness; of `CCEH` `NoLostKeyWithoutRaces` and `GetSound`;
everything about `FastPage`, `FastFairTree`, `HashTables` and `StaticHash`;
the refinements of `KVMap`.

## 7. Not modelled

* The `CUCKOO` option of CCEH, which no build file defines.  `Utilization`, `Capacity`,
  `FindAnyway`, `Touch`: they change nothing.  `Delete` is empty in every hash table.
* Power failures of the copy-on-write build and inside `initCCEH`.
* Hash functions: `Hash`, `FIdx` and `SIdx` are parameters.
* Weak memory: the code runs on x86; stores of one thread are seen in program order, and the
  atomics used are locked instructions.
* Index interface, driver, scripts: dispatch and parsing.  The submodules are empty.
* `CCEH_LSB.cpp`: it uses `Segment::pattern` and `CCEH::global_depth`, which `src/CCEH.h` does not
  declare, so the target `CCEH_LSB` of the Makefile cannot be built and there is no program to
  model.  Its directory code is that of extendible hashing, which is modelled.
* `Recovery` of `CCEH_MSB.cpp` (481-500): nothing calls it.  It is the loop of CCEH-PMDK's, except that
  it flushes nothing and never sets `recovered`.
* Extendible hashing with other options than the Makefile's (`INPLACE`, high bits).
* The sweeps of a single thread (`read_buf_amp_tst`, `trigger_prefetching`, `write_buffer`,
  `write_buffer_flushing_period`, `seperate_rd_wr_buf`, `read_after_flush`): nested loops over an
  address range whose only results are times and hardware counters.
* `json.hpp`: nlohmann/json, vendored; 25,447 of the repository's 33,500 lines of implementation.
* FAST&FAIR: `remove_rebalancing` and `btree_delete_internal` have no live caller; failures between
  stores.
* Static tables: the counters
  `level_item_num` and path hashing's `size`, which nothing reads; persistence, since there
  is no code that would read the tables after a failure.

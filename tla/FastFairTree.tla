---------------------------- MODULE FastFairTree ----------------------------
(***************************************************************************)
(* The FAST&FAIR B+-tree over its pages (case_study/external_repo/         *)
(* fastfair/fastfair.h): btree_insert, btree_insert_internal, store,       *)
(* btree_search, btree_delete and btree_search_range of several threads.   *)
(*                                                                         *)
(* A page is seen through its operations.  What insert_key makes of it is  *)
(* one step, and so is what linear_search finds, with the results module   *)
(* FastPage allows: the search of an internal page may go too far to the   *)
(* right.  Two writers in one page are outside FastPage; where the code    *)
(* lets them meet, the behaviour is marked (overrun) and followed no       *)
(* further.  What is interleaved is the way from page to page: descents    *)
(* without locks, moves to a sibling, the steps of a split and the late    *)
(* arrival of its separator in the parent.                                 *)
(***************************************************************************)
EXTENDS Integers, Sequences, FiniteSets, FiniteSetsExt, Functions

CONSTANTS
  Threads,
  loader,        \* the thread of the load phase; the others run after it
  Keys,          \* a set of positive integers; a key's value is named by it
  cardinality,   \* slots of a page; one of them ends it
  Programs,      \* the calls of each thread, records [op, key, max]; no key is
                 \* inserted or deleted twice
  NONE

NULL == 0
LONG_MAX == Max(Keys) + 1

ASSUME TreeAssumption ==
  /\ Keys \subseteq Nat \ {0} /\ Keys # {} /\ IsFiniteSet(Keys)
  /\ cardinality \in Nat /\ cardinality > 3
  /\ loader \in Threads
  /\ \A prog \in Programs : \A t \in Threads : \A n \in DOMAIN prog[t] :
       /\ prog[t][n].op \in {"insert", "search", "delete", "range"}
       /\ prog[t][n].key \in Keys /\ prog[t][n].max \in Keys

VARIABLES
  pages,    \* all pages ever allocated; a pointer is an index, NULL is 0
  root,     \* (height is never read)
  pc, loc,  \* the threads: place, and local variables
  todo,     \* calls not begun
  stored,   \* keys whose btree_insert has returned and no btree_delete was called for
  dropped,  \* separators btree_insert_internal has given up
  strayed,  \* keys put into a leaf although they belong to its sibling
  misplaced,\* keys a misled thread has put into a wrong leaf, or failed to delete
  overrun   \* has a writer met the insert of a split into its new page

vars == <<pages, root, pc, loc, todo, stored, dropped, strayed, misplaced, overrun>>

\* page(level), page(left, key, right, level).  IS_FORWARD(switch_counter) is
\* kept as the direction in which readers scan the page; low is the split key
\* the page was made for.
NewPage(level, leftmost, records, sibling, low) ==
  [level |-> level, leftmost_ptr |-> leftmost, records |-> records,
   sibling_ptr |-> sibling, mtx |-> NONE, scan |-> "forward", low |-> low]

EmptyFunction == [k \in {} |-> NULL]

\* What a search can return: a value, a page taken for a value, or nothing.
Value(k) == [is |-> "value", of |-> k]
Page(p) == IF p = NULL THEN [is |-> "null", of |-> NULL] ELSE [is |-> "page", of |-> p]

NoLocals == [key |-> NULL, right |-> NULL, level |-> 0, p |-> NULL, ret |-> NULL,
             new |-> NULL, split |-> NULL, t |-> Page(NULL), must |-> {},
             max |-> NULL, this |-> NULL, buf |-> {}, turned |-> "no",
             entered |-> {}, misled |-> FALSE]

\* btree()
Init ==
  /\ pages = <<NewPage(0, NULL, EmptyFunction, NULL, NULL)>>
  /\ root = 1
  /\ pc = [t \in Threads |-> "idle"]
  /\ loc = [t \in Threads |-> NoLocals]
  /\ todo \in Programs
  /\ stored = {}
  /\ dropped = {} /\ strayed = {} /\ misplaced = {} /\ overrun = FALSE

-----------------------------------------------------------------------------
(* Pages                                                                    *)

count(pg) == Cardinality(DOMAIN pg.records)

\* records[0].key, of a page that may have no record
FirstKey(p) == IF pages[p].records = EmptyFunction THEN LONG_MAX
               ELSE Min(DOMAIN pages[p].records)

\* insert_key
WithRecord(records, key, ptr) == [k \in DOMAIN records \cup {key} |->
                                    IF k = key THEN ptr ELSE records[k]]

\* linear_search of an internal page, before it looks at the sibling
Child(pg, key) ==
  LET left == {k \in DOMAIN pg.records : k <= key}
  IN  IF left = {} THEN pg.leftmost_ptr ELSE pg.records[Max(left)]

\* Does linear_search go on in the sibling?
BeyondSibling(pg, key) == pg.sibling_ptr # NULL /\ key >= FirstKey(pg.sibling_ptr)

-----------------------------------------------------------------------------
(* Descent                                                                  *)

Call(t) == Head(todo[t])
At(t) == pages[loc[t].p]

Goto(t, from, to) == pc[t] = from /\ pc' = [pc EXCEPT ![t] = to]

\* Where a thread goes on at page p: further down or, at its level, to the
\* lock (insert) or to the search of the leaf.
PlaceFor(t, p, level) ==
  IF pages[p].level > level THEN "descend"
  ELSE CASE Call(t).op = "insert" -> "lock"
         [] Call(t).op = "range" -> "range"
         [] OTHER -> "scan"

\* The keys a read has to find: what was stored when it was called
Due(call) ==
  stored \cap IF call.op = "range" THEN {k \in Keys : call.key < k /\ k < call.max} ELSE {call.key}

\* btree_insert, btree_search, btree_delete (key), btree_search_range(key, max):
\* p = root.  From the call of a delete on nobody has to find its key.
Start(t) ==
  LET call == Call(t)
      gone == IF call.op = "delete" THEN {call.key} ELSE {}
  IN  /\ pc[t] = "idle" /\ todo[t] # <<>>
      /\ t # loader => todo[loader] = <<>>
      /\ loc' = [u \in Threads |->
                   IF u # t THEN [loc[u] EXCEPT !.must = @ \ gone]
                   ELSE [NoLocals EXCEPT !.key = call.key, !.right = call.key, !.max = call.max,
                                         !.p = root, !.this = root, !.must = Due(call)]]
      /\ pc' = [pc EXCEPT ![t] = PlaceFor(t, root, 0)]
      /\ stored' = stored \ gone
      /\ UNCHANGED <<pages, root, todo, dropped, strayed, misplaced, overrun>>

\* linear_search of an internal page: the scan.  Pointers of slots under
\* construction are loaded twice, and the child of a record that was entered
\* meanwhile may be taken for the one to its left (FastPage:
\* RouteSoundUnlessEntered): the thread is misled ...
Descend(t) ==
  /\ Goto(t, "descend", "sibling")
  /\ \/ loc' = [loc EXCEPT ![t].ret = Child(At(t), loc[t].key), ![t].entered = {}]
     \/ \E k \in loc[t].entered :
          loc' = [loc EXCEPT ![t].ret = At(t).records[k], ![t].entered = {}, ![t].misled = TRUE]
  /\ UNCHANGED <<pages, root, todo, stored, dropped, strayed, misplaced, overrun>>

\* A record with a larger key enters page p while a thread scans it.
Entered(p, key) ==
  [u \in Threads |-> IF pc[u] = "descend" /\ loc[u].p = p /\ loc[u].key < key
                     THEN [loc[u] EXCEPT !.entered = @ \cup {key}] ELSE loc[u]]

\* A split makes those who scan the page begin again.
Restarted(p) ==
  [u \in Threads |-> IF pc[u] = "descend" /\ loc[u].p = p
                     THEN [loc[u] EXCEPT !.entered = {}] ELSE loc[u]]

\* ... and the look at the sibling, which may have been split off meanwhile
LookAtSibling(t) ==
  LET q == IF BeyondSibling(At(t), loc[t].key) THEN At(t).sibling_ptr ELSE loc[t].ret
  IN  /\ pc[t] = "sibling"
      /\ pc' = [pc EXCEPT ![t] = PlaceFor(t, q, loc[t].level)]
      /\ loc' = [loc EXCEPT ![t].p = q, ![t].this = q]
      /\ UNCHANGED <<pages, root, todo, stored, dropped, strayed, misplaced, overrun>>

-----------------------------------------------------------------------------
(* store()                                                                  *)

\* Mutant: a key that belongs to the sibling is stored here.
StayHere(pg, key) == FALSE

\* The sibling is responsible for the key.
MustMoveRight(pg, key) == pg.sibling_ptr # NULL /\ key > FirstKey(pg.sibling_ptr)

HasRoom(pg) == count(pg) < cardinality - 1

\* A thread that has split a page off is still to insert its key there: after
\* sibling_ptr is set it does so without the new page's mutex, and with the
\* count the page had before anybody else could reach it.
UnlockedInsert(p) ==
  \E u \in Threads : pc[u] \in {"cut", "place"} /\ loc[u].new = p /\ loc[u].key >= loc[u].split

\* Lock, and decide.  Whoever is to write a page in which an unlocked insert is
\* pending may overrun it: from then on the page may hold anything.
\* (is_deleted is only set by remove_rebalancing, which nothing calls.)
Lock(t) ==
  /\ pc[t] = "lock"
  /\ At(t).mtx = NONE
  /\ pages' = [pages EXCEPT ![loc[t].p].mtx = t]
  /\ pc' = [pc EXCEPT ![t] = IF MustMoveRight(At(t), loc[t].key) THEN "right"
                             ELSE IF HasRoom(At(t)) THEN "put" ELSE "publish"]
  /\ overrun' = (UnlockedInsert(loc[t].p) /\ ~MustMoveRight(At(t), loc[t].key))
  /\ UNCHANGED <<root, loc, todo, stored, dropped, strayed, misplaced>>

UnlockedPages(t) == [pages EXCEPT ![loc[t].p].mtx = NONE]

\* Unlock, then read sibling_ptr again: it may be a nearer page by now.
MoveRight(t) ==
  /\ Goto(t, "right", "follow")
  /\ pages' = UnlockedPages(t)
  /\ UNCHANGED <<root, loc, todo, stored, dropped, strayed, misplaced, overrun>>

Follow(t) ==
  /\ Goto(t, "follow", "lock")
  /\ loc' = [loc EXCEPT ![t].p = At(t).sibling_ptr]
  /\ UNCHANGED <<pages, root, todo, stored, dropped, strayed, misplaced, overrun>>

\* insert_key into page p, which turns readers forward
Inserted(ps, p, key, ptr) ==
  [ps EXCEPT ![p].records = WithRecord(@, key, ptr), ![p].scan = "forward"]

\* The key enters leaf p although its sibling was made for it ...
Straying(p, key) ==
  LET sib == pages[p].sibling_ptr
  IN  IF pages[p].level = 0 /\ sib # NULL /\ key >= pages[sib].low THEN {key} ELSE {}

\* ... or because the descent was misled.
Misplacing(t) == IF At(t).level = 0 /\ loc[t].misled THEN {loc[t].key} ELSE {}

\* There is room: insert and unlock.
Put(t) ==
  /\ Goto(t, "put", "return")
  /\ pages' = Inserted(UnlockedPages(t), loc[t].p, loc[t].key, loc[t].right)
  /\ loc' = Entered(loc[t].p, loc[t].key)
  /\ strayed' = strayed \cup Straying(loc[t].p, loc[t].key)
  /\ misplaced' = misplaced \cup Misplacing(t)
  /\ UNCHANGED <<root, todo, stored, dropped, overrun>>

\* The records that move to the new page
UpperHalf(pg, split) ==
  {k \in DOMAIN pg.records : IF pg.level = 0 THEN k >= split ELSE k > split}

\* The page is full: a new page gets the upper half, then sibling_ptr is set.
\* The middle record of an internal page becomes the new page's leftmost child.
Publish(t) ==
  LET pg == At(t)
      m == count(pg) \div 2
      split == CHOOSE k \in DOMAIN pg.records :
                 Cardinality({l \in DOMAIN pg.records : l < k}) = m
      new == NewPage(pg.level, IF pg.level = 0 THEN NULL ELSE pg.records[split],
                     Restrict(pg.records, UpperHalf(pg, split)), pg.sibling_ptr, split)
  IN  /\ Goto(t, "publish", "cut")
      /\ pages' = Append([pages EXCEPT ![loc[t].p].sibling_ptr = Len(pages) + 1], new)
      /\ loc' = [loc EXCEPT ![t].new = Len(pages) + 1, ![t].split = split]
      /\ UNCHANGED <<root, todo, stored, dropped, strayed, misplaced, overrun>>

\* switch_counter becomes even, records[m].ptr = NULL, last_index = m - 1
Cut(t) ==
  /\ Goto(t, "cut", "place")
  /\ pages' = [pages EXCEPT ![loc[t].p].scan = "forward",
                            ![loc[t].p].records =
                               Restrict(@, {k \in DOMAIN @ : k < loc[t].split})]
  /\ loc' = Restarted(loc[t].p)
  /\ UNCHANGED <<root, todo, stored, dropped, strayed, misplaced, overrun>>

\* The key goes to its half.  The new page's mutex is not taken, and the insert
\* is one step as long as nobody else writes there (UnlockedInsert).
Place(t) ==
  LET q == IF loc[t].key < loc[t].split THEN loc[t].p ELSE loc[t].new
  IN  /\ Goto(t, "place", "parent")
      /\ pages' = Inserted(pages, q, loc[t].key, loc[t].right)
      /\ loc' = Entered(q, loc[t].key)
      /\ strayed' = strayed \cup Straying(q, loc[t].key)
      /\ misplaced' = misplaced \cup Misplacing(t)
      /\ UNCHANGED <<root, todo, stored, dropped, overrun>>

\* bt->root == this: a new root, under the lock of the old one
GrowRoot(t) ==
  /\ root = loc[t].p
  /\ Goto(t, "parent", "unlock")
  /\ pages' = Append(pages, NewPage(At(t).level + 1, loc[t].p,
                                    [k \in {loc[t].split} |-> loc[t].new], NULL, NULL))
  /\ root' = Len(pages) + 1
  /\ UNCHANGED <<loc, todo, stored, dropped, strayed, misplaced, overrun>>

Unlock(t) ==
  /\ Goto(t, "unlock", "return")
  /\ pages' = UnlockedPages(t)
  /\ UNCHANGED <<root, loc, todo, stored, dropped, strayed, misplaced, overrun>>

\* Otherwise: unlock, then btree_insert_internal(split_key, sibling, level + 1)
GoUp(t) ==
  /\ root # loc[t].p
  /\ Goto(t, "parent", "up")
  /\ pages' = UnlockedPages(t)
  /\ loc' = [loc EXCEPT ![t].key = loc[t].split, ![t].right = loc[t].new,
                         ![t].level = At(t).level + 1]
  /\ UNCHANGED <<root, todo, stored, dropped, strayed, misplaced, overrun>>

AboveRoot(level) == level > pages[root].level

\* if(level > root->level) return; p = root.  The root's level only grows, so
\* that its two reads may be taken as one.
InsertInternal(t) ==
  LET giveUp == AboveRoot(loc[t].level)
  IN  /\ pc[t] = "up"
      /\ pc' = [pc EXCEPT ![t] = IF giveUp THEN "return" ELSE PlaceFor(t, root, loc[t].level)]
      /\ loc' = [loc EXCEPT ![t].p = root, ![t].misled = FALSE]
      /\ dropped' = IF giveUp THEN dropped \cup {loc[t].key} ELSE dropped
      /\ UNCHANGED <<pages, root, todo, stored, strayed, misplaced, overrun>>

Return(t) ==
  /\ Goto(t, "return", "idle")
  /\ todo' = [todo EXCEPT ![t] = Tail(@)]
  /\ stored' = IF Call(t).op = "insert" THEN stored \cup {Call(t).key} ELSE stored
  /\ UNCHANGED <<pages, root, loc, dropped, strayed, misplaced, overrun>>

-----------------------------------------------------------------------------
(* btree_search: the leaf                                                   *)

\* linear_search of a leaf: the scan ...
Scan(t) ==
  LET found == loc[t].key \in DOMAIN At(t).records
  IN  /\ Goto(t, "scan", IF found THEN "compare" ELSE "leafsibling")
      /\ loc' = [loc EXCEPT ![t].t = IF found THEN Value(At(t).records[loc[t].key])
                                     ELSE Page(NULL)]
      /\ UNCHANGED <<pages, root, todo, stored, dropped, strayed, misplaced, overrun>>

\* Mutant: a leaf is searched without its sibling.
ScanStops(t) ==
  /\ Goto(t, "leafsibling", "compare")
  /\ UNCHANGED <<pages, root, loc, todo, stored, dropped, strayed, misplaced, overrun>>

\* ... and the look at the sibling
ScanSibling(t) ==
  /\ Goto(t, "leafsibling", "compare")
  /\ loc' = [loc EXCEPT ![t].t = IF BeyondSibling(At(t), loc[t].key)
                                 THEN Page(At(t).sibling_ptr) ELSE Page(NULL)]
  /\ UNCHANGED <<pages, root, todo, stored, dropped, strayed, misplaced, overrun>>

\* Mutant: the search stays on its page.
CompareStays(t) ==
  LET same == loc[t].t = Page(At(t).sibling_ptr)
  IN  /\ Goto(t, "compare", IF same /\ loc[t].t.is = "page" THEN "scan" ELSE "return")
      /\ UNCHANGED <<pages, root, loc, todo, stored, dropped, strayed, misplaced, overrun>>

\* while((t = p->linear_search(key)) == p->hdr.sibling_ptr): sibling_ptr is
\* read again.  A page that is no longer the sibling is returned as a value.
\* A delete that has come to the end of the leaves returns without its key.
Compare(t) ==
  LET same == loc[t].t = Page(At(t).sibling_ptr)
      found == IF Call(t).op = "delete" THEN "remove" ELSE "return"
  IN  /\ Goto(t, "compare", IF ~same THEN found
                            ELSE IF loc[t].t.is = "page" THEN "scan" ELSE "return")
      /\ loc' = [loc EXCEPT ![t].p = IF same THEN At(t).sibling_ptr ELSE @]
      /\ misplaced' = IF Call(t).op = "delete" /\ pc'[t] = "return"
                      THEN misplaced \cup Misplacing(t) ELSE misplaced
      /\ UNCHANGED <<pages, root, todo, stored, dropped, strayed, overrun>>

-----------------------------------------------------------------------------
(* btree_delete                                                             *)

\* Mutant: a delete that finds its key no more does not try again.
RemoveOnce(t) ==
  /\ Goto(t, "remove", "return")
  /\ At(t).mtx = NONE
  /\ pages' = [pages EXCEPT ![loc[t].p].records = Restrict(@, DOMAIN @ \ {loc[t].key}),
                            ![loc[t].p].scan = "backward"]
  /\ overrun' = UnlockedInsert(loc[t].p)
  /\ UNCHANGED <<root, loc, todo, stored, dropped, strayed, misplaced>>

\* remove(): lock, remove_key, which turns readers backward, unlock; if a split
\* has moved the key, btree_delete begins again.  Bound: no page loses its last
\* record (records[0].key is then a key its end once had).
Remove(t) ==
  LET here == loc[t].key \in DOMAIN At(t).records
  IN  /\ Goto(t, "remove", IF here THEN "return" ELSE PlaceFor(t, root, 0))
      /\ At(t).mtx = NONE
      /\ here => count(At(t)) > 1
      /\ pages' = [pages EXCEPT ![loc[t].p].records = Restrict(@, DOMAIN @ \ {loc[t].key}),
                                ![loc[t].p].scan = "backward"]
      /\ loc' = [loc EXCEPT ![t].p = IF here THEN @ ELSE root, ![t].misled = here /\ @]
      /\ overrun' = UnlockedInsert(loc[t].p)
      /\ UNCHANGED <<root, todo, stored, dropped, strayed, misplaced>>

-----------------------------------------------------------------------------
(* btree_search_range: the leaves                                           *)

\* The slots a backward scan looks at are as many as the first page has.
Lowest(pg, n) ==
  {k \in DOMAIN pg.records : Cardinality({l \in DOMAIN pg.records : l < k}) < n}

\* linear_search_range in one page.  A key that is not below max ends the
\* search, and backwards the largest key comes first; behind the end of the
\* page a backward scan finds whatever is there, and is given up here.
RangePage(t) ==
  LET pg == At(t)
      n == count(pages[loc[t].this])
      forward == pg.scan = "forward"
      above == {k \in IF forward THEN DOMAIN pg.records ELSE Lowest(pg, n) : k > loc[t].key}
      below == {k \in above : k < loc[t].max}
      ends == above # below \/ (~forward /\ n > count(pg))
  IN  /\ Goto(t, "range", IF ends THEN "return" ELSE "next")
      /\ loc' = [loc EXCEPT ![t].buf = IF ends /\ ~forward THEN @ ELSE @ \cup below,
                            ![t].turned = IF forward THEN @ ELSE "yes"]
      /\ UNCHANGED <<pages, root, todo, stored, dropped, strayed, misplaced, overrun>>

\* Mutant: the scan ends with its first page.
RangeEnds(t) ==
  /\ Goto(t, "next", "return")
  /\ UNCHANGED <<pages, root, loc, todo, stored, dropped, strayed, misplaced, overrun>>

\* current = current->hdr.sibling_ptr, as it is now
RangeNext(t) ==
  /\ Goto(t, "next", IF At(t).sibling_ptr = NULL THEN "return" ELSE "range")
  /\ loc' = [loc EXCEPT ![t].p = IF At(t).sibling_ptr = NULL THEN @ ELSE At(t).sibling_ptr]
  /\ UNCHANGED <<pages, root, todo, stored, dropped, strayed, misplaced, overrun>>

-----------------------------------------------------------------------------

\* An overrun page may hold anything: that behaviour is followed no further.
Step(t) ==
  /\ ~overrun
  /\ \/ Start(t) \/ Descend(t) \/ LookAtSibling(t)
     \/ Lock(t) \/ MoveRight(t) \/ Follow(t) \/ Put(t)
     \/ Publish(t) \/ Cut(t) \/ Place(t) \/ GrowRoot(t) \/ Unlock(t) \/ GoUp(t)
     \/ InsertInternal(t) \/ Return(t)
     \/ Scan(t) \/ ScanSibling(t) \/ Compare(t) \/ Remove(t)
     \/ RangePage(t) \/ RangeNext(t)

Finished == \A t \in Threads : pc[t] = "idle" /\ todo[t] = <<>>

Terminating == (Finished \/ overrun) /\ UNCHANGED vars

Next == (\E t \in Threads : Step(t)) \/ Terminating

Spec == Init /\ [][Next]_vars

\* Threads keep running.  A mutex is held for a bounded number of steps of its
\* holder, who waits for nothing.
FairSpec == Spec /\ \A t \in Threads : WF_vars(Step(t))

-----------------------------------------------------------------------------
(* Properties                                                               *)

PCs == {"idle", "descend", "sibling", "lock", "right", "follow", "put", "publish", "cut",
        "place", "parent", "unlock", "up", "return", "scan", "leafsibling", "compare",
        "remove", "range", "next"}

\* Pointers point to pages of the right level, pages are never overfull, and
\* the root is on top.
TypeOK ==
  /\ \A p \in DOMAIN pages :
       LET pg == pages[p]
       IN  /\ count(pg) < cardinality
           /\ pg.level \in 0 .. pages[root].level
           /\ pg.sibling_ptr # NULL => pages[pg.sibling_ptr].level = pg.level
           /\ pg.level > 0 => \A c \in Range(pg.records) \cup {pg.leftmost_ptr} :
                                pages[c].level = pg.level - 1
           /\ pg.mtx \in Threads \cup {NONE}
  /\ root \in DOMAIN pages
  /\ pc \in [Threads -> PCs]

\* What a search that ran alone now would return.
Lookup(key) ==
  LET f[n \in Nat, p \in Nat] ==
        LET pg == pages[p]
        IN  IF n = 0 THEN Page(NULL)
            ELSE IF pg.level = 0 /\ key \in DOMAIN pg.records THEN Value(pg.records[key])
            ELSE IF BeyondSibling(pg, key) THEN f[n - 1, pg.sibling_ptr]
            ELSE IF pg.level = 0 THEN Page(NULL)
            ELSE f[n - 1, Child(pg, key)]
  IN  f[2 * Len(pages), root]

\* Some searches find these keys and others do not.
Excepted == strayed \cup misplaced

Searched(t) == pc[t] = "return" /\ Call(t).op = "search"

\* A search returns the value of its key, or nothing if its key's insert had
\* not returned when it was called.
SearchSound ==
  \A t \in Threads : Searched(t) =>
    \/ loc[t].t = Value(loc[t].key)
    \/ loc[t].t = Page(NULL) /\ loc[t].must = {}

\* The part of it that holds: no search that overtakes, or is overtaken by, any
\* number of splits returns another key's value, and none misses its key unless
\* an internal page has misled it.
NoMiss ==
  \A t \in Threads : Searched(t) =>
    /\ loc[t].t.is = "value" => loc[t].t = Value(loc[t].key)
    /\ (loc[t].t.is = "null" /\ ~loc[t].misled) => loc[t].must \subseteq Excepted

\* btree_search_range finds every key between its bounds whose insert had
\* returned when it was called and no delete was called for, through all splits
\* on its way, as long as it meets no page in which the last operation was a
\* delete and no internal page has misled it; and it reports no key out of its
\* bounds.
RangeComplete ==
  \A t \in Threads :
    (pc[t] = "return" /\ Call(t).op = "range") =>
      /\ \A k \in loc[t].buf : loc[t].key < k /\ k < loc[t].max
      /\ (loc[t].turned = "no" /\ ~loc[t].misled) => loc[t].must \subseteq loc[t].buf \cup Excepted

\* On each level the keys grow from page to page, but for a page that is being
\* split and has not been cut yet, and for misplaced keys of leaves.
Settled(p) == IF pages[p].level = 0 THEN DOMAIN pages[p].records \ misplaced
              ELSE DOMAIN pages[p].records

ChainOrdered ==
  \A p \in DOMAIN pages :
    (pages[p].sibling_ptr # NULL /\ \A t \in Threads : ~(pc[t] = "cut" /\ loc[t].p = p)) =>
      \A k \in Settled(p), l \in Settled(pages[p].sibling_ptr) : k < l

\* Every page but the root has an entry on the level above, or the thread that
\* made the page is still on its way to enter it: no separator is given up.
NoOrphan ==
  /\ dropped = {}
  /\ \A p \in DOMAIN pages \ {root} :
       \/ \E q \in DOMAIN pages :
            pages[q].level > 0 /\ p \in Range(pages[q].records) \cup {pages[q].leftmost_ptr}
       \/ \E t \in Threads : p \in {loc[t].new, loc[t].right} /\ pc[t] \notin {"idle", "return"}

\* The tree is well formed at every step of concurrent splits and deletes.
WellFormed == TypeOK /\ ChainOrdered /\ NoOrphan

\* Every call returns: no thread waits for a page for ever, and a delete ends
\* although splits may move its key again and again.  (Unless a writer overruns
\* the unlocked insert of a split.)
AllReturn == <>(Finished \/ overrun)

Deleting == {k \in Keys : \E t \in Threads :
               pc[t] \notin {"idle", "return"} /\ Call(t).op = "delete" /\ Call(t).key = k}

\* Keys that a misled delete has left behind
LeftBehind == {k \in misplaced \ stored :
                 \A t \in Threads : \A n \in DOMAIN todo[t] :
                   ~(todo[t][n].op = "insert" /\ todo[t][n].key = k)}

KV == INSTANCE KVMap WITH Values <- Keys, acked <- stored, withdrawn <- Deleting \cup LeftBehind,
        store <- [k \in Keys |-> IF k \in Excepted THEN k
                                 ELSE IF Lookup(k).is = "value" THEN Lookup(k).of ELSE NONE]

\* The tree implements a map: an insert or a delete changes it in one step and
\* returns later; no split, on any level and whether its separators have reached
\* the parents or not, hides a key for a moment.  Keys that strayed or
\* were misplaced count as present, and a behaviour is followed until a writer
\* overruns the unlocked insert of a split, which can lose a stored key.
ImplementsMap == KV!Spec

=============================================================================

------------------------------ MODULE FastPage ------------------------------
(***************************************************************************)
(* One page of the FAST&FAIR B+-tree (case_study/external_repo/fastfair/   *)
(* fastfair.h): insert_key, remove_key and the split of store(), which run *)
(* under the page's mutex, against linear_search(), which takes no lock.   *)
(*                                                                         *)
(* The mutex admits one writer, so the stores an operation makes are a     *)
(* function of the page it finds: `stores' is that list, and each of them  *)
(* is a step a reader can observe.  Every load of the reader is a step.    *)
(*                                                                         *)
(* The reader's loads race with the stores, so a compiler may evaluate the *)
(* operands of `!=' in either order and may reuse a value instead of       *)
(* loading it again: OwnFirst and Reloads say what it does.  A pointer is  *)
(* named by the key it belongs to.                                         *)
(***************************************************************************)
EXTENDS Integers, Sequences, FiniteSets, SequencesExt

CONSTANTS
  Keys,            \* a set of positive integers; also the pointers
  cardinality,     \* slots of a page, the last one always ends it
  InLine, HdrSlots,\* slots of a cache line, slots taken up by the header
  Kinds,           \* "leaf", "internal", "rap": a leaf of the RAP_MOD build
  OwnFirst,        \* the orders of `records[i - 1].ptr != (t = records[i].ptr)'
                   \* in a leaf; an internal page has both
  Reloads,         \* are switch_counter and key loaded again to compare them
  MaxOps           \* bound on the operations of the writers

NULL == 0
SIBLING == -1      \* hdr.sibling_ptr as a result of linear_search
LEFT == -2         \* hdr.leftmost_ptr of an internal page
LONG_MAX == 1 + CHOOSE k \in Keys : \A l \in Keys : k >= l

Slots == 0 .. cardinality - 1

ASSUME FastPageAssumption ==
  /\ Keys \subseteq Nat \ {0} /\ Keys # {} /\ IsFiniteSet(Keys)
  /\ cardinality \in Nat /\ cardinality > 2
  /\ InLine \in Nat \ {0} /\ HdrSlots \in Nat
  /\ Kinds \subseteq {"leaf", "internal", "rap"}
  /\ OwnFirst \subseteq BOOLEAN /\ Reloads \in BOOLEAN
  /\ MaxOps \in Nat

VARIABLES
  kind,     \* what the page is, for ever
  page,     \* key and ptr per slot, switch_counter, last_index, and the
            \* keys that are reached through sibling_ptr
  stores,   \* what the writer that holds the mutex still has to store
  wop,      \* its operation, or "none"
  ops,      \* operations begun
  present,  \* keys whose insert has returned and whose removal has not begun
  pc, r,    \* the reader, its local variables, whether its last scan has skipped
            \* a record that was being moved, and the records that have been
            \* entered into an internal page during that scan
  must,     \* has its key been present ever since its search began
  may       \* has its key been in the page at any time since

vars == <<kind, page, stores, wop, ops, present, pc, r, must, may>>

leftmost_ptr == IF kind = "internal" THEN LEFT ELSE NULL

IsForward(c) == c % 2 = 0

NoOp == [op |-> "none", key |-> NULL]
NoLocals == [key |-> NULL, prev |-> 0, cprev |-> 0, i |-> 0, k |-> NULL,
             t |-> NULL, left |-> NULL, ret |-> NULL, skipped |-> FALSE, entered |-> {}]

\* page(level)
EmptyPage ==
  [key |-> [s \in Slots |-> LONG_MAX], ptr |-> [s \in Slots |-> NULL],
   switch_counter |-> 0, last_index |-> -1, sibling |-> {}]

\* page(left, key, right, level): a new root has one record.
RootPage(key) ==
  [EmptyPage EXCEPT !.key[0] = key, !.ptr[0] = key, !.last_index = 0]

Init ==
  /\ kind \in Kinds
  /\ \/ kind # "internal" /\ page = EmptyPage /\ present = {}
     \/ kind = "internal" /\ \E k \in Keys : page = RootPage(k) /\ present = {k}
  /\ stores = <<>>
  /\ wop = NoOp
  /\ ops = 0
  /\ pc = "idle"
  /\ r = NoLocals
  /\ must = FALSE
  /\ may = FALSE

-----------------------------------------------------------------------------
(* Stores, and what they do to a page                                       *)

Key(s, v) == [field |-> "key", slot |-> s, val |-> v]
Ptr(s, v) == [field |-> "ptr", slot |-> s, val |-> v]
Rec(s, v) == [field |-> "rec", slot |-> s, val |-> v]
Hdr(f, v) == [field |-> f, slot |-> 0, val |-> v]

Applied(p, st) ==
  CASE st.field = "key" -> [p EXCEPT !.key[st.slot] = st.val]
    [] st.field = "ptr" -> [p EXCEPT !.ptr[st.slot] = st.val]
    [] st.field = "rec" -> [p EXCEPT !.key[st.slot] = st.val[1], !.ptr[st.slot] = st.val[2]]
    [] st.field = "switch_counter" -> [p EXCEPT !.switch_counter = st.val % 256]
    [] st.field = "last_index" -> [p EXCEPT !.last_index = st.val]
    [] st.field = "sibling" -> [p EXCEPT !.sibling = st.val]

AfterAll(p, sts) == FoldLeft(Applied, p, sts)

\* count() for the writer, whose page is at rest
Count(p) == p.last_index + 1

\* The slot where key belongs among the first n: after the last one not larger.
Position(p, key, n) == Cardinality({s \in 0 .. n - 1 : p.key[s] <= key})

\* n, n-1, ..., lo
Down(n, lo) == [j \in 1 .. n - lo + 1 |-> n - j + 1]

\* records[i + 1] = records[i], pointer first
MoveUp(p, s) == <<Ptr(s + 1, p.ptr[s]), Key(s + 1, p.key[s])>>

\* Shifting slots n-1 .. pos up one by one
ShiftUp(p, n, pos) == FlattenSeq([j \in DOMAIN Down(n - 1, pos) |-> MoveUp(p, Down(n - 1, pos)[j])])

\* A slot at the start of a cache line
Aligned(s) == (s + HdrSlots) % InLine = 0

\* Mutant: the records put aside are not stored when no line start is met.
RapShiftForgets(p, n, pos) ==
  LET move(i) == Rec(i + 1, <<p.key[i], p.ptr[i]>>)
      step(acc, i) ==
        IF Aligned(i + 1)
        THEN [out |-> Append(acc.out, move(i)) \o acc.buf, buf |-> <<>>]
        ELSE [acc EXCEPT !.buf = Append(@, move(i))]
  IN  FoldLeft(step, [out |-> <<>>, buf |-> <<>>], Down(n - 1, pos)).out

\* RAP_MOD: a record whose new slot does not start a line is put aside; one
\* whose slot does is stored at once, then the ones put aside are stored.  What
\* is left is stored at the end.  An entry is copied by one 16-byte store.
RapShift(p, n, pos) ==
  LET move(i) == Rec(i + 1, <<p.key[i], p.ptr[i]>>)
      step(acc, i) ==
        IF Aligned(i + 1)
        THEN [out |-> Append(acc.out, move(i)) \o acc.buf, buf |-> <<>>]
        ELSE [acc EXCEPT !.buf = Append(@, move(i))]
      end == FoldLeft(step, [out |-> <<>>, buf |-> <<>>], Down(n - 1, pos))
  IN  end.out \o end.buf

\* records[pos].ptr = the pointer to its left; then the key; then the pointer
Place(p, pos, key) ==
  <<Ptr(pos, IF pos = 0 THEN leftmost_ptr ELSE p.ptr[pos - 1]), Key(pos, key), Ptr(pos, key)>>

\* insert_key(key, key, n)
InsertStores(p, key, n) ==
  LET pos == Position(p, key, n)
      flip == IF IsForward(p.switch_counter) THEN <<>>
              ELSE <<Hdr("switch_counter", p.switch_counter + 1)>>
      body == IF n = 0 THEN <<Key(0, key), Ptr(0, key), Ptr(1, NULL)>>
              ELSE <<Ptr(n + 1, p.ptr[n])>>
                   \o (IF kind = "rap" THEN RapShift(p, n, pos) ELSE ShiftUp(p, n, pos))
                   \o Place(p, pos, key)
  IN  flip \o body \o <<Hdr("last_index", n)>>

\* Mutant: readers are not turned around before records move to the left.
RemoveWithoutFlip(p, key) ==
  LET n == Count(p)
      pos == CHOOSE s \in 0 .. n - 1 : p.key[s] = key
  IN  <<Ptr(pos, IF pos = 0 THEN leftmost_ptr ELSE p.ptr[pos - 1])>>
      \o FlattenSeq([j \in 1 .. n - pos |->
           <<Key(pos + j - 1, p.key[pos + j]), Ptr(pos + j - 1, p.ptr[pos + j])>>])
      \o <<Hdr("last_index", p.last_index - 1)>>

\* remove_key(key), for a key of the page: invalidate its slot, shift down
RemoveStores(p, key) ==
  LET n == Count(p)
      pos == CHOOSE s \in 0 .. n - 1 : p.key[s] = key
      flip == IF IsForward(p.switch_counter)
              THEN <<Hdr("switch_counter", p.switch_counter + 1)>> ELSE <<>>
      down == FlattenSeq([j \in 1 .. n - pos |->
                <<Key(pos + j - 1, p.key[pos + j]), Ptr(pos + j - 1, p.ptr[pos + j])>>])
  IN  flip \o <<Ptr(pos, IF pos = 0 THEN leftmost_ptr ELSE p.ptr[pos - 1])>>
      \o down \o <<Hdr("last_index", p.last_index - 1)>>

\* Mutant: the page is cut before the sibling can be reached.
CutFirst(p, m, sib) ==
  <<Hdr("switch_counter", p.switch_counter + (IF IsForward(p.switch_counter) THEN 2 ELSE 1)),
    Ptr(m, NULL), Hdr("last_index", m - 1), Hdr("sibling", sib)>>

\* Publish the sibling, make readers start again, cut the page at m.
SplitStores(p, m, sib) ==
  <<Hdr("sibling", sib),
    Hdr("switch_counter", p.switch_counter + (IF IsForward(p.switch_counter) THEN 2 ELSE 1)),
    Ptr(m, NULL), Hdr("last_index", m - 1)>>

\* store() of a full page: m = ceil(n / 2) of an integer division; the new
\* page gets the records from m on (an internal one: from m+1 on, and the
\* child of m as its leftmost), and then the key goes to one of the two.
StoreFull(p, key) ==
  LET m == Count(p) \div 2
      first == IF kind = "internal" THEN m + 1 ELSE m
      sib == {p.key[s] : s \in first .. Count(p) - 1}
      cut == SplitStores(p, m, sib \cup p.sibling)
  IN  IF key < p.key[m] THEN cut \o InsertStores(AfterAll(p, cut), key, m)
      ELSE cut \o <<Hdr("sibling", sib \cup p.sibling \cup {key})>>

-----------------------------------------------------------------------------
(* Writers                                                                  *)

SibFirst(p) == CHOOSE k \in p.sibling : \A l \in p.sibling : k <= l

\* hdr.mtx->lock() and the computation of what to store
Begin(op, key, sts) ==
  /\ wop = NoOp
  /\ ops < MaxOps
  /\ ops' = ops + 1
  /\ wop' = [op |-> op, key |-> key]
  /\ stores' = sts
  /\ UNCHANGED <<kind, page, pc, r>>

Full(p) == Count(p) >= cardinality - 1

\* The key an internal page gives to its parent when it splits.
MovesUp(p) == IF Full(p) /\ kind = "internal" THEN {p.key[Count(p) \div 2]} ELSE {}

\* store(), for a key that belongs to this page
BeginInsert(key) ==
  /\ key \notin present
  /\ page.sibling # {} => key <= SibFirst(page)
  /\ Begin("insert", key, IF Full(page) THEN StoreFull(page, key)
                          ELSE InsertStores(page, key, Count(page)))
  /\ present' = present \ MovesUp(page)
  /\ must' = (must /\ r.key \notin MovesUp(page))
  /\ may' = (may \/ key = r.key)

\* remove(): only leaves are removed from (remove_rebalancing has no caller)
BeginRemove(key) ==
  /\ kind = "leaf"
  /\ key \in present /\ key \notin page.sibling
  /\ Begin("remove", key, RemoveStores(page, key))
  /\ present' = present \ {key}
  /\ must' = (must /\ r.key # key)
  /\ UNCHANGED may

\* The store that makes the inserted record valid
Enters(st) == kind = "internal" /\ wop.op = "insert" /\ st.field = "ptr" /\ st.val = wop.key

Store ==
  /\ stores # <<>>
  /\ page' = Applied(page, Head(stores))
  /\ stores' = Tail(stores)
  /\ r' = IF Enters(Head(stores)) /\ pc # "idle" THEN [r EXCEPT !.entered = @ \cup {wop.key}] ELSE r
  /\ UNCHANGED <<kind, wop, ops, present, pc, must, may>>

\* unlock
EndOp ==
  /\ wop # NoOp
  /\ stores = <<>>
  /\ wop' = NoOp
  /\ present' = IF wop.op = "insert" THEN present \cup {wop.key} ELSE present
  /\ UNCHANGED <<kind, page, stores, ops, pc, r, must, may>>

-----------------------------------------------------------------------------
(* The reader: linear_search(key)                                           *)

\* The reader at `from' sets its locals and goes on.
At(from) == pc = from /\ UNCHANGED <<kind, page, stores, wop, ops, present, must, may>>
Go(to, new) == pc' = to /\ r' = new

StartSearch(key) ==
  /\ pc = "idle"
  /\ Go("top", [NoLocals EXCEPT !.key = key])
  /\ must' = (key \in present)
  /\ may' = (key \in present \/ wop.key = key)
  /\ UNCHANGED <<kind, page, stores, wop, ops, present>>

\* previous_switch_counter = hdr.switch_counter; ret = NULL
Top ==
  /\ At("top")
  /\ Go(IF IsForward(page.switch_counter) THEN "key" ELSE "count",
        [r EXCEPT !.prev = page.switch_counter, !.ret = NULL, !.i = 0,
                  !.skipped = FALSE, !.entered = {}])

\* count() of the backward search, which loads the switch counter for itself:
\* from last_index to a NULL, in its direction; below 0 it restarts at 0.
CountTop == At("count") /\ Go("last_index", [r EXCEPT !.cprev = page.switch_counter])
CountLast == At("last_index") /\ Go("countscan", [r EXCEPT !.i = page.last_index + 1])
CountScan ==
  /\ At("countscan")
  /\ IF r.i < 0 THEN Go("countup", [r EXCEPT !.i = 0])
     ELSE IF page.ptr[r.i] = NULL THEN Go("countend", r)
     ELSE Go("countscan", [r EXCEPT !.i = IF IsForward(r.cprev) THEN @ + 1 ELSE @ - 1])
CountUp ==
  /\ At("countup")
  /\ IF page.ptr[r.i] = NULL THEN Go("countend", r)
     ELSE Go("countup", [r EXCEPT !.i = @ + 1])
CountEnd ==
  /\ At("countend")
  /\ IF Reloads /\ page.switch_counter # r.cprev THEN Go("count", r)
     ELSE Go("key", [r EXCEPT !.i = IF @ = 0 THEN 0 ELSE @ - 1])

\* The next record of a scan in either direction, or its end.
NextSlot(new) ==
  IF IsForward(r.prev) THEN Go("bound", [new EXCEPT !.i = @ + 1])
  ELSE IF r.i = 0 THEN Go("check", new)
  ELSE Go("key", [new EXCEPT !.i = @ - 1])

\* for(i = 1; records[i].ptr != NULL; ++i)
Bound ==
  /\ At("bound")
  /\ Go(IF page.ptr[r.i] # NULL THEN "key"
        ELSE IF kind = "internal" THEN "last" ELSE "check", r)

\* Does the key just loaded end the scan?
Matches(k) == IF kind = "internal" THEN r.key < k ELSE k = r.key

\* if((k = records[i].key) == key), internal: if(key < (k = records[i].key)).
\* Slot 0 of a leaf is compared with NULL instead of a left neighbour.
LoadKey ==
  /\ At("key")
  /\ IF Matches(page.key[r.i])
     THEN Go(IF r.i = 0 /\ kind # "internal" THEN "own" ELSE "either",
             [r EXCEPT !.k = page.key[r.i], !.t = NULL, !.left = NULL])
     ELSE NextSlot(r)

LeftOf(i) == IF i = 0 THEN leftmost_ptr ELSE page.ptr[i - 1]

\* records[i - 1].ptr != (t = records[i].ptr), in one order ...
LoadLeftFirst ==
  /\ At("either")
  /\ kind = "internal" \/ FALSE \in OwnFirst
  /\ Go("own", [r EXCEPT !.left = LeftOf(r.i)])
LoadOwnSecond == At("own") /\ Go("valid", [r EXCEPT !.t = page.ptr[r.i]])

\* ... or in the other
LoadOwnFirst ==
  /\ At("either")
  /\ kind = "internal" \/ TRUE \in OwnFirst
  /\ Go("left", [r EXCEPT !.t = page.ptr[r.i]])
LoadLeftSecond == At("left") /\ Go("valid", [r EXCEPT !.left = LeftOf(r.i)])

\* A record is valid when its pointer is not that of its left neighbour; to
\* the left, NULL is excluded as well.
Distinct(left, t) == left # t /\ (IsForward(r.prev) \/ t # NULL)

\* Mutant: an internal page returns the pointer of the record itself.
ValidateOwn ==
  /\ At("valid")
  /\ IF ~Distinct(r.left, r.t) THEN NextSlot([r EXCEPT !.skipped = TRUE])
     ELSE IF kind = "internal" THEN Go("check", [r EXCEPT !.ret = r.t])
     ELSE Go("again", r)

\* A leaf loads the key again, an internal page returns the left pointer.
Validate ==
  /\ At("valid")
  /\ IF ~Distinct(r.left, r.t) THEN NextSlot([r EXCEPT !.skipped = TRUE])
     ELSE IF kind = "internal" THEN Go("check", [r EXCEPT !.ret = r.left])
     ELSE Go("again", r)

KeyAgain ==
  /\ At("again")
  /\ IF Reloads => page.key[r.i] = r.k THEN Go("check", [r EXCEPT !.ret = r.t]) ELSE NextSlot(r)

\* Internal: if(!ret) ret = records[i - 1].ptr
LastChild == At("last") /\ Go("check", [r EXCEPT !.ret = page.ptr[r.i - 1]])

\* while(hdr.switch_counter != previous_switch_counter); a leaf returns ret
Check ==
  /\ At("check")
  /\ Go(IF Reloads /\ page.switch_counter # r.prev THEN "top"
        ELSE IF r.ret # NULL /\ kind # "internal" THEN "return"
        ELSE "sibling", r)

\* if((t = sibling_ptr) && key >= t->records[0].key) return t
Sibling ==
  /\ At("sibling")
  /\ Go("return",
        [r EXCEPT !.ret = IF page.sibling # {} /\ r.key >= SibFirst(page) THEN SIBLING
                          ELSE IF @ = NULL THEN leftmost_ptr ELSE @])

\* The caller has the result; the next search starts from scratch.
EndSearch ==
  /\ pc = "return"
  /\ pc' = "idle"
  /\ r' = NoLocals
  /\ must' = FALSE
  /\ may' = FALSE
  /\ UNCHANGED <<kind, page, stores, wop, ops, present>>

-----------------------------------------------------------------------------

WriterStep ==
  \/ \E key \in Keys : BeginInsert(key) \/ BeginRemove(key)
  \/ Store \/ EndOp

ReaderStep ==
  \/ \E key \in Keys : StartSearch(key)
  \/ Top \/ CountTop \/ CountLast \/ CountScan \/ CountUp \/ CountEnd
  \/ Bound \/ LoadKey \/ LoadLeftFirst \/ LoadOwnSecond \/ LoadOwnFirst \/ LoadLeftSecond
  \/ Validate \/ KeyAgain \/ LastChild \/ Check \/ Sibling \/ EndSearch

Next == WriterStep \/ ReaderStep

Spec == Init /\ [][Next]_vars

-----------------------------------------------------------------------------
(* Properties                                                               *)

\* The page and the reader keep their types; in particular no scan, in either
\* direction and at whatever moment, leaves the page: its last slot always
\* ends it.
TypeOK ==
  /\ page.key \in [Slots -> Keys \cup {LONG_MAX}]
  /\ page.ptr \in [Slots -> Keys \cup {NULL, LEFT}]
  /\ page.ptr[cardinality - 1] = NULL
  /\ page.last_index \in -1 .. cardinality - 2
  /\ page.switch_counter \in 0 .. 255
  /\ page.sibling \in SUBSET Keys
  /\ present \in SUBSET Keys
  /\ r.i \in -1 .. cardinality - 1

\* Between operations the page holds the keys inserted and not removed, less
\* those that moved to a sibling, in order, each with its own pointer, and its
\* end mark and last_index agree.
PageAtRest ==
  /\ TypeOK
  /\ wop = NoOp =>
       LET n == Count(page)
       IN  /\ {page.key[s] : s \in 0 .. n - 1} = present \ page.sibling
           /\ \A s \in 0 .. n - 1 : page.ptr[s] = page.key[s]
           /\ \A s \in 1 .. n - 1 : page.key[s - 1] < page.key[s]
           /\ page.ptr[n] = NULL

\* Whatever the writer does meanwhile, a search of a leaf returns no other
\* key's pointer, and nothing for a key that was not there.
NoWrongValue ==
  (pc = "return" /\ kind # "internal") =>
    /\ r.ret \in {NULL, SIBLING, r.key}
    /\ r.ret = r.key => may

\* A key that is in the page from the beginning to the end of a search is
\* found there or, when the page is split, the search is sent to the sibling
\* that has it.  (Not so in the RAP_MOD build: see RapShift.)
NoMiss ==
  (pc = "return" /\ kind = "leaf" /\ must) =>
    r.ret = r.key \/ (r.ret = SIBLING /\ r.key \in page.sibling)

\* An internal page never sends a search to a child to the right of its key,
\* from where it could not come back.  (It may send it further left than
\* necessary: sibling pointers lead it on.)
RouteSound ==
  (pc = "return" /\ kind = "internal") =>
    r.ret \in {SIBLING, LEFT} \cup {k \in Keys : k <= r.key}

\* Where a search does go too far to the right: to the child of a record that
\* was entered while it scanned the page, and only after it met that record on
\* its way in.  FastFairTree takes an internal page's search to do this.
RouteSoundUnlessEntered ==
  (pc = "return" /\ kind = "internal" /\ r.ret > r.key) => r.skipped /\ r.ret \in r.entered

=============================================================================

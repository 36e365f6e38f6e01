----------------------------- MODULE StaticHash -----------------------------
(***************************************************************************)
(* Insert, Get and resize() of several threads on one of the four static   *)
(* hash tables of cceh/src.  Their layouts are in module HashTables; what  *)
(* they share is the protocol: Insert waits while resizing_lock is set,    *)
(* computes its indices, tries one place after the other under that        *)
(* place's mutex and, when all are taken, sets resizing_lock to displace   *)
(* an entry or to resize under all mutexes.                                *)
(*                                                                         *)
(* What a thread does under a mutex is one step, where all who read the    *)
(* same cells take the mutex.  find_path() of cuckoo hashing does not, so  *)
(* there a claimed slot, and a locked path, are states of their own.       *)
(***************************************************************************)
EXTENDS HashTables

CONSTANTS
  Threads,
  loader,      \* runs first, alone
  Scenarios,   \* records [scheme, cap, junk, program]: `junk' bounds the
               \* tokens that are not 0 in new buckets of level hashing
  NONE

VARIABLES
  scheme,
  tab,            \* cap, slot: the current table
  old_tab,        \* of cuckoo hashing, NONE before the first resize
  size,           \* of linear probing
  resize_num,     \* of level hashing
  resizing_lock,
  held,           \* stripes a thread of cuckoo hashing holds between steps
  pc, loc,        \* threads: place, local variables
  todo,           \* calls not returned yet
  acked,          \* keys whose Insert has returned
  exited,         \* exit(1)
  budget,         \* junk still to come
  races           \* "overtaken": an Insert whose indices were computed before
                  \* a resize has stored its key after it; "dropped": resize()
                  \* had no place for an entry

vars == <<scheme, tab, old_tab, size, resize_num, resizing_lock, held, pc, loc, todo,
          acked, exited, budget, races>>

table == <<tab, old_tab, size, resize_num>>

ASSUME StaticHashAssumption ==
  /\ loader \in Threads
  /\ \A sc \in Scenarios :
       /\ sc.scheme \in Schemes /\ {sc.cap, sc.junk} \subseteq Nat
       /\ \A t \in Threads : \A n \in DOMAIN sc.program[t] :
            sc.program[t][n] \in [op : {"insert", "insertOnly", "get"}, key : Keys]

NoLocals == [idx |-> <<0, 0>>, n |-> 1, path |-> <<>>, stale |-> FALSE, old |-> FALSE,
             must |-> FALSE, hit |-> FALSE]

\* Tokens are not initialised by `new Node[]': one of them, while the budget
\* lasts, is not 0.
JunkSets(cells) == {{}} \cup (IF budget = 0 THEN {} ELSE {{c} : c \in cells})

Init ==
  \E sc \in Scenarios :
    /\ scheme = sc.scheme
    /\ budget = sc.junk
    /\ tab = [cap |-> sc.cap, slot |-> Empty(Slots(sc.scheme, sc.cap))]
    /\ old_tab = NONE
    /\ size = 0
    /\ resize_num = 0
    /\ resizing_lock = 0
    /\ held = [t \in Threads |-> {}]
    /\ pc = [t \in Threads |-> "idle"]
    /\ loc = [t \in Threads |-> NoLocals]
    /\ todo = sc.program
    /\ acked = {}
    /\ exited = FALSE
    /\ races = {}

-----------------------------------------------------------------------------

Call(t) == Head(todo[t])
Key(t) == Call(t).key

Goto(t, p) == pc' = [pc EXCEPT ![t] = p]

\* No other thread holds one of the stripes.
Free(t, stripes) == \A u \in Threads \ {t} : held[u] \cap stripes = {}

\* Where Insert tries with the indices it has.
Place(t) == Probe(scheme, loc[t].idx, tab.cap, Key(t))

Ack(t) ==
  /\ acked' = acked \cup {Key(t)}
  /\ races' = IF loc[t].stale THEN races \cup {"overtaken"} ELSE races

\* Threads whose Get is under way: a displacement or a resize disturbs it.
Disturb(l) == [u \in Threads |-> IF pc[u] = "get" THEN [l[u] EXCEPT !.stale = TRUE] ELSE l[u]]

Return(t, l) ==
  /\ Goto(t, "idle")
  /\ todo' = [todo EXCEPT ![t] = Tail(@)]
  /\ loc' = [l EXCEPT ![t] = NoLocals]

Loaded == todo[loader] = <<>>

-----------------------------------------------------------------------------
(* Insert                                                                   *)

StartInsert(t) ==
  /\ pc[t] = "idle" /\ todo[t] # <<>> /\ (t = loader \/ Loaded)
  /\ Call(t).op = "insert"
  /\ Goto(t, "spin")
  /\ UNCHANGED <<scheme, table, resizing_lock, held, loc, todo, acked, exited, budget, races>>

\* Linear probing resizes when 95% of the slots are taken.
BelowThreshold == size * 100 < tab.cap * 95

\* while (resizing_lock == 1), and the indices.
Spin(t) ==
  /\ pc[t] = "spin" /\ resizing_lock = 0
  /\ loc' = [loc EXCEPT ![t] = [NoLocals EXCEPT !.idx = Indices(scheme, tab.cap, Key(t))]]
  /\ Goto(t, IF scheme = "linear" /\ ~BelowThreshold THEN "full" ELSE "try")
  /\ UNCHANGED <<scheme, table, resizing_lock, held, todo, acked, exited, budget, races>>

\* The n-th place is taken.
Proceed(t, n) ==
  /\ IF n <= Len(Place(t)) THEN UNCHANGED pc
     ELSE Goto(t, IF scheme = "linear" THEN "spin" ELSE "full")
  /\ loc' = [loc EXCEPT ![t].n = n]
  /\ UNCHANGED <<scheme, table, resizing_lock, held, todo, acked, exited, budget, races>>

\* Linear probing scans to the end of a stripe under one lock.
Run(t) ==
  LET end == SelectInSubSeq(Place(t), loc[t].n + 1, tab.cap, LAMBDA d : d % LockSize = 0)
  IN  loc[t].n .. (IF end = 0 THEN tab.cap ELSE end - 1)

FreeInRun(t) == {n \in Run(t) : tab.slot[Place(t)[n]] = INVALID}

LinearInsert(t) ==
  /\ pc[t] = "try" /\ scheme = "linear"
  /\ \E n \in FreeInRun(t) :
       /\ \A m \in FreeInRun(t) : n <= m
       /\ tab' = [tab EXCEPT !.slot[Place(t)[n]] = Key(t)]
       /\ size' = size + 1
  /\ Ack(t)
  /\ Return(t, loc)
  /\ UNCHANGED <<scheme, old_tab, resize_num, resizing_lock, held, exited, budget>>

LinearSkip(t) ==
  /\ pc[t] = "try" /\ scheme = "linear"
  /\ FreeInRun(t) = {}
  /\ Proceed(t, 1 + CHOOSE n \in Run(t) : \A m \in Run(t) : m <= n)

Cell(t) == Place(t)[loc[t].n]

\* Path and level hashing: one place under its mutex.
TryPlace(t) ==
  /\ pc[t] = "try" /\ scheme \in {"path", "level"}
  /\ IF tab.slot[Cell(t)] # INVALID THEN Proceed(t, loc[t].n + 1)
     ELSE /\ tab' = [tab EXCEPT !.slot[Cell(t)] = Key(t)]
          /\ Ack(t)
          /\ Return(t, loc)
          /\ UNCHANGED <<scheme, old_tab, size, resize_num, resizing_lock, held, exited, budget>>

\* Cuckoo hashing: the mutex, and SENTINEL for the key.
Claim(t) ==
  /\ pc[t] = "try" /\ scheme = "cuckoo"
  /\ Free(t, {Stripe(Cell(t))})
  /\ IF tab.slot[Cell(t)] # INVALID THEN Proceed(t, loc[t].n + 1)
     ELSE /\ tab' = [tab EXCEPT !.slot[Cell(t)] = SENTINEL]
          /\ held' = [held EXCEPT ![t] = {Stripe(Cell(t))}]
          /\ Goto(t, "claimed")
          /\ UNCHANGED <<scheme, old_tab, size, resize_num, resizing_lock, loc, todo, acked,
                         exited, budget, races>>

StoreClaimed(t) ==
  /\ pc[t] = "claimed"
  /\ tab' = [tab EXCEPT !.slot[Cell(t)] = Key(t)]
  /\ held' = [held EXCEPT ![t] = {}]
  /\ Ack(t)
  /\ Return(t, loc)
  /\ UNCHANGED <<scheme, old_tab, size, resize_num, resizing_lock, exited, budget>>

\* InsertOnly takes no lock, displaces nothing and never resizes: for one thread
\* alone.  Level hashing has none.
InsertOnly(t) ==
  LET cells == Probe(scheme, Indices(scheme, tab.cap, Key(t)), tab.cap, Key(t))
      n == SelectInSeq(cells, LAMBDA c : tab.slot[c] = INVALID)
  IN  /\ pc[t] = "idle" /\ todo[t] # <<>> /\ t = loader
      /\ Call(t).op = "insertOnly"
      /\ IF n = 0 \/ scheme = "level" THEN UNCHANGED <<tab, size, acked>>
         ELSE /\ tab' = [tab EXCEPT !.slot[cells[n]] = Key(t)]
              /\ size' = IF scheme = "linear" THEN size + 1 ELSE size
              /\ acked' = acked \cup {Key(t)}
      /\ Return(t, loc)
      /\ UNCHANGED <<scheme, old_tab, resize_num, resizing_lock, held, exited, budget, races>>

\* No place left: CAS(&resizing_lock, 0, 1).
TakeResizing(t) ==
  /\ pc[t] = "full"
  /\ IF resizing_lock = 1 THEN Goto(t, "spin") /\ UNCHANGED <<resizing_lock, loc>>
     ELSE /\ resizing_lock' = 1
          /\ Goto(t, CASE scheme = "cuckoo" -> "path"
                       [] scheme = "level" -> "move"
                       [] scheme \in {"linear", "path"} -> "resize")
          /\ loc' = [loc EXCEPT ![t].n = 1]
  /\ UNCHANGED <<scheme, table, held, todo, acked, exited, budget, races>>

-----------------------------------------------------------------------------
(* Cuckoo hashing displaces entries along a path.                           *)

FoundPath(t) ==
  Shorter(tab.slot, find_path(tab.slot, tab.cap, loc[t].idx[1]),
                    find_path(tab.slot, tab.cap, loc[t].idx[2]))

\* The places a find_path() from the indices of t comes to.
Visits(t) ==
  UNION {ToSet(find_path(tab.slot, tab.cap, loc[t].idx[i])) : i \in {1, 2}}

\* "something terribly wrong": the entry's hash values do not lead to its cell.
\* Those of SENTINEL, which a claimed slot holds, lead anywhere else.
Wrong(c) ==
  \/ tab.slot[c] = SENTINEL
  \/ tab.slot[c] \in Keys /\ c \notin {F[tab.slot[c]] % tab.cap, S[tab.slot[c]] % tab.cap}

\* Without any lock.
FindPath(t) ==
  /\ pc[t] = "path"
  /\ IF \E c \in Visits(t) : Wrong(c)
     THEN exited' = TRUE /\ UNCHANGED <<pc, loc>>
     ELSE /\ loc' = [loc EXCEPT ![t].path = [n \in DOMAIN FoundPath(t) |->
                       <<FoundPath(t)[n], tab.slot[FoundPath(t)[n]]>>]]
          /\ Goto(t, IF FoundPath(t) = <<>> THEN "resize" ELSE "lockpath")
          /\ UNCHANGED exited
  /\ UNCHANGED <<scheme, table, resizing_lock, held, todo, acked, budget, races>>

PathStripes(t) == {Stripe(step[1]) : step \in ToSet(loc[t].path)}

\* All mutexes of the path; if an entry has changed, all over again.
LockPath(t) ==
  /\ pc[t] = "lockpath"
  /\ Free(t, PathStripes(t))
  /\ IF \E step \in ToSet(loc[t].path) : tab.slot[step[1]] # step[2]
     THEN Goto(t, "path") /\ UNCHANGED <<resizing_lock, held>>
     ELSE /\ resizing_lock' = 0
          /\ held' = [held EXCEPT ![t] = PathStripes(t)]
          /\ Goto(t, "execute")
  /\ UNCHANGED <<scheme, table, loc, todo, acked, exited, budget, races>>

ExecutePath(t) ==
  /\ pc[t] = "execute"
  /\ tab' = [tab EXCEPT !.slot =
               execute_path(@, [n \in DOMAIN loc[t].path |-> loc[t].path[n][1]], Key(t))]
  /\ held' = [held EXCEPT ![t] = {}]
  /\ Ack(t)
  /\ Return(t, Disturb(loc))
  /\ UNCHANGED <<scheme, old_tab, size, resize_num, resizing_lock, exited, budget>>

-----------------------------------------------------------------------------
(* Level hashing displaces one entry within a level, or to the top.         *)

\* The n-th attempt: try_movement in both buckets of both levels, then, once
\* resized, b2t_movement in both buckets of the bottom.
Attempts == IF resize_num > 0 THEN 6 ELSE 4

Movement(t) ==
  LET n == loc[t].n
      lvl == IF n <= 2 THEN 0 ELSE 1
      i == Indices("level", tab.cap \div (1 + lvl), Key(t))[2 - (n % 2)]
  IN  IF n <= 4 THEN try_movement(tab, i, lvl, Key(t)) ELSE b2t_movement(tab, i, Key(t))

Move(t) ==
  /\ pc[t] = "move" /\ Movement(t) # <<>>
  /\ tab' = [tab EXCEPT !.slot = Movement(t)]
  /\ resizing_lock' = 0
  /\ acked' = acked \cup {Key(t)}
  /\ Return(t, Disturb(loc))
  /\ UNCHANGED <<scheme, old_tab, size, resize_num, held, exited, budget, races>>

MoveFails(t) ==
  /\ pc[t] = "move" /\ Movement(t) = <<>>
  /\ loc' = [loc EXCEPT ![t].n = @ + 1]
  /\ IF loc[t].n = Attempts THEN Goto(t, "resize") ELSE UNCHANGED pc
  /\ UNCHANGED <<scheme, table, resizing_lock, held, todo, acked, exited, budget, races>>

-----------------------------------------------------------------------------
(* resize(), under all mutexes                                              *)

\* Others that have computed indices will use them in the new table.  (Some
\* of the resizes publish the new mutexes before they have moved the entries:
\* then such a thread may store during the move.  Here it stores after it;
\* either way it counts as overtaken.)
Overtake(t) ==
  [u \in Threads |-> IF u # t /\ pc[u] \in {"try", "full", "get"}
                     THEN [loc[u] EXCEPT !.stale = TRUE] ELSE loc[u]]

NewTop == IF scheme = "level" THEN {c \in LevelSlots(2 * tab.cap) : c[1] = 0} ELSE {}

Resize(t) ==
  /\ pc[t] = "resize"
  /\ \A u \in Threads : held[u] = {}
  /\ \E junk \in JunkSets(NewTop) :
       LET new == CASE scheme = "linear" -> LinearResize(tab)
                    [] scheme = "cuckoo" -> CuckooResize(tab)
                    [] scheme = "path"   -> PathResize(tab)
                    [] scheme = "level"  -> LevelResize(tab, junk)
       IN  /\ tab' = [cap |-> new.cap, slot |-> new.slot]
           /\ races' = IF new.dropped \cap Keys = {} THEN races ELSE races \cup {"dropped"}
           /\ exited' = (scheme = "cuckoo" /\ new.dropped # {})
           /\ budget' = budget - Cardinality(junk)
  /\ old_tab' = IF scheme = "cuckoo" THEN tab ELSE NONE
  /\ resize_num' = IF scheme = "level" THEN resize_num + 1 ELSE 0
  /\ resizing_lock' = 0
  /\ loc' = Overtake(t)
  /\ Goto(t, "spin")
  /\ UNCHANGED <<scheme, size, held, todo, acked>>

-----------------------------------------------------------------------------
(* Get                                                                      *)

\* resize() begins with old_tab = table, the same object until the new table
\* is there.
OldTable == IF \E u \in Threads : pc[u] = "resize" THEN tab ELSE old_tab

\* Cuckoo hashing looks into the old table while resizing_lock is set; before
\* the first resize old_cap and old_tab are not initialised.
StartGet(t) ==
  /\ pc[t] = "idle" /\ todo[t] # <<>> /\ Loaded
  /\ Call(t).op = "get"
  /\ LET old == scheme = "cuckoo" /\ resizing_lock = 1
         cap == IF old /\ OldTable # NONE THEN OldTable.cap ELSE tab.cap
     IN  /\ loc' = [loc EXCEPT ![t] = [NoLocals EXCEPT !.idx = Indices(scheme, cap, Key(t)),
                                                       !.old = old, !.stale = old,
                                                       !.must = Key(t) \in acked]]
         /\ Goto(t, IF old /\ OldTable = NONE THEN "undefined" ELSE "get")
  /\ UNCHANGED <<scheme, table, resizing_lock, held, todo, acked, exited, budget, races>>

GetTable(t) == IF loc[t].old THEN OldTable ELSE tab

LookSeq(t) == Looks(scheme, loc[t].idx, GetTable(t).cap, Key(t))

\* One lock of Get's.
Look(t) ==
  /\ pc[t] = "get"
  /\ LET cells == LookSeq(t)[loc[t].n]
         hit == \E c \in cells : GetTable(t).slot[c] = Key(t)
         end == \/ hit \/ loc[t].n = Len(LookSeq(t))
                \/ GivesUp(scheme, GetTable(t).slot, cells)
     IN  /\ scheme = "cuckoo" => Free(t, {Stripe(c) : c \in cells})
         /\ loc' = [loc EXCEPT ![t].n = @ + 1, ![t].hit = hit]
         /\ IF end THEN Goto(t, "got") ELSE UNCHANGED pc
  /\ UNCHANGED <<scheme, table, resizing_lock, held, todo, acked, exited, budget, races>>

ReturnGet(t) ==
  /\ pc[t] = "got"
  /\ Return(t, loc)
  /\ UNCHANGED <<scheme, table, resizing_lock, held, acked, exited, budget, races>>

-----------------------------------------------------------------------------

Step(t) ==
  /\ ~exited
  /\ \/ InsertOnly(t) \/ StartInsert(t) \/ Spin(t) \/ LinearInsert(t) \/ LinearSkip(t) \/ TryPlace(t)
     \/ Claim(t) \/ StoreClaimed(t) \/ TakeResizing(t)
     \/ FindPath(t) \/ LockPath(t) \/ ExecutePath(t) \/ Move(t) \/ MoveFails(t)
     \/ Resize(t) \/ StartGet(t) \/ Look(t) \/ ReturnGet(t)

Finished ==
  \/ exited
  \/ \A t \in Threads : pc[t] = "undefined" \/ (pc[t] = "idle" /\ todo[t] = <<>>)

Terminating == Finished /\ UNCHANGED vars

Next == (\E t \in Threads : Step(t)) \/ Terminating

Spec == Init /\ [][Next]_vars

-----------------------------------------------------------------------------
(* Properties                                                               *)

\* A table has the cells of its capacity, nothing is held between calls, and
\* a claimed slot belongs to the thread that claimed it.
TypeOK ==
  /\ DOMAIN tab.slot = Slots(scheme, tab.cap)
  /\ \A c \in DOMAIN tab.slot : tab.slot[c] \in Keys \cup {INVALID, SENTINEL, JUNK}
  /\ \A c \in DOMAIN tab.slot : tab.slot[c] = SENTINEL =>
       \E t \in Threads : pc[t] = "claimed" /\ Cell(t) = c
  /\ size \in 0 .. Cardinality(Keys) /\ resizing_lock \in {0, 1}
  /\ \A t \in Threads : held[t] # {} => pc[t] \in {"claimed", "execute"}

Occurrences(k) == {c \in DOMAIN tab.slot : tab.slot[c] = k}

\* Whatever Inserts, displacements and resizes run together, every key whose
\* Insert has returned is where Get looks for it, and only there; linear
\* probing counts its entries exactly and its resize has room for all of them.
\* (Unless an Insert was overtaken by a resize, or resize() dropped an entry.)
NothingLost ==
  /\ TypeOK
  /\ races = {} => \A k \in acked : Reachable(scheme, tab, k) /\ Cardinality(Occurrences(k)) = 1
  /\ scheme = "linear" => size = Cardinality({c \in DOMAIN tab.slot : tab.slot[c] # INVALID})
  /\ scheme = "linear" => "dropped" \notin races

\* A Get that no displacement and no resize disturbed finds a key whose Insert
\* had returned when it was called, whatever Inserts run meanwhile.
GetFinds ==
  \A t \in Threads :
    (pc[t] = "got" /\ loc[t].must /\ ~loc[t].stale /\ races = {}) => loc[t].hit

=============================================================================

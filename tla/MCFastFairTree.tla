--------------------------- MODULE MCFastFairTree ---------------------------
(* Instances of FastFairTree: pages of three records.  A load phase fills   *)
(* the pages on the right edge of the tree, then three threads run.         *)
EXTENDS FastFairTree, TLC

CONSTANTS t0, t1, t2, t3

Ins(k) == [op |-> "insert", key |-> k, max |-> k]
Find(k) == [op |-> "search", key |-> k, max |-> k]
Del(k) == [op |-> "delete", key |-> k, max |-> k]
Between(min, max) == [op |-> "range", key |-> min, max |-> max]

InsAll(s) == [i \in DOMAIN s |-> Ins(s[i])]

\* Two inserts into the last leaf, which is full, and a search of a key in it.
Edge(n) ==
  (t0 :> [i \in 1 .. n |-> Ins(IF i = n THEN n + 1 ELSE i)])
    @@ (t1 :> <<Ins(n)>>) @@ (t2 :> <<Ins(n + 2)>>) @@ (t3 :> <<Find(n + 1)>>)

SomeKeys == 1 .. 14

\* t1 splits the leaf twice; t3 searches a key that moves with the first split.
Twice ==
  {(t0 :> <<Ins(4), Ins(5), Ins(6)>>) @@ (t1 :> <<Ins(7), Ins(1), Ins(2), Ins(3)>>)
     @@ (t2 :> <<>>) @@ (t3 :> <<Find(6)>>)}

\* The root has the separators 2, 3, 7.  t1 splits it at 3 while t2 is on its
\* way to enter 4, which then belongs to the new page and is entered in the old.
Stray ==
  {(t0 :> InsAll(<<1, 2, 3, 7, 8, 9, 4, 5>>))
     @@ (t1 :> <<Ins(10)>>) @@ (t2 :> <<Ins(6)>>) @@ (t3 :> <<Find(5)>>)}

\* t1 splits the last leaf and moves the key t2 deletes; t2 then inserts a key
\* next to it; t3 walks over all leaves, or searches.
Removals ==
  {(t0 :> InsAll(<<2, 4, 6, 8, 10>>))
     @@ (t1 :> <<Ins(11)>>) @@ (t2 :> <<Del(k), Ins(9)>>) @@ (t3 :> <<op>>) :
     k \in {8, 10}, op \in {Between(1, 11), Between(4, 10), Find(9)}}

\* t1 splits the last leaf and enters its separator, 10, into the root while t2
\* and t3 scan the root for smaller keys; or it enters 6 and 8 while t2 scans the
\* root for 5, which may get a leaf two pages too far to the right.
Misled ==
  {(t0 :> InsAll(<<2, 4, 6, 10, 12>>))
     @@ (t1 :> <<Ins(8)>>) @@ (t2 :> <<op2>>) @@ (t3 :> <<op3>>) :
     op2 \in {Ins(7), Del(6)}, op3 \in {Find(6), Find(10), Between(5, 13)}}
  \cup
  {(t0 :> InsAll(<<2, 4, 6, 8>>))
     @@ (t1 :> <<Ins(10), Ins(12)>>) @@ (t2 :> <<Ins(5)>>) @@ (t3 :> <<Find(5)>>)}

\* The same one level higher: t1 splits the last internal page while t2 is on its
\* way through the root with the separator 7, which belongs to the page before.
Deep ==
  {(t0 :> InsAll(<<1, 2, 3, 4, 5, 6, 10, 11, 12, 13, 7, 8>>))
     @@ (t1 :> <<Ins(14)>>) @@ (t2 :> <<Ins(9)>>) @@ (t3 :> <<Find(8)>>)}

\* In the first three the root is a full leaf; a full internal page; has a full child.
Growing ==
  {Edge(3), Edge(6), Edge(9)} \cup Twice \cup Stray \cup Removals \cup Misled \cup Deep

=============================================================================

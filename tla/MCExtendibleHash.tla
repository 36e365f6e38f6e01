-------------------------- MODULE MCExtendibleHash --------------------------
(* Instances of ExtendibleHash.  A key is named by its hash.                *)
EXTENDS ExtendibleHash, TLC

CONSTANTS t1, t2, t3

Ins(k) == [op |-> "insert", key |-> k, value |-> k]
Only(k) == [op |-> "insertOnly", key |-> k, value |-> k]
Find(k) == [op |-> "get", key |-> k, value |-> k]

Keys9 == 0 .. 8
Hash9 == [k \in Keys9 \cup {INVALID, SENTINEL} |-> IF k \in Keys9 THEN k ELSE 0]

\* A directory of one entry, blocks of two slots.
\*  - Doublings: two threads double the directory and one reads;
\*  - Strides: 0, 4 and 8 take the directory to depth 3 while 1, 3 and 5 split
\*    a block of depth 1 in it, so that four entries change;
\*  - Refusals: inserts without split into a block another thread splits.
Doublings == (t1 :> <<Ins(0), Ins(1), Ins(2)>>) @@ (t2 :> <<Ins(4), Find(0), Find(1)>>)
Strides == (t1 :> <<Ins(0), Ins(4), Ins(8)>>) @@ (t2 :> <<Ins(1), Ins(3), Ins(5), Find(4)>>)
Refusals == (t1 :> <<Ins(0), Ins(1), Ins(3)>>) @@ (t2 :> <<Only(2), Only(7), Find(1)>>)
\*  - Overtaken: three threads meet at one full block, and t2 splits it again
\*    while t1 splits a block two levels deeper.
Overtaken == (t1 :> <<Ins(0), Ins(4), Ins(8)>>) @@ (t2 :> <<Ins(1)>>) @@ (t3 :> <<Only(3)>>)
\*  - Lag: t2 computes its index while the directory has 4 entries and inserts 5
\*    by it when the directory has 8, through an entry that t1, in the middle of
\*    an update, has redirected, before t1 redirects the entry of 5.
Lag == (t1 :> <<Ins(1), Ins(3), Ins(0), Ins(4), Ins(8), Ins(7)>>) @@ (t2 :> <<Ins(5), Find(5)>>)

Idle(p) == [t \in Threads |-> IF t \in DOMAIN p THEN p[t] ELSE <<>>]
MCPrograms == {Idle(p) : p \in {Doublings, Strides, Refusals, Overtaken, Lag}}

=============================================================================

------------------------------- MODULE MCCCEH -------------------------------
(* Instances of CCEH.  A key is named by the bits of its hash.              *)
EXTENDS CCEH, TLC

CONSTANTS t1, t2, t3

Ins(k) == [op |-> "insert", key |-> k, value |-> k]
Only(k) == [op |-> "insertOnly", key |-> k, value |-> k]
Find(k) == [op |-> "get", key |-> k, value |-> k]

\* Extend a function on keys to the two reserved words.
OnWords(f, K, w) == [k \in K \cup {INVALID, SENTINEL} |-> IF k \in K THEN f[k] ELSE w]

\* Three-bit hashes, segments of one slot.
Keys3 == 0 .. 7
Hash3 == OnWords([k \in Keys3 |-> k], Keys3, 0)
OneIdx == OnWords([k \in Keys3 |-> 0], Keys3, 0)

\* Two threads overflow different segments of a directory of depth 1.
TwoSplits == (t1 :> <<Ins(0), Ins(2)>>) @@ (t2 :> <<Ins(4), Ins(6)>>)

\* 0, 3, 2 make the directory grow to depth 3 (3 moves when 2 arrives) while 4
\* and 6 split a segment of depth 1 in it, so that four of its entries change;
\* t3 reads meanwhile.
Strides ==
  (t1 :> <<Ins(0), Ins(3), Ins(2)>>) @@ (t2 :> <<Ins(4), Ins(6)>>)
    @@ (t3 :> <<Find(0), Find(3)>>)

\* Two doublings while another Insert is between its reads of `dir'.
TornReads == (t1 :> <<Ins(4)>>) @@ (t2 :> <<Ins(0), Ins(2), Ins(1)>>)

\* Inserts only; t3 collides with t1.
Three == (t1 :> <<Ins(0), Ins(2)>>) @@ (t2 :> <<Ins(4), Ins(6)>>) @@ (t3 :> <<Ins(3)>>)

\* A reader of a key whose segment another thread splits.
ReadWhileSplit ==
  (t1 :> <<Ins(0), Ins(2), Ins(3)>>) @@ (t2 :> <<Ins(4), Ins(6), Find(2)>>)

\* Two probe windows of one slot each: every key has first window 0 and second
\* window 1.  2 and 3 move together when 0 or 1 arrives.
AllSecond == OnWords([k \in Keys3 |-> 1], Keys3, 1)
Windows == (t1 :> <<Ins(2), Ins(3), Ins(0)>>) @@ (t2 :> <<Ins(1), Ins(4), Find(3)>>)
CowFill == (t1 :> <<Ins(0), Ins(1), Ins(2)>>)

\* Three slots, one-slot windows, four-bit hashes: X = 4, A = 2, Y = 5, D = 3,
\* E = 1.  A is pushed to its second window by X, X leaves with the first
\* split, D takes X's slot, and the second split has to move A and D.
Keys4 == {1, 2, 3, 4, 5}
Hash4 == OnWords([k \in Keys4 |-> k], Keys4, 0)
F4 == OnWords([k \in Keys4 |-> 2], Keys4, 1)
S4 == OnWords([k \in Keys4 |-> IF k \in {3, 4} THEN 2 ELSE 0], Keys4, 1)
Reuse == (t1 :> <<Ins(4), Ins(2), Ins(5), Ins(3), Ins(1)>>)

\* InsertOnly finds room, collides, or waits for a split.
Refusals == (t1 :> <<Ins(0), Ins(2)>>) @@ (t2 :> <<Only(4), Only(3), Find(0)>>)

\* Copy-on-write with readers of both allocators.
CowReads == (t1 :> <<Ins(0), Ins(2)>>) @@ (t2 :> <<Find(0)>>) @@ (t3 :> <<Ins(6)>>)

\* A Get that reads `dir' once before and once after a doubling finds a segment
\* that is not the one of its key, and unlocks it: t3 needs that one.
CowStray == (t1 :> <<Ins(0), Ins(2)>>) @@ (t2 :> <<Find(4)>>) @@ (t3 :> <<Ins(3)>>)

Idle(p) == [t \in Threads |-> IF t \in DOMAIN p THEN p[t] ELSE <<>>]
Sc(b, p) == [build |-> b, program |-> Idle(p)]

\* t2 grows the directory to depth 3 and splits the segment of 4 .. 7, whose
\* upper half gets 7; Insert(6) may split that half before entry 7 is redirected.
Nested == (t2 :> <<Ins(0), Ins(3), Ins(2), Ins(7), Ins(4)>>) @@ (t3 :> <<Ins(6)>>)

Concurrent ==
  {Sc("pmdk_inplace", Strides), Sc("pmdk_cow", Three), Sc("msb_inplace", Refusals),
   Sc("pmdk_cow", CowReads), Sc("pmdk_cow", CowStray), Sc("msb_cow", CowReads)}
    \cup {Sc(b, Nested) : b \in Builds}
TwoWindows ==
  {Sc("pmdk_inplace", Windows), Sc("msb_inplace", Windows), Sc("msb_cow", Windows)}
Skewed == {Sc("pmdk_inplace", TwoSplits)}

=============================================================================

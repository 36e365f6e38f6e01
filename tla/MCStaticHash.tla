---------------------------- MODULE MCStaticHash ----------------------------
(* Instances of StaticHash: small tables of each scheme.  A load phase fills *)
(* the table, then two threads insert and one reads.                         *)
EXTENDS StaticHash, TLC

CONSTANTS t0, t1, t2, t3

SomeKeys == 1 .. 9

\* Keys 1 to 4 collide in a small table and have places of their own in one of
\* sixteen slots.
FirstHash == (JUNK :> 0) @@ [k \in SomeKeys |-> <<0, 4, 8, 12, 12, 8, 3, 6, 5>>[k]]
SecondHash == (JUNK :> 0) @@ [k \in SomeKeys |-> <<8, 0, 4, 12, 1, 5, 7, 10, 14>>[k]]

Ins(ks) == [i \in DOMAIN ks |-> [op |-> "insert", key |-> ks[i]]]
Only(ks) == [i \in DOMAIN ks |-> [op |-> "insertOnly", key |-> ks[i]]]
Find(ks) == [i \in DOMAIN ks |-> [op |-> "get", key |-> ks[i]]]

\* The keys in an order of their own for every start i and stride m.
Order(i, m) == [n \in SomeKeys |-> 1 + (((n + i) * m) % 9)]

\* The first `load' keys are loaded; t1 inserts the next two, t2 the one after
\* them; t3 looks for the last and the first that were loaded.
Scenario(name, cap, junk, load, ks) ==
  [scheme |-> name, cap |-> cap, junk |-> junk,
   program |-> (t0 :> Ins(SubSeq(ks, 1, load)))
                 @@ (t1 :> Ins(SubSeq(ks, load + 1, load + 2)))
                 @@ (t2 :> Ins(SubSeq(ks, load + 3, load + 3)))
                 @@ (t3 :> Find(<<ks[load], ks[1]>>))]

\* The same, loaded with InsertOnly up to a full table.
OnlyFirst(name, cap, load, ks) ==
  LET sc == Scenario(name, cap, 0, load, ks)
  IN  [sc EXCEPT !.program = (t0 :> Only(SubSeq(ks, 1, load))) @@ @]

\* All schemes, before and after their first resize, and an order in which
\* level hashing moves an entry of the bottom.
Tables ==
  {Scenario(x[1], x[2], x[3], x[4], Order(i, m)) :
     x \in {<<"linear", 4, 0, 2>>, <<"linear", 4, 0, 4>>, <<"path", 2, 0, 2>>,
            <<"cuckoo", 4, 0, 2>>, <<"level", 4, 0, 3>>, <<"level", 4, 0, 5>>,
            <<"level", 4, 1, 3>>},
     i \in 0 .. 8, m \in {1, 2}}
  \cup {OnlyFirst(x[1], x[2], x[3], Order(i, 1)) :
          x \in {<<"linear", 4, 5>>, <<"path", 2, 3>>, <<"cuckoo", 4, 3>>, <<"level", 4, 2>>},
          i \in 0 .. 5}
  \cup {Scenario("level", 8, 0, 5, <<1, 5, 6, 2, 3, 4, 7, 8>>)}

=============================================================================

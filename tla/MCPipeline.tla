----------------------------- MODULE MCPipeline -----------------------------
(***************************************************************************)
(* Builds for TLC: three workers and channels for one item, so that every  *)
(* channel fills, and inputs of three records, one for each thing that may *)
(* be wrong with them.  A record is written as its locator, its canonical  *)
(* poem (which fixes the author), its product fields and its fate.         *)
(***************************************************************************)
EXTENDS Asset

\* Poems 4 and 5 are by other authors than the rest, and the public identifier of poem
\* 3 is that of 1, and the one of the author of 5 that of most.
Author(poem) == [name |-> CASE poem = 4 -> "b" [] poem = 5 -> "c" [] OTHER -> "a",
                 id |-> IF poem = 4 THEN 2 ELSE 1]

Record(locator, poem, product, fate) ==
  [locator |-> locator, canonical |-> poem, id |-> IF poem = 3 THEN 1 ELSE poem,
   product |-> product, author |-> Author(poem), fate |-> fate]

Good(locator, poem) == Record(locator, poem, 0, "good")

Inputs ==
  {<<Good(3, 2), Good(1, 1), Good(2, 2)>>,                        \* two witnesses of a poem
   <<Good(2, 4), Good(1, 2), Good(3, 1)>>,                        \* three poems
   <<Good(1, 1), Good(2, 2), Record(3, 1, 1, "good")>>,           \* two products of a poem
   <<Good(1, 1), Good(2, 3)>>,                                    \* one identifier, two poems
   <<Good(1, 1), Good(1, 2)>>,                                    \* one locator twice
   <<Good(1, 1), Good(2, 4), Good(3, 5)>>,                        \* one identifier, two authors
   <<Good(1, 1), Record(2, 2, 0, "broken"), Record(3, 4, 0, "broken")>>,
   <<Good(1, 1), Record(2, 2, 0, "unusable"), Good(3, 2)>>,       \* one rejected record
   <<Good(1, 1), Good(2, 2), Record(2, 4, 0, "unusable")>>,       \* accepted and rejected
   <<Record(1, 1, 0, "unusable"), Record(1, 2, 0, "unusable")>>,  \* rejected twice
   <<Record(1, 1, 0, "unusable")>>}                               \* nothing is left
=============================================================================

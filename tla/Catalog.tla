------------------------------ MODULE Catalog -------------------------------
(***************************************************************************)
(* The data of a build.  A loaded source record is a witness of a poem: it *)
(* has a locator, the canonical identity of the work and the public        *)
(* integer derived from it, the other product fields (type, content hash,  *)
(* fingerprint) taken together, its author, who has a public integer too,  *)
(* and a fate:                                                             *)
(*   "good"      processPoem turns it into a product;                      *)
(*   "unusable"  the loader or the quality boundary rejects it;            *)
(*   "broken"    it is accepted and processPoem reports an error.          *)
(* A product row holds what the poem table and the witness table say of    *)
(* one canonical poem.                                                     *)
(***************************************************************************)
EXTENDS Integers, FiniteSets, Sequences, SequencesExt

\* A set in the order of a key that no two of its elements share: the place of an
\* element is the number of those that do not come after it.
Sorted(S, key) ==
  [k \in 1 .. Cardinality(S) |-> CHOOSE x \in S : Cardinality({y \in S : key[y] <= key[x]}) = k]

Ascending(S) == Sorted(S, [x \in S |-> x])

\* The elements of a sequence at some of its places, in their order.
Subsequence(s, places) == LET order == Ascending(places) IN [k \in DOMAIN order |-> s[order[k]]]

Fates == {"good", "unusable", "broken"}

\* What the loader may hand over: locators and public identifiers have an order, and
\* the public identifier of a work is computed from its canonical one.
Loadable(records) ==
  /\ records \in Seq(ToSet(records))
  /\ \A i \in DOMAIN records :
       records[i].fate \in Fates /\ records[i].locator \in Int /\ records[i].id \in Int
  /\ \A i, j \in DOMAIN records :
       records[i].canonical = records[j].canonical => records[i].id = records[j].id

\* PartitionSources: the quality boundary, decided before the languages diverge.
Accepted(loaded) == Subsequence(loaded, {i \in DOMAIN loaded : loaded[i].fate # "unusable"})
Rejections(loaded) == Subsequence(loaded, {i \in DOMAIN loaded : loaded[i].fate = "unusable"})

Locators(records) == {records[i].locator : i \in DOMAIN records}
AuthorsOf(records) == {records[i].author : i \in DOMAIN records}

\* No source locator occurs twice.
Distinct(records) ==
  \A i, j \in DOMAIN records : records[i].locator = records[j].locator => i = j

\* A preflight that takes the first product of a work for granted.
DisagreeUnchecked(r, s) == FALSE

\* Two records name one work and disagree on what it is.
Disagree(r, s) == r.canonical = s.canonical /\ r.product # s.product

\* Two works that the truncated public identifier cannot tell apart.
Collide(r, s) == r.id = s.id /\ r.canonical # s.canonical

\* Two authors that the public identifier cannot tell apart.
Clash(a, b) == a # b /\ a.id = b.id

\* preparePoemsForInsert refuses the whole input before the first write.
Conflict(poems) ==
  \/ ~Distinct(poems)
  \/ \E i, j \in DOMAIN poems : Disagree(poems[i], poems[j]) \/ Collide(poems[i], poems[j])

\* The records of one work, and the one whose product is kept.
Records(poems, c) == {r \in ToSet(poems) : r.canonical = c}
Kept(poems, c) == CHOOSE r \in Records(poems, c) : \A s \in Records(poems, c) : r.locator <= s.locator

\* The product row of a work, with every witness in the order of locators.
Row(poems, c) ==
  LET r == Kept(poems, c)
  IN  [canonical |-> c, id |-> r.id, product |-> r.product, author |-> r.author,
       witnesses |-> Ascending({s.locator : s \in Records(poems, c)})]

Works(poems) == {poems[i].canonical : i \in DOMAIN poems}

\* Rows in the order in which the workers finished the first witness of each.
PreparedAsCompleted(poems) ==
  LET First(c) == CHOOSE i \in DOMAIN poems :
                    poems[i].canonical = c /\ \A j \in 1 .. i - 1 : poems[j].canonical # c
      order == SetToSortSeq(Works(poems), LAMBDA c, d : First(c) < First(d))
  IN  [k \in DOMAIN order |-> Row(poems, order[k])]

\* What is written, and in which order: by the public identifier.
Prepared(poems) ==
  LET made == {Row(poems, c) : c \in Works(poems)}
  IN  Sorted(made, [row \in made |-> row.id])

\* The witnesses a group of rows was made from, and the rows of the witness table.
WitnessesOf(rows) == UNION {ToSet(rows[i].witnesses) : i \in DOMAIN rows}
WitnessRows(rows) == UNION {{i} \X DOMAIN rows[i].witnesses : i \in DOMAIN rows}

\* An input that can be published.
Sound(loaded) ==
  /\ Distinct(loaded)
  /\ \A i \in DOMAIN loaded : loaded[i].fate # "broken"
  /\ \A i, j \in DOMAIN Accepted(loaded) :
       LET r == Accepted(loaded)[i] s == Accepted(loaded)[j]
       IN  /\ r.canonical = s.canonical <=> r.id = s.id
           /\ r.canonical = s.canonical => r.product = s.product
           /\ ~Clash(r.author, s.author)

\* Rows that a catalogue of the records begins with, whoever made them and when.
BeginsCatalog(rows, records) ==
  /\ \A i, j \in DOMAIN rows : i < j => rows[i].id < rows[j].id
  /\ \A i \in DOMAIN rows :
       /\ ToSet(rows[i].witnesses) =
            {r.locator : r \in {s \in ToSet(records) : s.canonical = rows[i].canonical}}
       /\ \A k, l \in DOMAIN rows[i].witnesses :
            k < l => rows[i].witnesses[k] < rows[i].witnesses[l]
  /\ \A r \in ToSet(records) :
       (\E i \in DOMAIN rows : r.id < rows[i].id) => r.locator \in WitnessesOf(rows)
=============================================================================

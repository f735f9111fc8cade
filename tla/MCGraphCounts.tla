--------------------------- MODULE MCGraphCounts ----------------------------
(***************************************************************************)
(* GraphQL operations for TLC.  Both languages hold three poems of the     *)
(* dynasty d1; author numbers may differ between the languages, so the     *)
(* author with two poems is a2 in one and a1 in the other.  The operations *)
(* are pairs of fields, with what is nested below them.                    *)
(***************************************************************************)
EXTENDS Response

BothAuthors == {[id |-> a, dynasty |-> "d1"] : a \in {"a1", "a2"}}
PoemsBy(a, b) ==
  { [id |-> "p1", author |-> a, dynasty |-> "d1", type |-> "t1"],
    [id |-> "p2", author |-> b, dynasty |-> "d1", type |-> "t1"],
    [id |-> "p3", author |-> b, dynasty |-> "d1", type |-> "t1"] }

MCLangs == {"hans", "hant"}
MCAuthors == [l \in MCLangs |-> BothAuthors]
MCPoems == [l \in MCLangs |-> IF l = "hans" THEN PoemsBy("a1", "a2") ELSE PoemsBy("a2", "a1")]
MCDynasties == {"d1", "d2"}   \* d2 has no poems
MCTypes == {"t1"}

Field(k, l, r) == [kind |-> k, lang |-> l, rows |-> r, size |-> 3, deep |-> TRUE, parent |-> "root", alias |-> "poems"]
Works(f, l, r, n, d) == [kind |-> "author.poems", lang |-> l, rows |-> r, size |-> n, deep |-> d, parent |-> f, alias |-> "poems"]
MCFields ==
  [ statistics |-> Field("statistics", "hans", {}),
    again      |-> Field("statistics", "hans", {}),
    others     |-> Field("statistics", "hant", {}),
    dynasties  |-> Field("dynasties", "hans", {}),
    types      |-> Field("poemTypes", "hans", {}),
    poem       |-> Field("poem", "hans", {"p1"}),
    poems      |-> Field("poems", "hant", {"p2", "p3"}),
    author     |-> Field("author", "hant", {"a1"}),
    works      |-> Works("author", "hant", {"p2", "p3"}, 3, TRUE),
    titles     |-> Works("author", "hant", {"p2", "p3"}, 3, FALSE),
    authors    |-> Field("authors", "hans", {"a1", "a2"}),
    list       |-> [Field("authors", "hans", {"a1", "a2"}) EXCEPT !.size = 2, !.deep = FALSE],
    one        |-> Works("list", "hans", {"p1"}, 1, FALSE),
    other      |-> Works("list", "hans", {"p2"}, 1, FALSE),
    writers    |-> Field("authors", "hans", {"a1"}),
    writer     |-> [Field("author", "hant", {"a1"}) EXCEPT !.deep = FALSE],
    first      |-> [Works("writer", "hant", {"p2"}, 1, FALSE) EXCEPT !.alias = "first"],
    all        |-> [Works("writer", "hant", {"p2", "p3"}, 3, TRUE) EXCEPT !.alias = "all"],
    poemsOfAll |-> Works("writers", "hans", {"p1"}, 3, TRUE),
    tooMany    |-> [Field("poems", "hant", {}) EXCEPT !.size = 4] ]

Author == {"author", "titles"}
MCOperations ==
  {{"statistics", g} : g \in {"again", "others", "dynasties", "types", "authors"}}
    \cup {{"poem", g} : g \in {"dynasties", "types", "authors"}}
    \cup {{"others", "poems"}, {"authors", "dynasties"}, {"author", "works"}}
    \cup {Author \cup {g} : g \in {"others", "authors"}}
    \cup {{"list", "one", "other"}, {"writers", "poemsOfAll"}, {"tooMany", "poem"}}
    \cup {{"writer", "first", "all"}, {"writer", "first", "poems"}}
BesideStatistics == {{"statistics", "dynasties"}}
=============================================================================

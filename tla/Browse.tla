------------------------------- MODULE Browse -------------------------------
(***************************************************************************)
(* How a client reads the catalogue that a server has open: page by page   *)
(* through the REST listings (internal/api/rest/handler) and the GraphQL   *)
(* connections (internal/graph), down to the queries of the repository     *)
(* (internal/database).                                                    *)
(*                                                                         *)
(* A request is parsed, its filters are resolved, and then its queries run *)
(* one after the other, in the order of its handler; each may fail.  The   *)
(* server may be replaced between two queries, by one that has opened a    *)
(* newly built catalogue: the request is lost, and the client asks again.  *)
(***************************************************************************)
EXTENDS Integers, Sequences, FiniteSets

CONSTANTS Langs,
          People,       \* of an author: [id, dynasty, names], the names by language
          TypeOf,       \* the poetry type of a product
          Dynasties,    \* the dynasties and the types that have a row of their own, whether
          Types,        \*   or not there are poems of them: their identifiers, by name
          Phrases,      \* of a search text: [runes, wild, hits]; wild: it has % _ or \
          Walks,        \* what clients may want to read
          MaxPage, MaxPageSize, MinRunes, MaxRunes,
          MaxFaults     \* bound: failing queries

Lists == {"poems", "search", "works", "authors"}
Rosters == {"dynasties", "types"}   \* listed as a whole
Singles == {"random", "poem", "author", "dynasty", "type"}

ASSUME BrowseAssumption ==
  /\ MaxPage \in Nat \ {0} /\ MaxPageSize \in Nat \ {0}
  /\ MinRunes \in Nat /\ MaxRunes \in Nat
  /\ MaxFaults \in Nat
  /\ \A w \in Walks :
       /\ w.api \in {"rest", "graphql"} /\ w.list \in Lists \cup Rosters \cup Singles
       /\ w.size \in Nat /\ w.langs \subseteq Langs
       \* Names are in one language; works and single rows are asked for by identifier.
       /\ w.named => w.list \in {"poems", "random"} /\ \E l \in Langs : w.langs = {l}
       /\ w.list = "authors" => w.author = ""
       /\ w.list \in {"works", "author"} => w.author # ""
       /\ w.list = "author" => w.dynasty = ""
       /\ w.list = "dynasty" => w.dynasty # ""
  /\ "" \notin DOMAIN People
  /\ \A a, b \in DOMAIN People : People[a].id \in Nat /\ (People[a].id = People[b].id => a = b)
  /\ \A names \in {Dynasties, Types} :
       /\ IsFiniteSet(DOMAIN names)
       /\ \A x, y \in DOMAIN names : names[x] \in Nat /\ (names[x] = names[y] => x = y)

\* A listing and its options: the filters by id, or by name (REST) in one language.
NoFilter == [dynasty |-> "", author |-> "", types |-> {}]

VARIABLES rows,      \* the poems of the catalogue that is open
          walk,      \* what the client wants to read
          page,      \* the page it asks for
          lang,      \* the language of the request
          step,      \* the next step of the request's handler, 0 when there is none
          chosen,    \* the resolved filters
          total,     \* the number of rows that match, as counted
          found,     \* the rows of the page
          loaded,    \* the relations that were loaded for it
          failed,    \* the queries of the request that failed
          answer,    \* the last answer: its items, and the relations each has
          shown,     \* what the client has been shown
          outcome,   \* walking, done, or why the walk has ended
          faults

client == <<walk, page, lang, shown, outcome>>
request == <<step, chosen, total, found, loaded, failed, answer>>
browsing == <<rows, client, request, faults>>

-----------------------------------------------------------------------------
(* The catalogue. *)

AuthorRows == {rows[i].author : i \in DOMAIN rows}
PoemRows == {rows[i] : i \in DOMAIN rows}
Dynasty(poem) == People[poem.author].dynasty
PoemsOf(w, e) ==
  {r \in PoemRows : e = CASE w.list = "dynasties" -> Dynasty(r) [] w.list = "types" -> TypeOf[r.product] [] OTHER -> r.author}

Filtered(c) ==
  {r \in PoemRows : /\ c.dynasty = "" \/ Dynasty(r) = c.dynasty
                    /\ c.author = "" \/ r.author = c.author
                    /\ c.types = {} \/ TypeOf[r.product] \in c.types}

\* The rows a listing is of.
Matching(w, c) ==
  CASE w.list \in {"poems", "random", "works"} -> Filtered(c)
    [] w.list = "search"                       -> {r \in PoemRows : r.canonical \in Phrases[w.text].hits}
    [] w.list = "dynasties"                    -> DOMAIN Dynasties
    [] w.list = "types"                        -> DOMAIN Types
    [] w.list = "authors"                      -> {a \in AuthorRows : c.dynasty = "" \/ People[a].dynasty = c.dynasty}

Identifier(w, e) ==
  CASE w.list = "authors"   -> People[e].id
    [] w.list = "dynasties" -> Dynasties[e]
    [] w.list = "types"     -> Types[e]
    [] OTHER                -> e.id

\* Authors come by poem_count DESC, and with REST dynasties and types too.
ByCount(w) == w.list = "authors" \/ (w.list \in Rosters /\ w.api = "rest")
More(w, r, s) == ByCount(w) /\ Cardinality(PoemsOf(w, r)) > Cardinality(PoemsOf(w, s))

\* An order that the identifiers do not complete.
BeforeByCountOnly(w, r, s) == More(w, r, s) \/ (~ByCount(w) /\ Identifier(w, r) < Identifier(w, s))
Before(w, r, s) == More(w, r, s) \/ (~More(w, s, r) /\ Identifier(w, r) < Identifier(w, s))

\* The orders in which the database may return rows: any that its ORDER BY allows.
Orders(w, S) ==
  {s \in [1 .. Cardinality(S) -> S] :
     /\ \A i, j \in DOMAIN s : s[i] = s[j] => i = j
     /\ \A i, j \in DOMAIN s : Before(w, s[i], s[j]) => i < j}

Least(m, n) == IF m < n THEN m ELSE n

\* LIMIT size OFFSET (page - 1) * size, for what is listed in pages.
Offset == (page - 1) * walk.size
PageOf(order) ==
  IF walk.list \in Rosters THEN order
  ELSE [i \in 1 .. Least(walk.size, Len(order) - Least(Offset, Len(order))) |-> order[Offset + i]]

-----------------------------------------------------------------------------
(* Requests. *)

\* searchquery: an indexed search needs three characters, and no search a pattern.
Searchable(w) ==
  w.list = "search" =>
    /\ Phrases[w.text].runes \in 1 .. MaxRunes /\ ~Phrases[w.text].wild
    /\ w.kind # "author" => Phrases[w.text].runes >= MinRunes

\* A page or a size out of range is refused, never replaced by another.
Acceptable == page \in 1 .. MaxPage /\ walk.size \in 1 .. MaxPageSize /\ Searchable(walk)

\* Filters given by name are looked up: the dynasty first, since it tells authors of one name apart.
Lookups(w) ==
  IF ~w.named THEN <<>>
  ELSE (IF w.dynasty # "" THEN << "dynasty" >> ELSE <<>>)
         \o (IF w.author # "" THEN << "author" >> ELSE <<>>)
         \o (IF w.types # {} THEN << "type" >> ELSE <<>>)

\* The queries of a request once its filters are resolved, in their order.
Queries(w) ==
  CASE w.list = "random"  -> << "count", "pick", "one", "authors", "origins", "dynasties", "types" >>
    [] w.list = "poem"    -> << "one", "authors", "origins", "dynasties", "types" >>
    [] w.list = "author"  -> << "one", "origins" >>
    [] w.list \in {"dynasty", "type"} -> << "one" >>
    [] w.list \in Rosters -> << "page" >>
    [] w.list = "authors" -> IF w.api = "rest" THEN << "page", "origins", "count" >>
                                               ELSE << "count", "page", "origins", "prefetch" >>
    [] w.list = "works"   -> << "row", "count", "page", "authors", "dynasties", "types", "prefetch" >>
    [] OTHER              -> IF w.api = "rest" THEN << "count", "page", "authors", "dynasties", "types" >>
                                               ELSE << "count", "page", "authors", "dynasties", "types", "prefetch" >>

Plan(w) == Lookups(w) \o Queries(w)

Asking == step # 0
At(s) == Asking /\ step <= Len(Plan(walk)) /\ Plan(walk)[step] = s

Nothing == [authors |-> {}, origins |-> {}, dynasties |-> {}, types |-> {}]

BrowseInit ==
  /\ rows = <<>>
  /\ walk \in Walks
  /\ page = 1 /\ lang \in walk.langs
  /\ step = 0
  /\ chosen = NoFilter /\ total = 0 /\ found = <<>> /\ loaded = Nothing /\ failed = {}
  /\ answer = <<>>
  /\ shown = <<>>
  /\ outcome = "walking"
  /\ faults = 0

\* The client asks for a page, in whichever language.
Ask ==
  /\ outcome = "walking" /\ ~Asking
  /\ IF Acceptable
     THEN /\ step' = 1
          /\ lang' \in walk.langs
          /\ chosen' = IF walk.named THEN NoFilter
                       ELSE [dynasty |-> walk.dynasty, author |-> walk.author, types |-> walk.types]
          /\ total' = 0 /\ found' = <<>> /\ loaded' = Nothing /\ failed' = {} /\ answer' = <<>>
          /\ UNCHANGED outcome
     ELSE outcome' = "refused" /\ UNCHANGED <<lang, request>>
  /\ UNCHANGED <<rows, walk, page, shown, faults>>

Proceed == step' = step + 1 /\ UNCHANGED <<rows, client, answer, faults>>
EndWith(why) == outcome' = why /\ step' = 0 /\ UNCHANGED <<rows, walk, page, lang, shown, answer, faults>>

ResolveDynasty ==
  /\ At("dynasty")
  /\ IF walk.dynasty \in DOMAIN Dynasties
     THEN chosen' = [chosen EXCEPT !.dynasty = walk.dynasty] /\ Proceed
     ELSE EndWith("missing") /\ UNCHANGED chosen
  /\ UNCHANGED <<total, found, loaded, failed>>

\* The authors of a name, in any dynasty.
NamesakesAnywhere == {a \in AuthorRows : People[a].names[lang] = walk.author}

Namesakes == {a \in AuthorRows : People[a].names[lang] = walk.author
                                   /\ (chosen.dynasty # "" => People[a].dynasty = chosen.dynasty)}

\* A name that two authors bear is refused: neither's work is taken for the other's.
ResolveAuthor ==
  /\ At("author")
  /\ CASE Namesakes = {}              -> EndWith("missing") /\ UNCHANGED chosen
       [] Cardinality(Namesakes) = 1  -> chosen' = [chosen EXCEPT !.author = CHOOSE a \in Namesakes : TRUE] /\ Proceed
       [] OTHER                       -> EndWith("ambiguous") /\ UNCHANGED chosen
  /\ UNCHANGED <<total, found, loaded, failed>>

ResolveTypes ==
  /\ At("type")
  /\ IF walk.types \subseteq DOMAIN Types
     THEN chosen' = [chosen EXCEPT !.types = walk.types] /\ Proceed
     ELSE EndWith("missing") /\ UNCHANGED chosen
  /\ UNCHANGED <<total, found, loaded, failed>>

\* The author whose works are listed.
FindAuthor ==
  /\ At("row")
  /\ IF walk.author \in AuthorRows THEN Proceed ELSE EndWith("missing")
  /\ UNCHANGED <<chosen, total, found, loaded, failed>>

CountMatching ==
  /\ At("count")
  /\ total' = Cardinality(Matching(walk, chosen))
  /\ IF walk.list = "random" /\ total' = 0 THEN EndWith("missing") ELSE Proceed
  /\ UNCHANGED <<chosen, found, loaded, failed>>

FetchPage ==
  /\ At("page")
  /\ \E order \in Orders(walk, Matching(walk, chosen)) : found' = PageOf(order)
  /\ Proceed
  /\ UNCHANGED <<chosen, total, loaded, failed>>

\* GetRandomPoem: the row at a random offset below the count.
PickPoem ==
  /\ At("pick")
  /\ \E order \in Orders(walk, Matching(walk, chosen)), i \in 1 .. total : found' = << order[i] >>
  /\ Proceed
  /\ UNCHANGED <<chosen, total, loaded, failed>>

\* A row by its identifier, that of the random poem included.
Single ==
  CASE walk.list = "random" -> {found[i] : i \in DOMAIN found}
    [] walk.list = "poem"   -> {r \in PoemRows : r.canonical = walk.poem}
    [] walk.list = "author" -> AuthorRows \cap {walk.author}
    [] walk.list = "dynasty" -> DOMAIN Dynasties \cap {walk.dynasty}
    [] walk.list = "type"   -> DOMAIN Types \cap walk.types

FetchOne ==
  /\ At("one")
  /\ IF Single = {} THEN EndWith("missing") /\ UNCHANGED found
     ELSE found' = << CHOOSE e \in Single : TRUE >> /\ Proceed
  /\ UNCHANGED <<chosen, total, loaded, failed>>

-----------------------------------------------------------------------------
(* Relations. *)

Found == {found[i] : i \in DOMAIN found}
AuthorsFound == IF walk.list \in {"author", "authors"} THEN Found ELSE loaded.authors

\* The dynasties that are asked for: those of the poems, and those of their authors.
Wanted == {Dynasty(r) : r \in Found} \cup {People[a].dynasty : a \in loaded.authors}

LoadAuthors ==
  /\ At("authors")
  /\ loaded' = [loaded EXCEPT !.authors = {r.author : r \in Found}]
  /\ Proceed /\ UNCHANGED <<chosen, total, found, failed>>

\* The dynasty of the author of a single poem, and of the authors of a page.
LoadOrigins ==
  /\ At("origins")
  /\ loaded' = [loaded EXCEPT !.origins = {People[a].dynasty : a \in AuthorsFound}]
  /\ Proceed /\ UNCHANGED <<chosen, total, found, failed>>

\* One query loads the dynasties of a page of poems and those of their authors.
LoadDynasties ==
  /\ At("dynasties")
  /\ loaded' = IF walk.list \in Singles THEN [loaded EXCEPT !.dynasties = {Dynasty(r) : r \in Found}]
               ELSE [loaded EXCEPT !.dynasties = Wanted, !.origins = Wanted]
  /\ Proceed /\ UNCHANGED <<chosen, total, found, failed>>

LoadTypes ==
  /\ At("types")
  /\ loaded' = [loaded EXCEPT !.types = {TypeOf[r.product] : r \in Found}]
  /\ Proceed /\ UNCHANGED <<chosen, total, found, failed>>

Prefetch == At("prefetch") /\ Proceed /\ UNCHANGED <<chosen, total, found, loaded, failed>>

\* What a query's failure does.  That of a relation is not noticed, but for the
\* dynasties of a GraphQL page of authors; those of a lookup, of a single row of REST and
\* of the count of a random poem are answered as if there were nothing; any other is an
\* error, and the client asks again.
Ignored(s) == s \in {"authors", "dynasties", "types"} \/ (s = "origins" /\ ~(walk.api = "graphql" /\ walk.list = "authors"))
TakenForNothing(s) ==
  \/ s \in {"dynasty", "author", "type"}
  \/ walk.api = "rest" /\ walk.list \in Singles
  \/ s = "count" /\ walk.list = "random"

QueryFails ==
  /\ Asking /\ step <= Len(Plan(walk))
  /\ faults < MaxFaults /\ faults' = faults + 1
  /\ LET s == Plan(walk)[step]
     IN  /\ failed' = failed \cup {s}
         /\ step' = IF Ignored(s) THEN step + 1 ELSE 0
         /\ outcome' = IF ~Ignored(s) /\ TakenForNothing(s) THEN "missing" ELSE outcome
  /\ UNCHANGED <<rows, walk, page, lang, chosen, total, found, loaded, answer, shown>>

-----------------------------------------------------------------------------
(* Answers. *)

RelationsOf(e) ==
  IF walk.list \in Rosters \cup {"dynasty", "type"} THEN {}
  ELSE IF walk.list \in {"author", "authors"} THEN {x \in {"origin"} : People[e].dynasty \in loaded.origins}
  ELSE {x \in {"author"}  : e.author \in loaded.authors}
         \cup {x \in {"origin"} : e.author \in loaded.authors /\ People[e.author].dynasty \in loaded.origins}
         \cup {x \in {"dynasty"} : Dynasty(e) \in loaded.dynasties}
         \cup {x \in {"type"} : TypeOf[e.product] \in loaded.types}

Items == [i \in DOMAIN found |-> [entity |-> found[i], cursor |-> Offset + i - 1, relations |-> RelationsOf(found[i])]]

\* A number of pages that forgets the last one when it is not full.
FullPagesOnly == IF walk.api = "rest" THEN page < total \div walk.size ELSE Offset + Len(found) < total

\* REST tells the number of pages, a connection whether there is a next one.
HasNextPage ==
  IF walk.api = "rest" THEN page < (total + walk.size - 1) \div walk.size ELSE Offset + Len(found) < total

\* The answer is written, and the client goes on while it says that there is more.
Respond ==
  /\ Asking /\ step = Len(Plan(walk)) + 1
  /\ step' = 0
  /\ answer' = Items
  /\ shown' = shown \o Items
  /\ IF walk.list \in Lists /\ HasNextPage
     THEN page' = page + 1 /\ UNCHANGED outcome
     ELSE outcome' = "done" /\ UNCHANGED page
  /\ UNCHANGED <<rows, walk, lang, chosen, total, found, loaded, failed, faults>>

\* Another server answers, which has a catalogue open: what it was asked is lost.
Open(catalogue) ==
  /\ rows' = catalogue
  /\ step' = 0
  /\ UNCHANGED <<client, chosen, total, found, loaded, failed, answer, faults>>

Step ==
  \/ Ask \/ ResolveDynasty \/ ResolveAuthor \/ ResolveTypes \/ FindAuthor
  \/ CountMatching \/ FetchPage \/ PickPoem \/ FetchOne
  \/ LoadAuthors \/ LoadOrigins \/ LoadDynasties \/ LoadTypes \/ Prefetch
  \/ QueryFails \/ Respond

-----------------------------------------------------------------------------
(* Properties. *)

\* The rows that a walk is for, told from its filters and not from how they are resolved.
Wrote(a) == walk.author = "" \/ walk.author = (IF walk.named THEN People[a].names[lang] ELSE a)
Authors == {a \in AuthorRows : Wrote(a) /\ (walk.dynasty # "" => People[a].dynasty = walk.dynasty)}
Intended ==
  CASE walk.list = "search"  -> {r \in PoemRows : r.canonical \in Phrases[walk.text].hits}
    [] walk.list \in {"author", "authors"} -> Authors
    [] walk.list = "poem"    -> {r \in PoemRows : r.canonical = walk.poem}
    [] walk.list = "dynasties" -> DOMAIN Dynasties
    [] walk.list = "types"   -> DOMAIN Types
    [] walk.list = "dynasty" -> {walk.dynasty}
    [] walk.list = "type"    -> walk.types
    [] OTHER                 -> {r \in PoemRows : r.author \in Authors /\ (walk.types # {} => TypeOf[r.product] \in walk.types)}

Preceding(e) == {f \in Intended : Before(walk, f, e)}

\* Page by page, or at once, a client is shown every row it is after, once, in one order and with
\* the cursor of its place, whichever language each page is asked in, whatever has to
\* be asked again, and whichever server of the same corpus answers; it is stopped only
\* at the last page that may be asked for (comments at repository_poems.go:175 and
\* repository_additional.go:26, and at schema.resolvers.go:202).
WalkIsComplete ==
  /\ \A k \in DOMAIN shown :
       /\ shown[k].entity \in Intended
       /\ walk.list \in Lists \cup Rosters => Cardinality(Preceding(shown[k].entity)) = k - 1 /\ shown[k].cursor = k - 1
  /\ outcome = "done" => Len(shown) = IF walk.list \in Singles THEN 1 ELSE Cardinality(Intended)
  /\ outcome = "refused" /\ walk.size \in 1 .. MaxPageSize /\ Searchable(walk) =>
       Len(shown) = MaxPage * walk.size /\ Len(shown) < Cardinality(Intended)

Known ==
  /\ walk.dynasty \in DOMAIN Dynasties \cup {""} /\ walk.types \subseteq DOMAIN Types
  /\ walk.author # "" => Authors # {}

Causes == [author |-> {"authors"}, origin |-> {"authors", "origins", "dynasties"},
           dynasty |-> {"dynasties"}, type |-> {"types"}]
Due ==
  CASE walk.list \in {"author", "authors"} -> {"origin"}
    [] walk.list \in Rosters \cup {"dynasty", "type"} -> {}
    [] OTHER -> DOMAIN Causes

\* Nothing is left out of an answer but a relation whose query has failed; that there
\* is nothing is said only if there is not, or a query failed; and a name is called
\* ambiguous only if two authors of the dynasty that was given bear it (comment at
\* repository_additional.go:9).
AnswersForCause ==
  /\ \A i \in DOMAIN answer : \A x \in Due \ answer[i].relations : failed \cap Causes[x] # {}
  /\ outcome = "missing" => failed # {} \/ ~Known \/ Intended = {}
  /\ outcome = "ambiguous" => Cardinality(Authors) > 1
=============================================================================

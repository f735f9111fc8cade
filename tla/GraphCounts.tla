----------------------------- MODULE GraphCounts -----------------------------
(***************************************************************************)
(* internal/graph: how one GraphQL operation answers the count fields of   *)
(* authors, dynasties and poetry types.                                    *)
(*                                                                         *)
(* The fields of an operation are resolved by concurrent goroutines.  A    *)
(* resolver queries the database, notes the language of its path, and puts *)
(* the counts it learned, one at a time, into a registry that lives for    *)
(* the operation; only when it has returned are the fields below it        *)
(* resolved.  A count field takes its answer from the registry if it is    *)
(* there and asks the database otherwise.  The database is read-only.      *)
(***************************************************************************)
EXTENDS Integers, Sequences, FiniteSets, SequencesExt

CONSTANTS Langs,           \* the languages
          Authors,         \* per language, the authors: [id, dynasty]
          Poems,           \* per language, the poems: [id, author, dynasty, type]
          Dynasties, Types,
          Fields,          \* of each field that may be asked for: [kind, lang, rows, size, deep, parent, alias],
                           \* the rows it is about, the page size asked for, whether the counts
                           \* below are asked for; a nested field is to speak its parent's language,
                           \* and has an instance per row of its parent and alias
          Operations,      \* sets of fields that are asked for together
          MaxPageSize,
          MaxFaults        \* bound: failing queries

Kinds == {"statistics", "dynasties", "poemTypes", "authors", "poems", "author.poems", "poem", "author"}
Paged == {"authors", "poems", "author.poems"}   \* searchPoems is a page like poems

\* In a published catalogue an author row is there for poems, and of their dynasty,
\* whose row and that of their type are there (foreign keys, migrate.go:265); a field
\* that is nested is asked for together with its parent, below an author, and no
\* selection is below itself.
ASSUME GraphCountsAssumption ==
  /\ IsFiniteSet(Langs)
  /\ \A l \in Langs :
       /\ IsFiniteSet(Poems[l])
       /\ \A p \in Poems[l] : p.dynasty \in Dynasties /\ p.type \in Types
       /\ \A p \in Poems[l] : \E a \in Authors[l] : a.id = p.author
       /\ \A a \in Authors[l] : \E p \in Poems[l] : p.author = a.id
       /\ \A p \in Poems[l], a \in Authors[l] : p.author = a.id => p.dynasty = a.dynasty
  /\ \A f \in DOMAIN Fields : Fields[f].kind \in Kinds /\ Fields[f].lang \in Langs /\ Fields[f].size \in Int
  /\ \A o \in Operations : o \subseteq DOMAIN Fields
  /\ \A o \in Operations : \A f \in o : Fields[f].parent \in o \cup {"root"}
  /\ \A f \in DOMAIN Fields : Fields[f].parent # "root" => Fields[f].lang = Fields[Fields[f].parent].lang
  /\ \A f \in DOMAIN Fields : Fields[f].kind = "author.poems" <=> Fields[f].parent # "root"
  /\ \A f \in DOMAIN Fields : Fields[f].parent # "root" =>
       Fields[Fields[f].parent].kind \in {"author", "authors", "poem", "poems", "author.poems"}
  /\ \A o \in Operations : \A s \in SUBSET o : s # {} => \E f \in s : Fields[f].parent \notin s
  /\ MaxPageSize \in Nat
  /\ MaxFaults \in Nat

VARIABLES operation,   \* the fields that are asked for
          status,      \* of each field: waiting, resolved, or failed
          queries,     \* the queries its resolver has made
          dropped,     \* the statements for relations of its rows that failed and were passed over
          writes,      \* what the resolver has still to put into the registry
          asks,        \* the count fields below it that have no answer yet
          paths,       \* the registry: the language of each path
          registry,    \* the registry: the counts
          answers,     \* the answers to count fields, and who gave them
          faults

vars == <<operation, status, queries, dropped, writes, asks, paths, registry, answers, faults>>

-----------------------------------------------------------------------------
(* The database. *)

PoemsOf(l, kind, id) == {p \in Poems[l] : p[kind] = id}
PoemCount(l, kind, id) == Cardinality(PoemsOf(l, kind, id))
AuthorCount(l, d) == Cardinality({p.author : p \in PoemsOf(l, "dynasty", d)})

\* A join with the poems that forgets DISTINCT.
AuthorRowsOfPoems(l, d) == Cardinality(PoemsOf(l, "dynasty", d))

\* What the prefetch of an author page counts: the author rows of a dynasty.
AuthorRows(l, d) == Cardinality({a.id : a \in {b \in Authors[l] : b.dynasty = d}})

AuthorOf(l, id) == CHOOSE a \in Authors[l] : a.id = id

-----------------------------------------------------------------------------
(* Resolvers. *)

\* A key without the language.
KeyOfNoLanguage(l, kind, id) == [lang |-> CHOOSE x \in Langs : TRUE, kind |-> kind, id |-> id]
Key(l, kind, id) == [lang |-> l, kind |-> kind, id |-> id]

AuthorEntry(l, a) == [key |-> Key(l, "author", a), poems |-> PoemCount(l, "author", a), authors |-> 0]
TypeEntry(l, t) == [key |-> Key(l, "type", t), poems |-> PoemCount(l, "type", t), authors |-> 0]
DynastyEntry(l, d, n) == [key |-> Key(l, "dynasty", d), poems |-> PoemCount(l, "dynasty", d), authors |-> n]

\* Statistics knows the poems of every dynasty first, and its authors only then.
Statistics(l) ==
  << {DynastyEntry(l, d, 0) : d \in Dynasties},
     {DynastyEntry(l, d, AuthorCount(l, d)) : d \in {e \in Dynasties : PoemCount(l, "dynasty", e) > 0}}
       \cup {TypeEntry(l, t) : t \in Types} >>

\* A page of poems, and the three queries that prefetch what can be asked below it.
PoemPage(l, rows) ==
  << {},
     {AuthorEntry(l, p.author) : p \in rows},
     {DynastyEntry(l, p.dynasty, AuthorCount(l, p.dynasty)) : p \in rows},
     {TypeEntry(l, p.type) : p \in rows} >>

\* A page of authors with their poems counted, and the prefetch of their dynasties.
AuthorPage(l, rows) ==
  << {AuthorEntry(l, a.id) : a \in rows},
     {DynastyEntry(l, a.dynasty, AuthorRows(l, a.dynasty)) : a \in rows} >>

\* The rows a field is about: of a page, those on it.
Rows(f, l) ==
  LET ids == Fields[f].rows
  IN  CASE Fields[f].kind \in {"poem", "poems", "author.poems"} -> {p \in Poems[l] : p.id \in ids}
        [] Fields[f].kind \in {"author", "authors"}             -> {a \in Authors[l] : a.id \in ids}
        [] OTHER                                                -> {}

\* What each query of a resolver adds to the registry.
Batches(f, l) ==
  CASE Fields[f].kind = "statistics" -> Statistics(l)
    [] Fields[f].kind = "dynasties"  -> << {DynastyEntry(l, d, AuthorCount(l, d)) : d \in Dynasties} >>
    [] Fields[f].kind = "poemTypes"  -> << {TypeEntry(l, t) : t \in Types} >>
    [] Fields[f].kind = "authors"    -> AuthorPage(l, Rows(f, l))
    [] Fields[f].kind \in {"poems", "author.poems"} -> PoemPage(l, Rows(f, l))
    [] Fields[f].kind \in {"poem", "author"}        -> << {} >>

\* The count fields that can be asked for below a field, each at its place: the
\* path below the field.  Rows of a page that share an entity are asked together.
CountsOf(l, kind, id, at) ==
  {[key |-> Key(l, kind, id), count |-> c, at |-> at] :
     c \in IF kind = "dynasty" THEN {"poems", "authors"} ELSE {"poems"}}
CountsBelowAuthor(l, a, at) == CountsOf(l, "author", a.id, at) \cup CountsOf(l, "dynasty", a.dynasty, at \o <<"dynasty">>)
CountsBelowPoem(l, p, at) ==
  CountsBelowAuthor(l, AuthorOf(l, p.author), at \o <<"author">>)
    \cup CountsOf(l, "dynasty", p.dynasty, at \o <<"dynasty">>) \cup CountsOf(l, "type", p.type, at \o <<"type">>)

Row == <<"edges", "[]", "node">>
StatisticsPlace(kind) == IF kind = "dynasty" THEN <<"poemsByDynasty", "[]", "dynasty">> ELSE <<"poemsByType", "[]", "type">>

Below(f, l) ==
  LET entries == UNION {Batches(f, l)[i] : i \in DOMAIN Batches(f, l)}
  IN  CASE Fields[f].kind = "statistics" -> UNION {CountsOf(l, e.key.kind, e.key.id, StatisticsPlace(e.key.kind)) : e \in entries}
        [] Fields[f].kind \in {"dynasties", "poemTypes"} -> UNION {CountsOf(l, e.key.kind, e.key.id, <<"[]">>) : e \in entries}
        [] Fields[f].kind = "author"  -> UNION {CountsBelowAuthor(l, a, << >>) : a \in Rows(f, l)}
        [] Fields[f].kind = "authors" -> UNION {CountsBelowAuthor(l, a, Row) : a \in Rows(f, l)}
        [] Fields[f].kind = "poem"    -> UNION {CountsBelowPoem(l, p, << >>) : p \in Rows(f, l)}
        [] OTHER                      -> UNION {CountsBelowPoem(l, p, Row) : p \in Rows(f, l)}

\* The statements for relations of the rows a query has read whose errors are not looked
\* at, each by what it is for, below a row.  For a page of poems there is one per table;
\* the one for a page of authors does report its error (repository_stats.go:189).
Relations(kind) ==
  CASE kind \in {"poems", "author.poems"} -> {{<<"author">>}, {<<"author", "dynasty">>, <<"dynasty">>}, {<<"type">>}}
    [] kind = "poem" -> {{<<"author">>}, {<<"author", "dynasty">>}, {<<"dynasty">>}, {<<"type">>}}
    [] kind = "author" -> {{<<"dynasty">>}}
    [] OTHER -> {}

RowPlace(kind) == IF kind \in Paged THEN Row ELSE << >>

\* What a row lacks: the relations of the statements that failed.
LostPlaces(f) == {RowPlace(Fields[f].kind) \o p : p \in UNION dropped[f]}
BelowLost(f, at) == \E p \in LostPlaces(f) : IsPrefix(p, at)

\* The author below whose row another field is nested: that of a poem is a relation.
AuthorFound(f) == {<<"author">>} \notin dropped[f]

-----------------------------------------------------------------------------
Init ==
  /\ operation \in Operations
  /\ status = [f \in operation |-> "waiting"]
  /\ queries = [f \in operation |-> 0]
  /\ dropped = [f \in operation |-> {}]
  /\ writes = [f \in operation |-> {}]
  /\ asks = [f \in operation |-> {}]
  /\ paths = [f \in {} |-> "none"]
  /\ registry = [k \in {} |-> 0]
  /\ answers = {}
  /\ faults = 0

Parent(f) == Fields[f].parent
Nested(f) == Parent(f) # "root"

\* The language of a root field is its argument, that of a nested one comes by path.
Language(f) == IF Nested(f) THEN paths[Parent(f)] ELSE Fields[f].lang

Started(f) == status[f] = "waiting" /\ (Nested(f) => status[Parent(f)] = "resolved" /\ AuthorFound(Parent(f)))
Unwritten(f) == writes[f] # {}
MoreQueries(f) == queries[f] < Len(Batches(f, Language(f)))
PageFits(f) == Fields[f].kind \in Paged => Fields[f].size \in 1 .. MaxPageSize

\* A resolver that lets no other one run before its result is complete.
QueryAlone(f) ==
  /\ Started(f) /\ PageFits(f) /\ ~Unwritten(f) /\ MoreQueries(f)
  /\ \A g \in operation \ {f} : queries[g] > 0 =>
       status[g] = "resolved" /\ \A h \in operation : Parent(h) = g => status[h] = "resolved"
  /\ queries' = [queries EXCEPT ![f] = @ + 1]
  /\ writes' = [writes EXCEPT ![f] = Batches(f, Language(f))[queries[f] + 1]]
  /\ paths' = [g \in DOMAIN paths \cup {f} |-> IF g = f THEN Language(f) ELSE paths[g]]
  /\ UNCHANGED <<operation, status, dropped, asks, registry, answers, faults>>

\* The resolver was answered a query; after the first it registers its language.
Query(f) ==
  /\ Started(f) /\ PageFits(f) /\ ~Unwritten(f) /\ MoreQueries(f)
  /\ queries' = [queries EXCEPT ![f] = @ + 1]
  /\ writes' = [writes EXCEPT ![f] = Batches(f, Language(f))[queries[f] + 1]]
  /\ paths' = [g \in DOMAIN paths \cup {f} |-> IF g = f THEN Language(f) ELSE paths[g]]
  /\ UNCHANGED <<operation, status, dropped, asks, registry, answers, faults>>

\* A page size out of bounds is an error of the resolver, before any query.
PageRefused(f) ==
  /\ Started(f) /\ ~ PageFits(f)
  /\ status' = [status EXCEPT ![f] = "failed"]
  /\ UNCHANGED <<operation, queries, dropped, writes, asks, paths, registry, answers, faults>>

QueryFails(f) ==
  /\ Started(f) /\ PageFits(f) /\ ~Unwritten(f) /\ MoreQueries(f)
  /\ faults < MaxFaults
  /\ faults' = faults + 1
  /\ status' = [status EXCEPT ![f] = "failed"]
  /\ UNCHANGED <<operation, queries, dropped, writes, asks, paths, registry, answers>>

\* A statement for a relation fails: its error is not looked at, and the rows are
\* returned without the relation.  The dynasty of an author who is not there is not asked for.
RelationFails(f) ==
  /\ Started(f) /\ PageFits(f) /\ queries[f] = 1 /\ writes[f] = Batches(f, Language(f))[1]
  /\ Rows(f, Language(f)) # {}
  /\ faults < MaxFaults
  /\ \E r \in Relations(Fields[f].kind) \ dropped[f] :
       /\ ~ {{<<"author">>}, {<<"author", "dynasty">>}} \subseteq dropped[f] \cup {r}
       /\ dropped' = [dropped EXCEPT ![f] = @ \cup {r}]
  /\ faults' = faults + 1
  /\ UNCHANGED <<operation, status, queries, writes, asks, paths, registry, answers>>

Known(k) == k \in DOMAIN registry
Registered(e, entry) ==
  [k \in DOMAIN registry \cup {e.key} |-> IF k = e.key THEN entry ELSE registry[k]]

\* A registry that adds a count to what it has.
CacheSum(f) ==
  \E e \in writes[f] :
    /\ writes' = [writes EXCEPT ![f] = @ \ {e}]
    /\ registry' = Registered(e, [poems |-> e.poems + (IF Known(e.key) THEN registry[e.key].poems ELSE 0),
                                  authors |-> e.authors])
    /\ UNCHANGED <<operation, status, queries, dropped, asks, paths, answers, faults>>

\* One count is put into the registry, over one that may be there.
Cache(f) ==
  \E e \in writes[f] :
    /\ writes' = [writes EXCEPT ![f] = @ \ {e}]
    /\ registry' = Registered(e, [poems |-> e.poems, authors |-> e.authors])
    /\ UNCHANGED <<operation, status, queries, dropped, asks, paths, answers, faults>>

\* The count fields that are reached below a field: those of what its rows have.
Reached(f, l) == {a \in Below(f, l) : Fields[f].deep /\ ~ BelowLost(f, a.at)}

\* The resolver returns, and the fields below it are resolved.
Return(f) ==
  /\ Started(f) /\ PageFits(f) /\ ~Unwritten(f) /\ ~MoreQueries(f)
  /\ status' = [status EXCEPT ![f] = "resolved"]
  /\ asks' = [asks EXCEPT ![f] = Reached(f, paths[f])]
  /\ UNCHANGED <<operation, queries, dropped, writes, paths, registry, answers, faults>>

Answer(f, a, value, queried) ==
  /\ answers' = answers \cup {[field |-> f, key |-> a.key, count |-> a.count, at |-> a.at, value |-> value, queried |-> queried]}
  /\ asks' = [asks EXCEPT ![f] = @ \ {a}]

AnswerFromRegistry(f) ==
  \E a \in asks[f] :
    /\ Known(a.key)
    /\ Answer(f, a, registry[a.key][a.count], FALSE)
    /\ UNCHANGED <<operation, status, queries, dropped, writes, paths, registry, faults>>

AnswerFromDatabase(f) ==
  \E a \in asks[f] :
    /\ ~Known(a.key)
    /\ Answer(f, a, IF a.count = "poems" THEN PoemCount(paths[f], a.key.kind, a.key.id)
                                         ELSE AuthorCount(paths[f], a.key.id), TRUE)
    /\ UNCHANGED <<operation, status, queries, dropped, writes, paths, registry, faults>>

AnswerFails(f) ==
  \E a \in asks[f] :
    /\ ~Known(a.key)
    /\ faults < MaxFaults
    /\ faults' = faults + 1
    /\ asks' = [asks EXCEPT ![f] = @ \ {a}]
    /\ UNCHANGED <<operation, status, queries, dropped, writes, paths, registry, answers>>

\* A field does not run: it has been resolved or has failed, or it waits for one above it.
Idle(f) == ~ Started(f) /\ asks[f] = {}

FieldStep(f) ==
  \/ Query(f) \/ PageRefused(f) \/ QueryFails(f) \/ RelationFails(f) \/ Cache(f) \/ Return(f)
  \/ AnswerFromRegistry(f) \/ AnswerFromDatabase(f) \/ AnswerFails(f)

Next == \E f \in operation : FieldStep(f)

Spec == Init /\ [][Next]_vars

-----------------------------------------------------------------------------
(* Properties. *)

Count == 0 .. Cardinality(UNION {Poems[l] : l \in Langs})
CountKeys == [lang : Langs, kind : {"author"}, id : {a.id : a \in UNION {Authors[l] : l \in Langs}}]
               \cup [lang : Langs, kind : {"dynasty"}, id : Dynasties] \cup [lang : Langs, kind : {"type"}, id : Types]
PathSteps == {"edges", "[]", "node", "author", "dynasty", "type", "poemsByDynasty", "poemsByType"}
CountFields == [key : CountKeys, count : {"poems", "authors"}, at : Seq(PathSteps)]

TypeOK ==
  /\ operation \in Operations
  /\ status \in [operation -> {"waiting", "resolved", "failed"}]
  /\ queries \in [operation -> 0 .. 4]
  /\ DOMAIN dropped = operation /\ \A f \in operation : dropped[f] \subseteq Relations(Fields[f].kind)
  /\ \A f \in operation : writes[f] \subseteq [key : CountKeys, poems : Count, authors : Count]
  /\ asks \in [operation -> SUBSET CountFields]
  /\ DOMAIN paths \subseteq operation /\ paths \in [DOMAIN paths -> Langs]
  /\ DOMAIN registry \subseteq CountKeys /\ registry \in [DOMAIN registry -> [poems : Count, authors : Count]]
  /\ answers \subseteq [field : operation, key : CountKeys, count : {"poems", "authors"}, at : Seq(PathSteps), value : Count, queried : BOOLEAN]
  /\ faults \in 0 .. MaxFaults

\* What the database says, in the language the client asked for.
Truth(a) ==
  LET l == Fields[a.field].lang
  IN  IF a.count = "poems" THEN PoemCount(l, a.key.kind, a.key.id) ELSE AuthorCount(l, a.key.id)

\* A poemCount is the number of poems in the language of its root field, whoever
\* put it into the registry and whatever other fields and languages the operation
\* asks for (comment at language_context.go:15).
PoemCountsAreTrue == \A a \in answers : a.count = "poems" => a.value = Truth(a)

\* An authorCount is the number of the dynasty's authors who have a poem
\* (comment at repository_stats.go:34, asserted at lang_test.go:256).
AuthorCountsAreTrue == \A a \in answers : a.count = "authors" => a.value = Truth(a)

\* No count is wrong but an authorCount, and it is so only by being zero, while
\* another field of the operation asks for the statistics of the same language:
\* statistics alone, and operations without statistics, answer correctly.
WrongOnlyBesideStatistics ==
  \A a \in answers : a.value # Truth(a) =>
    /\ a.count = "authors" /\ a.value = 0
    /\ \E g \in operation \ {a.field} :
         Fields[g].kind = "statistics" /\ Fields[g].lang = Fields[a.field].lang
=============================================================================
